------------------------------ MODULE AgentLoop ------------------------------
(***************************************************************************)
(* What the agents of one Run do between two decisions of its kernel:      *)
(* AgentLoopExecutor, AgentLoop and ContextAssembler under the kernel's    *)
(* KernelExecutionObserver, at the granularity of their awaits.  An agent  *)
(* cuts its working context to the budget, asks the model, accounts for    *)
(* the answer, performs the tool calls one by one and asks again.  Its     *)
(* Run may be stopped, and an event may be refused, at every await; the    *)
(* next Run learns from the journal what was done                          *)
(* (JournalContinuationReader).                                            *)
(***************************************************************************)
EXTENDS Naturals, Sequences, FiniteSets

CONSTANTS
  Agents,           \* the agents of one parallel assignment
  MaxTurns,         \* ExecutionLimits.max_model_turns
  MaxTokens,        \* RuntimeLimits.max_total_tokens
  Budget,           \* ContextBudget.max_context_chars, in units of a summary
  History,          \* messages of earlier Runs, before the current request
  Memories,         \* how many approved memories are offered
  Resources,        \* how many saved resource observations are offered
  Results,          \* the sizes of tool results, and whether each holds records
  MaxCalls,         \* bound: tool calls in one answer
  MaxCost,          \* bound: tokens of one model request
  SuspendingEmits,  \* the journal or the sink of an event is awaited
  Faults            \* an emit may raise, before or after the journal has it

(* What earlier Runs have committed is the text of requests and answers.   *)
EarlierMessage ==
  [role : {"user", "assistant"}, ops : {<<>>}, size : Nat, records : {FALSE}, ok : {TRUE}]

ASSUME LoopAssumption ==
  /\ IsFiniteSet(Agents)
  /\ MaxTurns \in Nat /\ MaxTokens \in Nat \ {0} /\ Budget \in Nat
  /\ MaxCalls \in Nat /\ MaxCost \in Nat
  /\ History \in Seq(EarlierMessage) /\ Memories \in Nat /\ Resources \in Nat
  /\ Results \subseteq [size : Nat \ {0}, records : BOOLEAN]

VARIABLES
  at,        \* where each agent is
  asked,     \* counters["model_requests"], and the number of the tool round
  call,      \* which call of the round it is at
  reply,     \* the answer of the model
  found,     \* the result of the call it is at
  messages,  \* its working messages
  prompt,    \* the messages last sent to the model
  log,       \* the tool events of the agent in the journal
  acted,     \* operations a tool has executed
  spent,     \* AgentLoop.usage
  reported,  \* the kernel's _execution_usage
  consumed,  \* tokens the model has really used
  outcome,   \* how its execution ended
  total,     \* the kernel's usage.total_tokens
  marked,    \* the kernel's usage is marked incomplete or estimated
  stopped    \* the Run's scope is cancelled

talk == <<reply, found, messages, prompt>>
work == <<log, acted>>
tokens == <<spent, reported, consumed, total, marked>>
loopVars == <<at, asked, call, talk, work, tokens, outcome, stopped>>

-----------------------------------------------------------------------------
(* Messages.  Operations are named by their round and place in it.         *)

Message(role, ops, size) ==
  [role |-> role, ops |-> ops, size |-> size, records |-> FALSE, ok |-> TRUE]
Request == Message("current", <<>>, 1)
Block(size) == IF size = 0 THEN <<>> ELSE <<Message("user", <<>>, size)>>
Ops(a) == [i \in 1 .. reply[a].calls |-> <<asked[a], i>>]
Op(a) == <<asked[a], call[a]>>
Told(a) == [role |-> "tool", ops |-> <<Op(a)>>, size |-> found[a].size,
            records |-> found[a].records, ok |-> found[a].ok]

Start == "turn"
NoReply == [cost |-> 0, calls |-> 0, how |-> "stop"]
NoResult == [size |-> 1, records |-> FALSE, ok |-> FALSE]

LoopInit ==
  /\ at = [a \in Agents |-> Start]
  /\ asked = [a \in Agents |-> 0] /\ call = [a \in Agents |-> 0]
  /\ reply = [a \in Agents |-> NoReply] /\ found = [a \in Agents |-> NoResult]
  /\ messages = [a \in Agents |-> Append(History, Request)]
  /\ prompt = [a \in Agents |-> <<>>]
  /\ log = [a \in Agents |-> <<>>] /\ acted = [a \in Agents |-> {}]
  /\ spent = [a \in Agents |-> 0] /\ reported = [a \in Agents |-> 0]
  /\ consumed = [a \in Agents |-> 0]
  /\ outcome = [a \in Agents |-> "none"]
  /\ total = 0 /\ marked = FALSE /\ stopped = FALSE

Go(a, label) == at' = [at EXCEPT ![a] = label]
End(a, how) == Go(a, "ended") /\ outcome' = [outcome EXCEPT ![a] = how]

-----------------------------------------------------------------------------
(* ContextAssembler.prepare cuts in a fixed order, one thing at a time,    *)
(* until the rest fits: a resource, a result that holds records, a memory, *)
(* a whole turn of the history, a result of this Run.  Cut(m, n) is what   *)
(* is left of m after n cuts.                                              *)

(* A sum, as the number of its units: it can be reasoned about without     *)
(* induction.                                                              *)
Units(count) == UNION {{x} \X (1 .. count[x]) : x \in DOMAIN count}
Total(count) == Cardinality(Units(count))

Size(m) == Total([i \in DOMAIN m |-> m[i].size])
Summary(message) == [message EXCEPT !.size = 1]

Current(m) == CHOOSE i \in DOMAIN m : m[i].role = "current"
ToolResults(m) == {i \in DOMAIN m : m[i].role = "tool"}
RecordResults(m) == {i \in ToolResults(m) : m[i].records}
OwnResults(m) == {i \in ToolResults(m) : i > Current(m)}
(* Where the history can be cut: before each of its requests but the       *)
(* first, and before the current one.                                      *)
Turns(m) ==
  IF Current(m) = 1 THEN {}
  ELSE {Current(m)} \cup {i \in 2 .. Current(m) : m[i].role = "user"}

First(S, n) == {i \in S : Cardinality({j \in S : j < i}) < n}
Greatest(S) == CHOOSE i \in S : \A j \in S : j <= i

(* How many of a kind are cut after n cuts, if so many others come first.  *)
Share(n, before, many) ==
  IF n <= before THEN 0 ELSE IF n - before > many THEN many ELSE n - before

CutRecords(m) == Resources + Cardinality(RecordResults(m))
CutMemories(m) == CutRecords(m) + Memories
CutTurns(m) == CutMemories(m) + Cardinality(Turns(m))
CutResults(m) == CutTurns(m) + Cardinality(OwnResults(m))

Cut(m, n) ==
  LET short == First(RecordResults(m), Share(n, Resources, Cardinality(RecordResults(m))))
                 \cup First(OwnResults(m), Share(n, CutTurns(m), Cardinality(OwnResults(m))))
      turns == First(Turns(m), Share(n, CutMemories(m), Cardinality(Turns(m))))
      from == IF turns = {} THEN 1 ELSE Greatest(turns)
  IN  SubSeq([i \in DOMAIN m |-> IF i \in short THEN Summary(m[i]) ELSE m[i]], from, Len(m))

ResourcesLeft(n) == Resources - Share(n, 0, Resources)
MemoriesLeft(m, n) == Memories - Share(n, CutRecords(m), Memories)

Fits(m, n) == Size(Cut(m, n)) + MemoriesLeft(m, n) + ResourcesLeft(n) <= Budget
Fitting(m) == {n \in 0 .. CutResults(m) : Fits(m, n)}
Cuts(m) == CHOOSE n \in Fitting(m) : \A k \in Fitting(m) : n <= k

(* What is sent: memories and resources are put before the request.        *)
Assembled(m, n) ==
  LET rest == Cut(m, n)
  IN  SubSeq(rest, 1, Current(rest) - 1)
        \o Block(MemoriesLeft(m, n)) \o Block(ResourcesLeft(n))
        \o SubSeq(rest, Current(rest), Len(rest))

-----------------------------------------------------------------------------
(* One turn: limits, context, request, answer, accounting.                 *)

TurnsExhausted(a) ==
  /\ at[a] = "turn" /\ asked[a] = MaxTurns
  /\ End(a, "model_turn_budget_exhausted")
  /\ UNCHANGED <<asked, call, talk, work, tokens, stopped>>

ContextExhausted(a) ==
  /\ at[a] = "turn" /\ asked[a] < MaxTurns /\ Fitting(messages[a]) = {}
  /\ End(a, "context_budget_exhausted")
  /\ UNCHANGED <<asked, call, talk, work, tokens, stopped>>

Ask(a) ==
  /\ at[a] = "turn" /\ ~stopped
  /\ asked[a] < MaxTurns /\ Fitting(messages[a]) # {}
  /\ messages' = [messages EXCEPT ![a] = Cut(@, Cuts(@))]
  /\ prompt' = [prompt EXCEPT ![a] = Assembled(messages[a], Cuts(messages[a]))]
  /\ asked' = [asked EXCEPT ![a] = @ + 1]
  /\ Go(a, "asking")
  /\ UNCHANGED <<call, reply, found, work, tokens, outcome, stopped>>

(* The whole answer has come; the phase that waited for it publishes its   *)
(* end before anything is counted.                                         *)
Answers(a) ==
  /\ at[a] = "asking"
  /\ \E cost \in 1 .. MaxCost, calls \in 0 .. MaxCalls, how \in {"stop", "length", "protocol"} :
       /\ calls > 0 => how = "stop"
       /\ reply' = [reply EXCEPT ![a] = [cost |-> cost, calls |-> calls, how |-> how]]
       /\ consumed' = [consumed EXCEPT ![a] = @ + cost]
  /\ Go(a, "answered")
  /\ UNCHANGED <<asked, call, found, messages, prompt, work, spent, reported, total, marked,
                 outcome, stopped>>

(* The model raises, its time is over, or the loop closes a stream that    *)
(* passes the tokens left to it: the phase is marked as interrupted.       *)
AnswerBreaks(a) ==
  /\ at[a] = "asking"
  /\ \E cost \in 0 .. MaxCost : consumed' = [consumed EXCEPT ![a] = @ + cost]
  /\ marked' = TRUE
  /\ End(a, "model_failed")
  /\ UNCHANGED <<asked, call, talk, work, spent, reported, total, stopped>>

(* usage_reported adds what is new since the agent's last report; other    *)
(* reports of the same request are dropped.                                *)
(* Mutant: it adds the whole usage of the agent.                           *)
MutantReport(a, usage) ==
  /\ total' = total + usage
  /\ reported' = [reported EXCEPT ![a] = usage]

Report(a, usage) ==
  /\ total' = total + (usage - reported[a])
  /\ reported' = [reported EXCEPT ![a] = usage]

Account(a) ==
  /\ at[a] = "answered"
  /\ spent' = [spent EXCEPT ![a] = @ + reply[a].cost]
  /\ Report(a, spent'[a])
  /\ UNCHANGED <<asked, call, reply, found, prompt, work, consumed, marked, stopped>>

(* The kernel's limit is looked at with each report.  The loop's own, what *)
(* was left when it was assigned, is never passed before.                  *)
TokensExhausted(a) ==
  /\ Account(a) /\ total' >= MaxTokens
  /\ End(a, "token_budget_exhausted") /\ UNCHANGED messages

AnswerRejected(a) ==
  /\ Account(a) /\ total' < MaxTokens /\ reply[a].how # "stop"
  /\ End(a, reply[a].how) /\ UNCHANGED messages

Finishes(a) ==
  /\ Account(a) /\ total' < MaxTokens /\ reply[a].how = "stop" /\ reply[a].calls = 0
  /\ messages' = [messages EXCEPT ![a] = Append(@, Message("assistant", <<>>, 1))]
  /\ End(a, "report")

WantsTools(a) ==
  /\ Account(a) /\ total' < MaxTokens /\ reply[a].calls > 0
  /\ Go(a, "calls") /\ UNCHANGED <<messages, outcome>>

(* The phase cannot publish its end: a model error, whose usage counts as  *)
(* estimated.                                                              *)
AnswerUnpublished(a) ==
  /\ Faults /\ at[a] = "answered"
  /\ marked' = TRUE
  /\ End(a, "model_failed")
  /\ UNCHANGED <<asked, call, talk, work, spent, reported, consumed, total, stopped>>

-----------------------------------------------------------------------------
(* The tool calls of a turn.                                               *)

(* The event an agent is about to emit.                                    *)
Event(a) ==
  CASE at[a] = "calls" -> [kind |-> "tool_call", ops |-> {Ops(a)[i] : i \in DOMAIN Ops(a)},
                           ok |-> FALSE]
    [] at[a] = "call" -> [kind |-> "tool_started", ops |-> {Op(a)}, ok |-> FALSE]
    [] at[a] = "tells" -> [kind |-> "tool_result", ops |-> {Op(a)}, ok |-> found[a].ok]
Logged(a) == log' = [log EXCEPT ![a] = Append(@, Event(a))]

Announce(a) ==
  /\ at[a] = "calls" /\ ~stopped
  /\ Logged(a)
  /\ messages' = [messages EXCEPT ![a] = Append(@, Message("assistant", Ops(a), 1))]
  /\ call' = [call EXCEPT ![a] = 1]
  /\ Go(a, "call")
  /\ UNCHANGED <<asked, reply, found, prompt, acted, tokens, outcome, stopped>>

StartCall(a) ==
  /\ at[a] = "call" /\ ~stopped
  /\ Logged(a)
  /\ Go(a, "started")
  /\ UNCHANGED <<asked, call, talk, acted, tokens, outcome, stopped>>

(* Arguments that cannot be read, or a phase that cannot publish its       *)
(* start, make a failed result; the tool is not executed.                  *)
(* Mutant: such a call is passed over.                                     *)
MutantNotExecuted(a) ==
  /\ at[a] = "started" /\ ~stopped
  /\ call' = [call EXCEPT ![a] = @ + 1]
  /\ Go(a, IF call[a] = reply[a].calls THEN "turn" ELSE "call")
  /\ UNCHANGED <<asked, talk, work, tokens, outcome, stopped>>

NotExecuted(a) ==
  /\ at[a] = "started" /\ ~stopped
  /\ found' = [found EXCEPT ![a] = NoResult]
  /\ Go(a, "tells")
  /\ UNCHANGED <<asked, call, reply, messages, prompt, work, tokens, outcome, stopped>>

Execute(a) ==
  /\ at[a] = "started" /\ ~stopped
  /\ Go(a, "executing")
  /\ UNCHANGED <<asked, call, talk, work, tokens, outcome, stopped>>

(* A tool that runs in a thread or a process outlives the loop that waits. *)
Act(a) ==
  /\ at[a] = "executing" \/ outcome[a] = "left_executing"
  /\ acted' = [acted EXCEPT ![a] = @ \cup {Op(a)}]
  /\ UNCHANGED <<at, asked, call, talk, log, tokens, outcome, stopped>>

(* The tool answers, raises or runs out of time; a phase that cannot       *)
(* publish its end makes a failure of an operation that was executed.      *)
Returns(a) ==
  /\ at[a] = "executing"
  /\ \E result \in Results, ok \in BOOLEAN :
       /\ ok => Op(a) \in acted[a]
       /\ found' = [found EXCEPT ![a] =
                      [size |-> result.size, records |-> result.records, ok |-> ok]]
  /\ Go(a, "tells")
  /\ UNCHANGED <<asked, call, reply, messages, prompt, work, tokens, outcome, stopped>>

Tell(a) ==
  /\ at[a] = "tells" /\ ~stopped
  /\ Logged(a)
  /\ messages' = [messages EXCEPT ![a] = Append(@, Told(a))]
  /\ call' = [call EXCEPT ![a] = @ + 1]
  /\ Go(a, IF call[a] = reply[a].calls THEN "turn" ELSE "call")
  /\ UNCHANGED <<asked, reply, found, prompt, acted, tokens, outcome, stopped>>

-----------------------------------------------------------------------------
(* What stops an agent from outside.                                       *)

(* A caller, a deadline, a failed peer, a process that goes down.          *)
Stop ==
  /\ ~stopped /\ \E a \in Agents : at[a] # "ended"
  /\ stopped' = TRUE
  /\ UNCHANGED <<at, asked, call, talk, work, tokens, outcome>>

(* CancelledError at an await: an unfinished request is marked, a request  *)
(* that has been answered is not.                                          *)
Interrupted(a) ==
  /\ stopped /\ at[a] # "ended"
  /\ at[a] = "answered" => SuspendingEmits
  /\ marked' = (marked \/ at[a] = "asking")
  /\ End(a, IF at[a] = "executing" THEN "left_executing" ELSE "interrupted")
  /\ UNCHANGED <<asked, call, talk, work, spent, reported, consumed, total, stopped>>

EmitRaises(a) ==
  /\ Faults
  /\ \/ at[a] \in {"turn", "calls", "call", "tells"} /\ UNCHANGED log
     \/ at[a] \in {"calls", "call", "tells"} /\ Logged(a)
  /\ End(a, "event_store_error")
  /\ UNCHANGED <<asked, call, talk, acted, tokens, stopped>>

Turn(a) ==
  \/ TurnsExhausted(a) \/ ContextExhausted(a) \/ Ask(a) \/ Answers(a) \/ AnswerBreaks(a)
  \/ TokensExhausted(a) \/ AnswerRejected(a) \/ Finishes(a) \/ WantsTools(a)
  \/ AnswerUnpublished(a)

ToolCall(a) ==
  \/ Announce(a) \/ StartCall(a) \/ NotExecuted(a) \/ Execute(a) \/ Act(a) \/ Returns(a)
  \/ Tell(a)

AgentNext(a) == Turn(a) \/ ToolCall(a) \/ Interrupted(a) \/ EmitRaises(a)

LoopNext == Stop \/ \E a \in Agents : AgentNext(a)

LoopSpec == LoopInit /\ [][LoopNext]_loopVars

-----------------------------------------------------------------------------
(* What the next Run of the scope is told of an operation: the last event  *)
(* that names it decides, and a started one without a result is unknown.   *)

Naming(a, op) == {i \in DOMAIN log[a] : op \in log[a][i].ops}
(* Mutant: only results are read.                                          *)
MutantStatus(a, op) ==
  LET results == {i \in Naming(a, op) : log[a][i].kind = "tool_result"}
  IN  IF results = {} THEN "absent"
      ELSE IF log[a][Greatest(results)].ok THEN "completed" ELSE "failed"

Status(a, op) ==
  IF Naming(a, op) = {} THEN "absent"
  ELSE LET last == log[a][Greatest(Naming(a, op))]
       IN  IF last.kind # "tool_result" THEN "unknown"
           ELSE IF last.ok THEN "completed" ELSE "failed"

AllOps == (1 .. MaxTurns) \X (1 .. MaxCalls)

(* Wherever a Run ends, the next one hears of every operation that was     *)
(* executed, of none as completed that was not, and of one that may still  *)
(* be executing as unknown.                                                *)
OperationsAccountedFor ==
  \A a \in Agents, op \in AllOps :
    /\ op \in acted[a] => Status(a, op) # "absent"
    /\ Status(a, op) = "completed" => op \in acted[a]
    /\ at[a] = "executing" /\ op = Op(a) => Status(a, op) = "unknown"

(* Every request to the model fits the budget, holds the current request,  *)
(* and follows each round of calls by their results, one each and in       *)
(* order, as the journal has them; and an agent gives up for its context   *)
(* only if the current turn does not fit with every result shortened.      *)
PairsComplete(m) ==
  /\ \A i \in DOMAIN m : \A k \in 1 .. Len(m[i].ops) :
       m[i].role = "assistant" =>
         /\ i + k \in DOMAIN m
         /\ m[i + k].role = "tool" /\ m[i + k].ops = <<m[i].ops[k]>>
  /\ \A i \in ToolResults(m) : \E j \in 1 .. (i - 1) :
       m[j].role = "assistant" /\ i - j <= Len(m[j].ops)

PromptsWellFormed ==
  \A a \in Agents :
    /\ prompt[a] # <<>> =>
         /\ Size(prompt[a]) <= Budget
         /\ Cardinality({i \in DOMAIN prompt[a] : prompt[a][i].role = "current"}) = 1
         /\ PairsComplete(prompt[a])
         /\ \A i \in ToolResults(prompt[a]) :
              LET told == prompt[a][i]
              IN  Status(a, told.ops[1]) = IF told.ok THEN "completed" ELSE "failed"
    /\ outcome[a] = "context_budget_exhausted" =>
         LET m == messages[a]
             turn == [i \in Current(m) .. Len(m) |->
                        IF m[i].role = "tool" THEN 1 ELSE m[i].size]
         IN  Total(turn) > Budget

(* The agents of one assignment pass the Run's token limit by less than    *)
(* one request each; and where the emit that ends a phase does not suspend *)
(* every token the model has used is counted, or the count is marked, once *)
(* they have all ended.                                                    *)
TokensAccounted ==
  /\ total < MaxTokens + Cardinality(Agents) * MaxCost
  /\ ~SuspendingEmits /\ (\A a \in Agents : at[a] = "ended") /\ ~marked
       => total = Total(consumed)
=============================================================================
