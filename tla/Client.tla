-------------------------------- MODULE Client --------------------------------
(***************************************************************************)
(* pheasant/client.py, protocol.py and capabilities.py: one session with   *)
(* the region, from the handshake to the end of each call.                 *)
(*                                                                         *)
(* A call is one or more attempts, each a message with an id of its own.   *)
(* Over "http" an attempt is an exchange; over "stdio" the child reads     *)
(* requests and writes answers in its own time, and an answer to an        *)
(* attempt that was given up is still in the pipe when the next one reads. *)
(* Time is left out: a deadline may have passed whenever the code looks.   *)
(***************************************************************************)
EXTENDS Naturals, Sequences, FiniteSets

CONSTANTS
  Wanted,     \* pheasant.capabilities: from names to [tool, required, sends]
  Listings,   \* what tools/list may say: sets of sequences of pages, each a
              \* function from tools to [declares, needs, open]
  Requests,   \* the calls made: a set of [of, idempotent, keyed, safeName, allow]
  Similar,    \* pairs of tool names one of which contains the other
  Guess,      \* discovery.allow_heuristic_name_matching
  MaxRetries, \* max_retries
  MaxCalls,   \* bound on the calls of a behaviour
  MaxLines    \* bound on what the pipe holds when a notification is written

VARIABLES
  transport, \* "http" or "stdio"
  session,   \* "closed", "listing", "open", or "refused" (preflight)
  pages,     \* what is left of the listing
  offered,   \* the tools listed so far
  made,      \* the calls begun
  step,      \* "send" or "wait" while one is made, "idle" otherwise
  attempts,  \* its attempts
  id,        \* the id of the last message
  owner,     \* the call of each message, by id
  inbox,     \* stdio: ids the child has not read
  pipe,      \* stdio: what it wrote and nobody has read, <<id, kind>>
  alive,     \* stdio: the child runs
  effects,   \* how often the region ran each call
  ledger,    \* rows of errors.jsonl: [call, attempt, resolution]
  given      \* what each call ended with: [by, is], by the id that is answered

vars == <<transport, session, pages, offered, made, step, attempts, id, owner, inbox, pipe,
          alive, effects, ledger, given>>

Init ==
  /\ transport \in {"http", "stdio"} /\ session = "closed" /\ pages \in Listings /\ offered = <<>>
  /\ made = <<>> /\ step = "idle" /\ attempts = 0 /\ id = 0 /\ owner = <<>>
  /\ inbox = <<>> /\ pipe = <<>> /\ alive = TRUE /\ effects = <<>> /\ ledger = <<>> /\ given = <<>>

connection == <<transport, session, pages, offered>>
-----------------------------------------------------------------------------
(* connect, up to the first page: the transport is opened and initialised.  *)
Open ==
  /\ session = "closed" /\ session' = "listing"
  /\ UNCHANGED <<transport, pages, offered, made, step, attempts, id, owner, inbox, pipe, alive,
                 effects, ledger, given>>

(* _unsatisfied, _unmet_required: a tool takes what the lab sends and needs *)
(* nothing it does not; one without a schema is taken as it is.             *)
Fits(tool, sends) ==
  \/ tool.declares = {}
  \/ /\ tool.open \/ sends \subseteq tool.declares
     /\ tool.needs \subseteq sends \cup {"knowledge_base", "kb_id"}

(* _heuristic: the one tool of a similar name.                              *)
Candidates(name, tools) == IF Guess THEN {t \in DOMAIN tools : <<name, t>> \in Similar} ELSE {}

(* resolve, for one capability: the tool it calls, or {} when unusable.     *)
Resolved(cap, tools) ==
  LET spec == Wanted[cap]
      alike == Candidates(spec.tool, tools)
  IN {t \in DOMAIN tools : /\ \/ t = spec.tool
                              \/ spec.tool \notin DOMAIN tools /\ alike = {t}
                           /\ Fits(tools[t], spec.sends)}

(* resolve raises on an ambiguous name; enforce on a required capability    *)
(* that is not usable.                                                      *)
Refuses(tools) ==
  \E cap \in DOMAIN Wanted :
    \/ Wanted[cap].tool \notin DOMAIN tools /\ Cardinality(Candidates(Wanted[cap].tool, tools)) > 1
    \/ Wanted[cap].required /\ Resolved(cap, tools) = {}

(* _list_tools: page after page; a later page speaks for a tool named twice.*)
(* After the last one the capabilities are resolved and enforced.           *)
List ==
  /\ session = "listing" /\ pages # <<>>
  /\ LET p == Head(pages)
     IN offered' = [t \in DOMAIN p \cup DOMAIN offered |-> IF t \in DOMAIN p THEN p[t] ELSE offered[t]]
  /\ pages' = Tail(pages)
  /\ session' = IF pages' # <<>> THEN "listing" ELSE IF Refuses(offered') THEN "refused" ELSE "open"
  /\ UNCHANGED <<transport, made, step, attempts, id, owner, inbox, pipe, alive, effects, ledger, given>>

-----------------------------------------------------------------------------
(* Mutant of Retryable: whatever failed in passing is asked for again.      *)
MutantRetryable(c) == TRUE

(* _is_retryable: what the caller says, or a key, or the tool's name.       *)
Retryable(c) ==
  IF c.idempotent \in {"yes", "no"} THEN c.idempotent = "yes" ELSE c.keyed \/ c.safeName

(* CapabilityMap.tool: a call for a capability that is not usable raises    *)
(* before anything is sent.                                                 *)
Begin(c) ==
  /\ session = "open" /\ step = "idle" /\ Len(made) < MaxCalls
  /\ Resolved(c.of, offered) # {}
  /\ made' = Append(made, c) /\ step' = "send" /\ attempts' = 0 /\ effects' = Append(effects, 0)
  /\ UNCHANGED <<connection, id, owner, inbox, pipe, alive, ledger, given>>

Now == Len(made)  \* the number of the call

(* _finish, or the end of call: what the caller has of it, and of which     *)
(* message; "raised" is an exception.                                       *)
End(by, what) ==
  /\ given' = Append(given, [by |-> by, is |-> what])
  /\ step' = "idle"

(* _retryable_error: of what call catches, parameters the server refused    *)
(* are the one thing that asking again cannot mend.                         *)
Passing(kind) == kind \in {"limited", "denied", "timeout", "closed", "internal"}
Caught(kind)  == Passing(kind) \/ kind = "invalid"

(* call, the handler: a row for attempt n, then another attempt or the end. *)
(* What it does not catch (an exception of httpx, a broken pipe, an answer  *)
(* that is none) leaves at once, without a row.                             *)
Fail(kind, n) ==
  LET again == Retryable(made[Now]) /\ Passing(kind) /\ n < MaxRetries
  IN /\ ledger' = IF Caught(kind)
                  THEN Append(ledger, [call |-> Now, attempt |-> n,
                                       resolution |-> IF again THEN "retried" ELSE "terminal"])
                  ELSE ledger
     /\ IF again THEN step' = "send" /\ UNCHANGED given ELSE End(0, "raised")

(* call: the next attempt is sent; nobody reads what is written to a child  *)
(* that has died.                                                           *)
Send ==
  /\ step = "send"
  /\ attempts' = attempts + 1 /\ id' = id + 1 /\ owner' = Append(owner, Now)
  /\ IF transport = "stdio" /\ ~alive
     THEN Fail("broken", attempts') /\ UNCHANGED inbox
     ELSE /\ step' = "wait" /\ inbox' = IF transport = "stdio" THEN Append(inbox, id') ELSE inbox
          /\ UNCHANGED <<ledger, given>>
  /\ UNCHANGED <<connection, made, pipe, alive, effects>>

(* Mutant of Take: the id of the answer is not compared.                    *)
MutantTake(by, kind) ==
  IF kind \notin {"whole", "partial", "refusal", "internal", "invalid"} THEN Fail("unreadable", attempts)
  ELSE IF kind \in {"internal", "invalid"} THEN Fail(kind, attempts)
  ELSE /\ End(by, IF kind = "refusal" /\ ~made[Now].allow THEN "raised" ELSE kind)
       /\ UNCHANGED ledger

(* unwrap and parse_tool_result: an answer to another message, or one that  *)
(* is none, is no answer; an error of the server; a result, whole, partial  *)
(* or a refusal, which is raised unless the caller allows it.               *)
Take(by, kind) ==
  IF by # id \/ kind \notin {"whole", "partial", "refusal", "internal", "invalid"}
  THEN Fail("unreadable", attempts)
  ELSE IF kind \in {"internal", "invalid"} THEN Fail(kind, attempts)
  ELSE /\ End(by, IF kind = "refusal" /\ ~made[Now].allow THEN "raised" ELSE kind)
       /\ UNCHANGED ledger

-----------------------------------------------------------------------------
Ran(n) == effects' = [effects EXCEPT ![n] = @ + 1]

(* StreamableHttpTransport.send: one exchange.  A result means the region   *)
(* ran the call, a refusal that it did not, and anything that cut the       *)
(* exchange off says nothing of it.                                         *)
Exchange ==
  /\ transport = "http" /\ step = "wait"
  /\ \/ (\E kind \in {"whole", "partial"} : Take(id, kind)) /\ Ran(Now)
     \/ (\E kind \in {"refusal", "invalid"} : Take(id, kind)) /\ UNCHANGED effects
     \/ Take(id, "internal") /\ (Ran(Now) \/ UNCHANGED effects)
     \/ Take(0, "whole") /\ (Ran(Now) \/ UNCHANGED effects)
     \/ Fail("denied", attempts) /\ UNCHANGED effects
     \/ (\E kind \in {"limited", "dropped"} : Fail(kind, attempts)) /\ (Ran(Now) \/ UNCHANGED effects)
  /\ UNCHANGED <<connection, made, attempts, id, owner, inbox, pipe, alive>>

(* The child of StdioTransport reads a request and runs it; it answers, or  *)
(* never will.                                                              *)
Serve ==
  /\ transport = "stdio" /\ inbox # <<>>
  /\ inbox' = Tail(inbox)
  /\ LET it == Head(inbox)
     IN \/ \E kind \in {"whole", "partial", "internal"} :
             pipe' = Append(pipe, <<it, kind>>) /\ Ran(owner[it])
        \/ \E kind \in {"refusal", "invalid"} : pipe' = Append(pipe, <<it, kind>>) /\ UNCHANGED effects
        \/ Ran(owner[it]) /\ UNCHANGED pipe
  /\ UNCHANGED <<connection, made, step, attempts, id, owner, alive, ledger, given>>

Die ==
  /\ transport = "stdio" /\ alive /\ session = "open"
  /\ alive' = FALSE /\ inbox' = <<>>
  /\ UNCHANGED <<connection, made, step, attempts, id, owner, pipe, effects, ledger, given>>

(* It may write a notification too, which answers nothing.                  *)
Chatter ==
  /\ transport = "stdio" /\ alive /\ step = "wait" /\ Len(pipe) < MaxLines
  /\ pipe' = Append(pipe, <<0, "notification">>)
  /\ UNCHANGED <<connection, made, step, attempts, id, owner, inbox, alive, effects, ledger, given>>

(* StdioTransport.send: a line that answers another message is skipped, and *)
(* only then is the deadline looked at; without a line the reader waits; at *)
(* the end of the output it raises.                                         *)
ReadLine ==
  /\ transport = "stdio" /\ step = "wait" /\ pipe # <<>> /\ pipe' = Tail(pipe)
  /\ IF Head(pipe)[1] = id THEN Take(Head(pipe)[1], Head(pipe)[2])
     ELSE Fail("timeout", attempts) \/ UNCHANGED <<step, ledger, given>>
  /\ UNCHANGED <<connection, made, attempts, id, owner, inbox, alive, effects>>

ReadEnd ==
  /\ transport = "stdio" /\ step = "wait" /\ pipe = <<>> /\ ~alive
  /\ Fail("closed", attempts)
  /\ UNCHANGED <<connection, made, attempts, id, owner, inbox, pipe, alive, effects>>

Next ==
  \/ Open \/ List \/ Send \/ Exchange \/ Serve \/ Chatter \/ Die \/ ReadLine \/ ReadEnd
  \/ \E c \in Requests : Begin(c)

Steps == Send \/ Exchange \/ ReadLine \/ ReadEnd
Spec  == Init /\ [][Next]_vars /\ WF_vars(Steps) /\ WF_vars(Serve)

-----------------------------------------------------------------------------
(* What is not safe to repeat (neither said to be, nor keyed, nor by the    *)
(* tool's name) is run once at most, whatever became of its answer.         *)
Unsafe(c)  == c.idempotent = "no" \/ (c.idempotent = "unsaid" /\ ~c.keyed /\ ~c.safeName)
AtMostOnce == \A n \in DOMAIN made : Unsafe(made[n]) => effects[n] <= 1

(* What a call returns is the answer to a message of its own, though the    *)
(* answers to earlier ones come late.                                       *)
OwnAnswer ==
  \A n \in DOMAIN given : given[n].is # "raised" =>
    given[n].by \in DOMAIN owner /\ owner[given[n].by] = n /\ (given[n].is = "refusal" \/ effects[n] > 0)

(* Every attempt that failed is on file.                                    *)
EveryAttemptOnFile ==
  \A n \in DOMAIN given :
    Cardinality({i \in DOMAIN owner : owner[i] = n})
      <= Cardinality({i \in DOMAIN ledger : ledger[i].call = n}) + (IF given[n].is = "raised" THEN 0 ELSE 1)

(* A call comes to an end.                                                  *)
CallEnds == step = "wait" ~> step # "wait"
=============================================================================
