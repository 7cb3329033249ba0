------------------------------ MODULE Answering ------------------------------
(***************************************************************************)
(* What stands behind an arm: the client's session with the region, the    *)
(* sessions in which the arms answer a question, what is learned between   *)
(* the first pass and the arms that use it, and the plans and drafts whose *)
(* model calls are retried.  They meet in values and not in a variable, so *)
(* a behaviour is one of one part, chosen in the initial state, and the    *)
(* others stand still.                                                     *)
(***************************************************************************)
EXTENDS Naturals, Sequences, FiniteSets, TLC

CONSTANTS
  Wanted, Listings, Requests, Similar, Guess, MaxRetries, MaxCalls, MaxLines,  \* Client
  Arms, Type, AsOf, SourceIn, Preview, Document, Submitted, Found, Package, Limit, MaxRounds,
  MaxSaid, MaxResumes,                                                                    \* Session
  Entries, Words, Titles, Readable, Linkable, MinEvidence, MaxEvidence, MaxProved, RecordRoom,
  MinSupport,                                                                  \* Learning
  TopicFacets, WidenedId, MaxAgents, MaxDepth, MaxAttempts, Input, Output, Thinking, Budget,
  Plans, Drafts, MaxFacets                                                     \* Planning

VARIABLES
    part,
    transport, session, pages, offered, made, doing, attempts, id, owner, inbox, pipe,
    alive, effects, ledger, given,
    todo, arm, stage, round, asks, answer, hits, passages, reading, documents, fetches, lives, answers,
    entries, at, pending, skipped, written, stored, tasks, known, outcome, strategy, queries, phase,
    task, act, attempt, purse, calls, asked, retried, charged, turn, subtopics, gaps, before, draft

C == INSTANCE Client WITH step <- doing
S == INSTANCE Session WITH step <- stage, at <- reading, MaxClaims <- MaxSaid, MaxDeaths <- MaxResumes
L == INSTANCE Learning WITH MaxClaims <- MaxProved
P == INSTANCE Planning WITH step <- act, ledger <- purse, round <- turn, Facets <- TopicFacets

(* A search returns hits, and what a model is asked costs whole units.      *)
ASSUME SearchAssumption ==
  \A a \in Arms \cap S!Searching : Found[a] \subseteq Seq([id : DOMAIN SourceIn, located : BOOLEAN])
ASSUME PriceAssumption == {Input, Output} \subseteq Nat
(* The rows of a first pass have claims, and a memory needs a passage.      *)
ASSUME MemoryAssumption ==
  /\ MinEvidence \in Nat \ {0} /\ MaxEvidence \in Nat /\ MaxProved \in Nat /\ RecordRoom \in Nat
  /\ \A rows \in Entries :
       /\ DOMAIN rows = 1..Len(rows) /\ Len(rows) \in Nat
       /\ \A i \in DOMAIN rows : rows[i].learned \in BOOLEAN /\ rows[i].claims \in Seq(L!ClaimType(DOMAIN Words))

-----------------------------------------------------------------------------
Parts == {"client", "session", "learning", "planning"}
clientVars   == <<transport, session, pages, offered, made, doing, attempts, id, owner, inbox, pipe,
                  alive, effects, ledger, given>>
sessionVars  == <<todo, arm, stage, round, asks, answer, hits, passages, reading, documents, fetches, lives, answers>>
learningVars == <<entries, at, pending, skipped, written, stored, tasks, known, outcome, strategy, queries, phase>>
planningVars == <<task, act, attempt, purse, calls, asked, retried, charged, turn, subtopics, gaps, before, draft>>
allVars == <<part, clientVars, sessionVars, learningVars, planningVars>>

(* One initial state for each part that stands still.                      *)
Start ==
  /\ part \in Parts
  /\ C!Init /\ S!Init /\ L!Init /\ P!Init
  /\ part = "client" \/ (transport = "http" /\ pages = CHOOSE p \in Listings : TRUE)
  /\ part = "session" \/ fetches
  /\ part = "learning" \/ entries = CHOOSE e \in Entries : TRUE
  /\ part = "planning" \/ task = "plan"

Calling   == part = "client" /\ C!Next /\ UNCHANGED <<part, sessionVars, learningVars, planningVars>>
InSession == part = "session" /\ S!Next /\ UNCHANGED <<part, clientVars, learningVars, planningVars>>
Teaching  == part = "learning" /\ L!Next /\ UNCHANGED <<part, clientVars, sessionVars, planningVars>>
Preparing == part = "planning" /\ P!Next /\ UNCHANGED <<part, clientVars, sessionVars, learningVars>>
Move      == Calling \/ InSession \/ Teaching \/ Preparing
PartsSpec == Start /\ [][Move]_allVars

-----------------------------------------------------------------------------
(* client.call runs what is not safe to repeat once at most.               *)
AtMostOnce == C!AtMostOnce
(* What a call returns answers a message of its own.                       *)
OwnAnswer == C!OwnAnswer
(* An answer is called succeeded only if no search of its session failed   *)
(* or was cut short.                                                       *)
SucceededIsWhole == S!SucceededIsWhole
(* Two arms that one process shows the same hit read the same text of it.  *)
ReadAlike == S!ReadAlike
(* What a record of memory says was proved was.                            *)
RecordsHold == L!RecordsHold
(* The retries of a model call happen inside its one reservation, and are  *)
(* on file.                                                                *)
RetriesInOne == P!RetriesInOne
(* Eight that the code does not keep.                                      *)
EveryAttemptOnFile == C!EveryAttemptOnFile
FailureShows == S!FailureShows
AlikeThroughout == S!AlikeThroughout
MeasuredWhole == L!MeasuredWhole
RulesUsable == L!RulesUsable
ConsumedIsCommitted == P!ConsumedIsCommitted
GapsArePlanned == P!GapsArePlanned
NotTheSameAgain == P!NotTheSameAgain
=============================================================================
