------------------------------- MODULE Session -------------------------------
(***************************************************************************)
(* arms/base.py, pheasant_corpus.py, specialist.py, prior_control.py,      *)
(* pheasant/retrieval.py and the offline models/replay.py: the sessions in *)
(* which the arms answer one question, one after the other.  The arms that *)
(* search share one Retriever and with it the documents it has fetched, as *)
(* long as the process lives: an evaluation resumed after its process died *)
(* begins with none.                                                       *)
(*                                                                         *)
(* Of a text only the sentences that match the question count, numbered    *)
(* from the best match down; the same sentence in two texts has the same   *)
(* number.                                                                 *)
(***************************************************************************)
EXTENDS Integers, SequencesExt, FiniteSets

CONSTANTS
  Arms,      \* the arms that answer
  Type,      \* the type of the question
  AsOf,      \* its instant, or 0
  SourceIn,  \* the lab source of each artifact
  Preview,   \* the sentences in the preview of each artifact
  Document,  \* and in the whole of it
  Submitted, \* the artifacts whose path the lab knows from its receipts
  Found,     \* what a search of an arm may return: sequences of [id, located]
  Package,   \* the specialist's: from artifacts to [published, score, rank]
  Limit,     \* replay.max_results_per_search
  MaxRounds, \* replay.max_search_rounds_per_answer
  MaxClaims, \* replay.MAX_CLAIMS
  MaxDeaths  \* bound: deaths of the process

VARIABLES
  todo,      \* arms that have not answered
  arm,       \* the one that does, {} between sessions
  step,      \* what it does next
  round,     \* its round of searches
  asks,      \* queries left of the round
  answer,    \* its Answer so far: [status, error, calls]
  hits,      \* what its searches returned, in order
  passages,  \* what it reads, [id, located, whole]
  at,        \* passages hydrated
  documents, \* Retriever._documents: whether each key has a text
  fetches,   \* the region has the capability fetch
  lives,     \* the processes that have died
  answers    \* the answers counted, by arm, and by which process

vars == <<todo, arm, step, round, asks, answer, hits, passages, at, documents, fetches, lives, answers>>

Searching == {"P0", "P1", "P2"}
Blank == [status |-> "succeeded", error |-> FALSE, calls |-> <<>>]

Init ==
  /\ todo = Arms /\ arm = {} /\ step = "start" /\ round = 0 /\ asks = 0 /\ answer = Blank /\ hits = <<>>
  /\ passages = <<>> /\ at = 0 /\ documents = <<>> /\ fetches \in BOOLEAN
  /\ lives = 0 /\ answers = <<>>

shared == <<documents, fetches, lives>>

(* The function f and the value of k.                                       *)
With(f, k, value) == [x \in DOMAIN f \cup {k} |-> IF x = k THEN value ELSE f[x]]
-----------------------------------------------------------------------------
(* Between two sessions nothing of either is left.                          *)
Over ==
  /\ arm' = {} /\ step' = "start" /\ round' = 0 /\ asks' = 0 /\ answer' = Blank /\ hits' = <<>>
  /\ passages' = <<>> /\ at' = 0

(* _record: the answer is written, and the session is over.                 *)
Record(record) ==
  /\ \E a \in arm : answers' = With(answers, a, record)
  /\ Over /\ UNCHANGED <<todo, shared>>

(* engine._answer: what escapes the arm is an answer that failed and holds  *)
(* nothing of the session.                                                  *)
Escape ==
  Record([status |-> "failed", error |-> TRUE, calls |-> <<>>, read |-> <<>>, claims |-> <<>>, by |-> lives])

(* _package_passages: the best of the package that was published by then.   *)
PackagePassages ==
  LET open == {x \in DOMAIN Package : Package[x].score > 0 /\ (AsOf = 0 \/ Package[x].published <= AsOf)}
      better(x, y) == \/ Package[x].score > Package[y].score
                      \/ Package[x].score = Package[y].score /\ Package[x].rank < Package[y].rank
      ranked == SetToSortSeq(open, better)
  IN [i \in 1..(IF Len(ranked) < Limit THEN Len(ranked) ELSE Limit) |->
        [id |-> ranked[i], located |-> TRUE, whole |-> TRUE]]

(* Mutant of Carried: each arm has a Retriever of its own.                  *)
MutantCarried == <<>>
(* cmd_evaluate: the contexts of the arms hold the one Retriever.           *)
Carried == documents

(* Arm.answer of S0 and C0, and the start of the others'.                   *)
Start ==
  /\ step = "start" /\ \E a \in todo :
       /\ todo' = todo \ {a} /\ arm' = {a}
       /\ step' = IF a \in Searching THEN "ask" ELSE "compose"
       /\ passages' = IF a = "S0" THEN PackagePassages ELSE <<>>
  /\ round' = 1 /\ documents' = Carried
  /\ UNCHANGED <<asks, answer, hits, at, fetches, lives, answers>>

(* passages_from: each artifact once, at its first place, up to the limit.  *)
PassagesFrom(hs) ==
  LET new == {i \in DOMAIN hs : \A j \in 1..(i - 1) : hs[j].id # hs[i].id}
      place(i) == Cardinality({j \in new : j <= i})
      kept == {i \in new : place(i) <= Limit}
      hit(n) == hs[CHOOSE i \in kept : place(i) = n]
  IN [n \in 1..Cardinality(kept) |-> [id |-> hit(n).id, located |-> hit(n).located, whole |-> FALSE]]

EndRetrieval(hs) ==
  /\ passages' = PassagesFrom(hs) /\ step' = "read"

(* _queries and _schema_queries: one query in the first round or when       *)
(* nothing was seen; later one of fresh vocabulary, or none.  The ledger    *)
(* may refuse the model call.                                               *)
Queries ==
  /\ step = "ask" /\ asks = 0
  /\ \/ /\ asks' \in IF round = 1 \/ hits = <<>> THEN {1} ELSE {0, 1}
        /\ IF asks' = 0 THEN EndRetrieval(hits) ELSE step' = "search" /\ UNCHANGED passages
        /\ UNCHANGED <<todo, arm, round, answer, hits, at, shared, answers>>
     \/ Escape

(* Mutant of Searched: the last response says how the answer stands.        *)
MutantSearched(partial) == IF partial THEN "partial" ELSE "succeeded"
(* _retrieve: partial is partial.                                           *)
Searched(partial) == IF partial THEN "partial" ELSE answer.status

(* Retriever.search: the hits of one response, and whether the region cut   *)
(* it short.                                                                *)
Responses(a) == Found[a] \X BOOLEAN

(* _retrieve: a response, whole or partial; or an error, which ends the     *)
(* retrieval and not the session.                                           *)
Search ==
  /\ step = "search" /\ \E a \in arm :
       \/ \E response \in Responses(a) : LET partial == response[2] IN
            /\ hits' = hits \o response[1] /\ asks' = asks - 1
            /\ answer' = [answer EXCEPT !.status = Searched(partial), !.calls = Append(@, partial)]
            /\ IF asks > 1 THEN UNCHANGED <<round, passages, step>>
               ELSE IF round < MaxRounds THEN round' = round + 1 /\ step' = "ask" /\ UNCHANGED passages
               ELSE EndRetrieval(hits') /\ UNCHANGED round
       \/ /\ answer' = [answer EXCEPT !.status = "failed", !.error = TRUE]
          /\ EndRetrieval(hits) /\ UNCHANGED <<hits, asks, round>>
  /\ UNCHANGED <<todo, arm, at, shared, answers>>

-----------------------------------------------------------------------------
(* hydrate: the path the lab submitted, then the one the hit reports.       *)
Keys(p) ==
  (IF p.id \in Submitted THEN <<<<"lab", p.id>>>> ELSE <<>>)
    \o (IF p.located THEN <<<<"region", p.id>>>> ELSE <<>>)

(* The key to look at next: the first one not known to have no text, or the *)
(* last.                                                                    *)
Pick(p) ==
  LET keys == Keys(p)
      open == {i \in DOMAIN keys : \A j \in 1..(i - 1) : keys[j] \in DOMAIN documents /\ ~documents[keys[j]]}
  IN IF ~fetches \/ open = {} THEN {} ELSE {keys[CHOOSE i \in open : \A j \in open : j <= i]}

(* hydrate: a key that was not fetched yet is fetched; a refusal is no text,*)
(* once and for all, and an error of the client escapes.                    *)
Fetch ==
  /\ step = "read" /\ at < Len(passages)
  /\ \E key \in Pick(passages[at + 1]) :
       /\ key \notin DOMAIN documents
       /\ \/ /\ \E text \in BOOLEAN : documents' = With(documents, key, text)
             /\ UNCHANGED <<todo, arm, step, round, asks, answer, hits, passages, at, fetches, lives, answers>>
          \/ Escape

(* hydrate: the passage is the document if a key has a text, else it keeps  *)
(* its preview.                                                             *)
Hydrate ==
  /\ step = "read" /\ at < Len(passages)
  /\ \A key \in Pick(passages[at + 1]) : key \in DOMAIN documents
  /\ at' = at + 1
  /\ passages' = [passages EXCEPT ![at'].whole = \E key \in Pick(passages[at']) : documents[key]]
  /\ UNCHANGED <<todo, arm, step, round, asks, answer, hits, shared, answers>>

Hydrated ==
  /\ step = "read" /\ at = Len(passages) /\ step' = "compose"
  /\ UNCHANGED <<todo, arm, round, asks, answer, hits, passages, at, shared, answers>>

-----------------------------------------------------------------------------
Read(p) == IF p.whole THEN Document[p.id] ELSE Preview[p.id]

TwoSides == Type \in {"contradiction", "synthesis", "multi_source_synthesis"}

(* normalise_results: the lab source of a hit is the one the receipts give  *)
(* for its artifact, not what the region calls its source.                  *)
LabSource(artifact) == SourceIn[artifact]

(* _schema_answer: of a question with two sides, a second sentence of the   *)
(* one source heard so far waits until another was heard.                   *)
Skips(said, source) ==
  LET heard == {LabSource(said[i].cites) : i \in DOMAIN said}
  IN TwoSides /\ heard = {source}

(* _schema_answer: the best sentences of what was read, each once and cited *)
(* to the passage it was found in.                                          *)
Claims(ps) ==
  LET found == UNION {{<<s, i>> : s \in Read(ps[i])} : i \in DOMAIN ps}
      ranked == SetToSortSeq(found, LAMBDA x, y : x[1] < y[1] \/ (x[1] = y[1] /\ x[2] < y[2]))
      Add(said, x) ==
        IF \/ Len(said) = MaxClaims \/ \E i \in DOMAIN said : said[i].sentence = x[1]
           \/ Skips(said, LabSource(ps[x[2]].id))
        THEN said ELSE Append(said, [sentence |-> x[1], cites |-> ps[x[2]].id])
  IN FoldLeft(Add, <<>>, ranked)

(* _compose: with nothing to say the model abstains, and that is then the   *)
(* status, whatever became of the searches.                                 *)
Compose ==
  /\ step = "compose"
  /\ \/ LET claims == Claims(passages)
        IN Record([status |-> IF claims = <<>> THEN "abstained" ELSE answer.status, error |-> answer.error,
                   calls |-> answer.calls, read |-> passages, claims |-> claims, by |-> lives])
     \/ Escape

(* The process dies, and evaluate is run again: it keeps the answers on     *)
(* file that did not fail - none, if they were stored without their text -  *)
(* asks for the rest, and has to fetch anew (cmd_evaluate,                  *)
(* EvaluationEngine.__init__, Retriever.__init__).                          *)
Die ==
  /\ lives < MaxDeaths /\ lives' = lives + 1
  /\ Over /\ documents' = <<>> /\ fetches' \in BOOLEAN
  /\ \E kept \in {{}, {a \in DOMAIN answers : answers[a].status # "failed"}} :
       answers' = [a \in kept |-> answers[a]] /\ todo' = Arms \ kept

Next == Start \/ Queries \/ Search \/ Fetch \/ Hydrate \/ Hydrated \/ Compose \/ Die

-----------------------------------------------------------------------------
(* An answer is called succeeded only if no search of its session failed    *)
(* and none was cut short.                                                  *)
SucceededIsWhole ==
  \A a \in DOMAIN answers : answers[a].status = "succeeded" =>
    ~answers[a].error /\ \A i \in DOMAIN answers[a].calls : ~answers[a].calls[i]

(* Two arms that were shown the same hit by the same process read the same  *)
(* text of it: a document the region would not give one of them the other   *)
(* goes without.                                                            *)
ReadAlike ==
  \A a, b \in DOMAIN answers \cap Searching : answers[a].by = answers[b].by =>
    \A i \in DOMAIN answers[a].read, j \in DOMAIN answers[b].read :
      LET p == answers[a].read[i] q == answers[b].read[j]
      IN p.id = q.id /\ p.located = q.located => p.whole = q.whole

(* What the documents say, and the code does not keep:                      *)
(* a resumed evaluation measures what one that never crashed does: its arms *)
(* read alike, whichever process they answered in;                          *)
AlikeThroughout ==
  \A a, b \in DOMAIN answers \cap Searching :
    \A p \in ToSet(answers[a].read), q \in ToSet(answers[b].read) :
      p.id = q.id /\ p.located = q.located => p.whole = q.whole

(* a session one of whose searches failed is not counted as an answer.      *)
FailureShows ==
  \A a \in DOMAIN answers : answers[a].error => answers[a].status = "failed"
=============================================================================
