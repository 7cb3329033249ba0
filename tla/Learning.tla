------------------------------- MODULE Learning -------------------------------
(***************************************************************************)
(* arms/pheasant_memory.py, memory_proof.py and tuned_replay.py: what is   *)
(* learned from the first pass before P1 and P2 answer.  The seeder turns  *)
(* each learned answer into records of the region's memory, one write      *)
(* after the other, and waits for the region to have indexed them; the     *)
(* tuner derives the strategy of P2's queries.                             *)
(*                                                                         *)
(* A word is a model value; a text is the words it has.  That a passage    *)
(* carries a claim is given with the claim.                                *)
(***************************************************************************)
EXTENDS Integers, SequencesExt, FiniteSets, TLC

CONSTANTS
  Entries,     \* possible rows of the first pass: see EntryType
  Words,       \* the words of each document
  Titles,      \* and of its title, the long ones, in order
  Readable,    \* words that are not ids or digests
  Linkable,    \* documents whose path survives the region's comma split
  MinEvidence, \* memory.min_evidence
  MaxEvidence, \* DEFAULT_MAX_EVIDENCE
  MaxClaims,   \* MAX_CLAIMS
  RecordRoom,  \* how many claims a record of MAX_RECORD_CHARS has room for
  MinSupport   \* MIN_SUPPORT

(* A row: the question and its words, whether its cohort may be learned     *)
(* from, the answer's claims (whether they read as an assertion, what they  *)
(* cite in order, whose passages carry them), what the session read, whether*)
(* the text of it was kept, and its searches, one a round.                  *)
ClaimType(ids) == [asserts : BOOLEAN, cites : Seq(ids), within : SUBSET ids]
EntryType(ids, words) ==
  [question : STRING, terms : Seq(words), learned : BOOLEAN, abstained : BOOLEAN, kept : BOOLEAN,
   claims : Seq(ClaimType(ids)), read : SUBSET ids, calls : Seq([query : Seq(words), results : Seq(ids)])]

VARIABLES
  entries,  \* the first pass
  at,       \* rows seeded
  pending,  \* records of the row that are still to be written
  skipped,  \* why a question wrote nothing
  written,  \* the seeder's written, and memory-records.jsonl
  stored,   \* the records the region holds
  tasks,    \* the state of each index task of the region
  known,    \* queued_tasks: the tasks the seeder was told of
  outcome,  \* index_outcome
  strategy, \* of the tuner
  queries,  \* P2's first query to each question
  phase     \* what happens next

vars == <<entries, at, pending, skipped, written, stored, tasks, known, outcome, strategy, queries, phase>>

Init ==
  /\ entries \in Entries
  /\ at = 0 /\ pending = <<>> /\ skipped = <<>> /\ written = <<>> /\ stored = <<>> /\ tasks = <<>>
  /\ known = {} /\ outcome = "none" /\ strategy = <<>> /\ queries = <<>> /\ phase = "seed"

Take(s, n) == SubSeq(s, 1, IF Len(s) < n THEN Len(s) ELSE n)
-----------------------------------------------------------------------------
(* retrieved_passages: what was read, or what the searches returned.        *)
Results(e)  == UNION {ToSet(e.calls[i].results) : i \in DOMAIN e.calls}
Passages(e) == e.read \cup Results(e)

(* build_proof: the passages a claim rests on, in the order it cites them.  *)
Among(s, S) ==
  LET among[n \in 0..Len(s)] ==
        IF n = 0 THEN <<>>
        ELSE IF s[n] \in S THEN Append(among[n - 1], s[n]) ELSE among[n - 1]
  IN among[Len(s)]
Supporting(e, c) == IF c.asserts THEN Among(c.cites, Passages(e) \cap c.within) ELSE <<>>

(* build_proof: what is listed already has its number, and what is new gets *)
(* one while there is room.                                                 *)
Room == IF MaxEvidence < MinEvidence THEN MinEvidence ELSE MaxEvidence
Listed(evidence, more) ==
  LET listed[n \in 0..Len(more)] ==
        IF n = 0 THEN evidence
        ELSE IF more[n] \notin ToSet(listed[n - 1]) /\ Len(listed[n - 1]) < Room
             THEN Append(listed[n - 1], more[n]) ELSE listed[n - 1]
  IN listed[Len(more)]

(* build_proof, for one claim: it is kept, up to MAX_CLAIMS, if one of its  *)
(* passages is listed.                                                      *)
Prove(e, p, c) ==
  LET listed == Listed(p.evidence, Supporting(e, c))
      on     == ToSet(Supporting(e, c)) \cap ToSet(listed)
  IN IF on = {} \/ Len(p.claims) >= MaxClaims THEN [p EXCEPT !.evidence = listed]
     ELSE [claims |-> Append(p.claims, [claim |-> c, on |-> on]), evidence |-> listed]
Proved(e) ==
  LET proved[n \in 0..Len(e.claims)] ==
        IF n = 0 THEN [claims |-> <<>>, evidence |-> <<>>] ELSE Prove(e, proved[n - 1], e.claims[n])
  IN proved[Len(e.claims)]

(* Mutant of Kept: a passage listed for a claim that was dropped stays.     *)
MutantKept(p) == p.evidence
(* build_proof, at its end: evidence no kept claim points at is none.       *)
RestOn(claims) == UNION {claims[i].on : i \in DOMAIN claims}
Kept(p) == Among(p.evidence, RestOn(p.claims))

Proof(e) == [claims |-> Proved(e).claims, evidence |-> Kept(Proved(e))]

(* render_proof: claims are left out from the end until the text fits, and  *)
(* with them the passages only they rest on.                                *)
Rendered(p) ==
  LET said == Take(p.claims, IF RecordRoom < 1 THEN 1 ELSE RecordRoom)
  IN [claims |-> said, evidence |-> Among(p.evidence, RestOn(said))]

(* _first_hits: the round in which a passage was first found; one that was  *)
(* not searched for counts as found in the first.                           *)
RoundOf(e, x) ==
  LET in == {i \in DOMAIN e.calls : x \in ToSet(e.calls[i].results)}
  IN IF in = {} THEN 1 ELSE CHOOSE i \in in : \A j \in in : i <= j

(* _candidates: a word of the first query, one that the last one replaced   *)
(* if there is such, is an alias of a word only the last one has, provided  *)
(* that word is in what the refined searches found.                         *)
Alias(e, p) ==
  LET first   == e.calls[1].query
      last    == e.calls[Len(e.calls)].query
      refined == {x \in ToSet(p.evidence) : RoundOf(e, x) > 1}
      read    == UNION {Words[x] : x \in refined \cap e.read}
      from    == SelectSeq(first, LAMBDA w : w \in Readable)
      terms   == SelectSeq(from, LAMBDA w : w \notin ToSet(last)) \o SelectSeq(from, LAMBDA w : w \in ToSet(last))
      fresh   == SelectSeq(last, LAMBDA w : w \notin ToSet(first) /\ w \in Readable \cap read)
  IN IF Len(e.calls) >= 2 /\ refined # {} /\ terms # <<>> /\ fresh # <<>>
     THEN <<[kind |-> "alias", of |-> e.question, rule |-> <<Head(terms), Head(fresh)>>]>> ELSE <<>>

(* _candidates, trigger_terms: the passage the most claims rest on is       *)
(* preferred for the words it shares with the question.                     *)
Preference(e, p) ==
  LET weight(i) == Cardinality({j \in DOMAIN p.claims : p.evidence[i] \in p.claims[j].on})
      best == p.evidence[CHOOSE i \in DOMAIN p.evidence : \A j \in DOMAIN p.evidence :
                           weight(j) < weight(i) \/ (weight(j) = weight(i) /\ i <= j)]
      triggers == Take(SelectSeq(e.terms, LAMBDA w : w \in Readable /\ best \in e.read /\ w \in Words[best]), 3)
  IN IF best \in Linkable /\ triggers # <<>>
     THEN <<[kind |-> "preference", of |-> e.question, rule |-> <<ToSet(triggers), best>>]>> ELSE <<>>

(* _candidates: why a row gives nothing, or "".                             *)
Reason(e) ==
  CASE e.abstained -> "abstained"
    [] ~e.abstained /\ e.claims = <<>> -> "no claim"
    [] ~e.abstained /\ e.claims # <<>> /\ ~e.kept -> "text not kept"
    [] OTHER -> IF Len(Proof(e).evidence) >= MinEvidence THEN "" ELSE "not validated"

Candidates(e) ==
  LET p == Proof(e)
  IN <<[kind |-> "fact", of |-> e.question, rule |-> Rendered(p)]>> \o Alias(e, p) \o Preference(e, p)

-----------------------------------------------------------------------------
(* seed: the next row; only a learned one is looked at.                     *)
Consider ==
  /\ phase = "seed" /\ pending = <<>> /\ at < Len(entries)
  /\ at' = at + 1
  /\ LET e == entries[at']
     IN CASE ~e.learned -> UNCHANGED <<pending, skipped>>
          [] e.learned /\ Reason(e) # "" ->
               skipped' = (e.question :> Reason(e)) @@ skipped /\ UNCHANGED pending
          [] OTHER -> pending' = Candidates(e) /\ UNCHANGED skipped
  /\ UNCHANGED <<entries, written, stored, tasks, known, outcome, strategy, queries, phase>>

(* _write: the region stores the record and indexes it at once, or queues   *)
(* that and says so; a refusal stores nothing; and a write whose answer is  *)
(* lost is one the seeder passes over, not being safe to repeat.            *)
Write ==
  /\ phase = "seed" /\ pending # <<>> /\ pending' = Tail(pending)
  /\ LET t == Len(tasks) + 1
     IN \/ /\ stored' = Append(stored, Head(pending)) /\ tasks' \in {Append(tasks, "queued"), Append(tasks, "done")}
           /\ \/ /\ written' = Append(written, Head(pending))
                 /\ known' = IF tasks'[t] = "queued" THEN known \cup {t} ELSE known
              \/ UNCHANGED <<written, known>>
        \/ UNCHANGED <<stored, tasks, written, known>>
  /\ UNCHANGED <<entries, at, skipped, outcome, strategy, queries, phase>>

(* seed, at its end: wait_until_indexed, if the region queued anything.     *)
Seeded ==
  /\ phase = "seed" /\ pending = <<>> /\ at = Len(entries)
  /\ phase' = IF known = {} THEN "tune" ELSE "wait"
  /\ UNCHANGED <<entries, at, pending, skipped, written, stored, tasks, known, outcome, strategy, queries>>

(* The region's indexer: it runs a task, or gives it up.                    *)
Indexer ==
  /\ \E t \in DOMAIN tasks, s \in {"done", "dead"} :
       tasks[t] = "queued" /\ tasks' = [tasks EXCEPT ![t] = s]
  /\ UNCHANGED <<entries, at, pending, skipped, written, stored, known, outcome, strategy, queries, phase>>

(* wait_until_indexed, one poll of read_index_queue, whose listing has the  *)
(* tasks that are queued or dead: a dead one ends the wait, none left ends  *)
(* it well, and a listing that is not complete ends it too.                 *)
Outcome ==
  CASE \E t \in known : tasks[t] = "dead" -> {"failed"}
    [] \A t \in known : tasks[t] = "done" -> {"indexed"}
    [] OTHER -> {"timed_out", "none"}

Poll ==
  /\ phase = "wait" /\ outcome' \in Outcome \cup {"unknown"}
  /\ phase' = IF outcome' = "none" THEN "wait" ELSE "tune"
  /\ UNCHANGED <<entries, at, pending, skipped, written, stored, tasks, known, strategy, queries>>

(* limitation: what the report says of it.                                  *)
Limited == outcome \notin {"none", "indexed"}

-----------------------------------------------------------------------------
Learned       == {i \in DOMAIN entries : entries[i].learned}
Barren(e)     == SelectSeq(e.calls, LAMBDA c : c.results = <<>>)
Productive(e) == SelectSeq(e.calls, LAMBDA c : c.results # <<>>)

(* _result_vocabulary: the words of the titles, the most frequent first,    *)
(* and of those as frequent the one seen first.                             *)
Vocabulary(e) ==
  LET good  == Productive(e)
      found == FlattenSeq([i \in DOMAIN good |-> good[i].results])
      seen  == FlattenSeq([i \in DOMAIN found |-> Titles[found[i]]])
      count(w) == Cardinality({i \in DOMAIN seen : seen[i] = w})
      place(w) == CHOOSE i \in DOMAIN seen : seen[i] = w /\ \A j \in 1..(i - 1) : seen[j] # w
  IN SetToSortSeq(ToSet(seen), LAMBDA v, w : count(v) > count(w) \/ (count(v) = count(w) /\ place(v) < place(w)))

(* tune: for a row with a search that found nothing and one that did, the   *)
(* words that worked, keyed by those that did not.                          *)
Pairs(e) ==
  IF Barren(e) = <<>> \/ Productive(e) = <<>> THEN {}
  ELSE {p \in ToSet(Take(Head(Barren(e)).query, 3)) \X ToSet(Take(Vocabulary(e), 3)) : p[1] # p[2]}

Support(f, w) == {entries[i].question : i \in {j \in Learned : <<f, w>> \in Pairs(entries[j])}}
(* The searches of the learned that found nothing, by row and place.        *)
Failed == UNION {{<<i, j>> : j \in DOMAIN Barren(entries[i])} : i \in Learned}
Asked(f) == ToSet(Barren(entries[f[1]])[f[2]].query)
Failures(w) == Cardinality({f \in Failed : w \in Asked(f)})

(* tune: a rule of less support is not emitted; a word that failed twice as *)
(* often is dropped.  Of the additions of a word the three most supported.  *)
Rules ==
  LET all == UNION {Pairs(entries[i]) : i \in Learned}
      fit == {p \in all : Cardinality(Support(p[1], p[2])) >= MinSupport}
  IN {p \in fit : Cardinality({q \in fit : q[1] = p[1] /\ Cardinality(Support(q[1], q[2]))
                                                            > Cardinality(Support(p[1], p[2]))}) < 3}
Dropped == {w \in UNION {Asked(f) : f \in Failed} : Failures(w) >= 2 * MinSupport}

Tune ==
  /\ phase = "tune" /\ phase' = "replay"
  /\ strategy' = [expansions |-> Rules, drop |-> Dropped]
  /\ UNCHANGED <<entries, at, pending, skipped, written, stored, tasks, known, outcome, queries>>

(* TunedReplayArm._queries: dropped words go, then each word that is left   *)
(* brings its additions; a query nothing is left of is asked as it was.     *)
Tuned(query) ==
  LET left == SelectSeq(query, LAMBDA w : w \notin strategy.drop)
      more == {p[2] : p \in {q \in strategy.expansions : q[1] \in ToSet(left)}} \ ToSet(left)
  IN IF left = <<>> THEN ToSet(query) ELSE ToSet(left) \cup more

Replay ==
  /\ phase = "replay" /\ phase' = "done"
  /\ queries' = [i \in DOMAIN entries |-> Tuned(entries[i].terms)]
  /\ UNCHANGED <<entries, at, pending, skipped, written, stored, tasks, known, outcome, strategy>>

Next == Consider \/ Write \/ Seeded \/ Indexer \/ Poll \/ Tune \/ Replay
Spec == Init /\ [][Next]_vars

-----------------------------------------------------------------------------
(* Whatever a record of the region says was proved was: it is of an answer  *)
(* that may be learned from, each of its claims is carried by passages it   *)
(* lists and the session read, each passage it lists carries one of them,   *)
(* and unless its text was cut they are as many as a memory needs.          *)
Rests(e, r) ==
  /\ r.claims # <<>>
  /\ \A c \in ToSet(r.claims) : c.on # {} /\ c.on \subseteq c.claim.within \cap Passages(e)
  /\ ToSet(r.evidence) = RestOn(r.claims)
  /\ Len(r.claims) < RecordRoom => Cardinality(RestOn(r.claims)) >= MinEvidence
RecordsHold ==
  \A i \in DOMAIN stored : \E e \in ToSet(entries) :
    /\ e.question = stored[i].of /\ e.learned
    /\ stored[i].kind = "fact" => Rests(e, stored[i].rule)

(* When the report states no limitation, P1 is measured with all of its     *)
(* memory.                                                                  *)
MeasuredWhole ==
  phase \in {"tune", "replay", "done"} /\ ~Limited => \A t \in DOMAIN tasks : tasks[t] = "done"

(* A rule of the strategy can be used: the word it is for is not dropped.   *)
RulesUsable ==
  phase \in {"replay", "done"} => \A p \in strategy.expansions : p[1] \notin strategy.drop
=============================================================================
