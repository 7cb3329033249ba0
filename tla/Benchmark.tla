------------------------------ MODULE Benchmark ------------------------------
(***************************************************************************)
(* benchmark/builder.py, freezer.py and leakage.py with cli.py             *)
(* cmd_freeze_benchmark and the first lines of cmd_evaluate: how claims    *)
(* become questions, how questions are dealt into cohorts, and how the     *)
(* package is written, digested, checked for leakage and loaded again.     *)
(* The corpus may grow between two freezes, and the process may die at any *)
(* write.                                                                  *)
(*                                                                         *)
(* A claim is a number, in the order of claim ids; what its text is good   *)
(* for is its shape.  A text is the terms it contains and the numbers it   *)
(* states: a term is a number, in the order of the alphabet, and may lie   *)
(* within another word.  A digest is the content it digests.               *)
(***************************************************************************)
EXTENDS Integers, Sequences, FiniteSets, SequencesExt

CONSTANTS
  Terms,        \* the terms of the texts, numbered in the order of the alphabet
  Within,       \* pairs of terms: the first is found in a text that has the second
  Number,       \* the number a term spells, -1 if none
  Frame,        \* the terms of the fixed words of a kind of question, topic included
  Markers,      \* the terms that mark a disagreement
  Identifiers,  \* what each source is known by: identifier, title, id
  Tolerance,    \* how far off a number may be when answers are scored, in percent
  Shapes,       \* what a claim can be: a set of records, see ShapeType
  Facets,       \* how many facets the topic has, numbered from 1
  Sources,      \* how many retained sources, numbered in the order of their ids
  Published,    \* publication date of each source, 0 if it has none
  Covers,       \* the facets each source was filed under
  Mentioned,    \* facets whose terms the corpus contains
  Answerable,   \* abstention texts that some one document would answer
  Disputes,     \* the contradictions on file: a sequence of records
  Compositions, \* configured mixes: sequences of <<kind, wanted>>
  Fractions,    \* percentage of each cohort
  Shuffles,     \* orders the seeded shuffle may give to so many questions, and so a
                \* bound on how many there are
  MaxClaims,    \* bound: claims collected
  MaxBuilds,    \* bound: freezes begun
  MaxDeaths     \* bound: deaths of the process

Cohorts == {"learned", "temporal_holdout", "anchor", "control", "invariant"}
Single  == {"atomic_fact", "mechanism", "source_id"}
Kinds   == Single \cup {"contradiction", "temporal", "synthesis", "abstention"}

(* The salient terms of the text (six at most, so that the builders, which  *)
(* look at six or ten, look at the same), and the first number, -1 if       *)
(* none.                                                                    *)
ShapeType == [facets : SUBSET (1..Facets), source : 1..Sources, terms : SUBSET Terms,
              value : Nat \cup {-1}, mechanism : BOOLEAN, eligible : BOOLEAN]

ASSUME BenchmarkAssumption ==
  /\ Terms \in SUBSET Nat /\ Within \in SUBSET (Terms \X Terms) /\ Number \in [Terms -> Nat \cup {-1}]
  /\ Frame \in [Kinds -> SUBSET Terms] /\ Markers \in SUBSET Terms
  /\ Identifiers \in [1..Sources -> SUBSET Terms] /\ Tolerance \in 0..100
  /\ Shapes \in SUBSET ShapeType /\ Facets \in Nat /\ Sources \in Nat
  /\ Published \in [1..Sources -> Nat] /\ Covers \in [1..Sources -> SUBSET (1..Facets)]
  /\ Mentioned \in SUBSET (1..Facets) /\ Answerable \in SUBSET Nat
  /\ Disputes \in Seq([claims : Seq(Nat), sources : SUBSET (1..Sources), about : SUBSET Terms])
  /\ Compositions \subseteq Seq(STRING \X Nat)
  /\ Fractions \in [Cohorts \ {"invariant"} -> 0..100]
  /\ \A n \in DOMAIN Shuffles : \A order \in Shuffles[n] :
       order \in [1..n -> 1..n] /\ \A k \in 1..n : \E i \in 1..n : order[i] = k
  /\ MaxClaims \in Nat /\ MaxBuilds \in Nat /\ MaxDeaths \in Nat

VARIABLES
  claims,      \* CollectionState.claims: the shape of each
  composition, \* config.benchmark.composition
  builds,      \* history: what each freeze has built
  step,        \* where the freezing process is: 0 down, then the write it is at
  files,       \* the build each file of the package is from, 0 absent, -1 torn
  manifest,    \* likewise for benchmark-manifest.json
  leakage,     \* the build whose leakage report state.json holds
  answered,    \* those of Answerable that a document collected by now would answer
  cut,         \* history: builds with a manifest that died before their leakage report
  deaths

vars == <<claims, composition, builds, step, files, manifest, leakage, answered, cut, deaths>>

Init ==
  /\ claims = <<>> /\ composition \in Compositions /\ builds = <<>> /\ step = 0
  /\ files = [i \in 1..6 |-> 0] /\ manifest = 0 /\ leakage = 0 /\ deaths = 0
  /\ answered = {} /\ cut = {}

-----------------------------------------------------------------------------
Naturals(n) == [i \in 1..n |-> i]

(* The claims a question may be built from, facet by facet; 0 is the bucket *)
(* of claims without a facet.                                               *)
Bucket(f) ==
  SelectSeq(Naturals(Len(claims)), LAMBDA c :
    claims[c].eligible /\ IF f = 0 THEN claims[c].facets = {} ELSE f \in claims[c].facets)

(* _ordered: one claim of every facet, then the next of every facet; 0 for  *)
(* a facet that has no more, or a used one.  A claim of two facets is       *)
(* listed twice.                                                            *)
Ordered(used) ==
  LET columns == Facets + 1
      Place(f, i) == IF i <= Len(Bucket(f)) /\ Bucket(f)[i] \notin used THEN Bucket(f)[i] ELSE 0
  IN [k \in 1..(Len(claims) * columns) |-> Place((k - 1) % columns, (k - 1) \div columns + 1)]

(* The id of a question is its text and the version of the benchmark, which *)
(* is the claims on file and the composition.  The text is what it asks     *)
(* about, the date it asks for and the claim it quotes, 0 for none, in the  *)
(* words of its kind.                                                       *)
Id(kind, about, asOf, quote) ==
  [kind |-> kind, about |-> about, asOf |-> asOf, quote |-> quote, version |-> Len(claims)]

(* The words of the question, the terms it contains, and the numbers it     *)
(* states.  (Of a date that is the year; its month and day are left out.)   *)
Said(id)      == id.about \cup Frame[id.kind]
Contained(id) == Said(id) \cup {t \in Terms : \E u \in Said(id) : <<t, u>> \in Within}
Numerals(id)  == {Number[t] : t \in Said(id)} \cup {IF id.asOf = 0 THEN -1 ELSE id.asOf}

SourcesOf(cs) == {claims[c].source : c \in cs}

(* _split_terms: the first terms are what a question names, and the rest    *)
(* what an answer has to supply.                                            *)
First(n, terms) == {t \in terms : Cardinality({u \in terms : u < t}) < n}
Subject(c, n)   == First(n, claims[c].terms)
Answer(c, n)    == claims[c].terms \ Subject(c, n)
Gradable(c)     == Cardinality(Subject(c, 3)) >= 2 /\ Cardinality(Answer(c, 3)) >= 2

(* _fact_from_claim: a claim that states a number is matched by that number.*)
(* A fact is known by its claims and its question.                          *)
Matcher(kind, value, groups, names) == [kind |-> kind, value |-> value, groups |-> groups, names |-> names]
Fact(c, answer) ==
  [from |-> {c}, matcher |-> Matcher(IF claims[c].value = -1 THEN "all_of" ELSE "numeric", claims[c].value,
                                   {{t} : t \in First(3, answer)}, {})]

(* FactMatcher.matches, of the text of a question.  (No question has the    *)
(* words of an abstention.)                                                 *)
Near(x, value, percent) == x # -1 /\ 100 * (IF x < value THEN value - x ELSE x - value) <= percent * value

Matches(m, id, percent) ==
  LET all == \A g \in m.groups : g \cap Contained(id) # {}
  IN \/ m.kind = "numeric" /\ \E x \in Numerals(id) : Near(x, m.value, percent)
     \/ m.kind = "source" /\ m.names \cap Contained(id) # {}
     \/ m.kind = "disagreement" /\ Said(id) \cap Markers # {} /\ all
     \/ m.kind = "all_of" /\ all

(* Mutant of Hardened: a rebuilt matcher is kept whatever is left of it.    *)
MutantHardened(m, id) == {Matcher("all_of", -1, {g \in m.groups : g \cap Contained(id) = {}}, {})}

(* _harden: the matcher of a fact its question gives away is built again,   *)
(* of the groups the question does not contain; none if there are fewer     *)
(* than two, or the question satisfies that one too.  The builder knows no  *)
(* other tolerance than the default.                                        *)
Hardened(m, id) ==
  LET surviving == {g \in m.groups : g \cap Contained(id) = {}}
      rebuilt   == Matcher("all_of", -1, surviving, {})
  IN IF Cardinality(surviving) < 2 \/ Matches(rebuilt, id, 2) THEN {} ELSE {rebuilt}

Grading(m, id) == IF m.kind = "abstain" \/ ~Matches(m, id, 2) THEN {m} ELSE Hardened(m, id)

(* A builder under way, b: the questions it has, the claims used, and what  *)
(* was left out, with the reason.                                           *)
Gap(reason, of) == [reason |-> reason, of |-> of]

(* _attach: a fact the question gives away is graded otherwise, or dropped. *)
(* (Which sources are known negatives is not modelled.)                     *)
Attach(b, id, cs, facts) ==
  LET kept == UNION {{[from |-> f.from, matcher |-> m] : m \in Grading(f.matcher, id)} : f \in facts}
      lost == {f \in facts : Grading(f.matcher, id) = {}}
  IN [out  |-> Append(b.out, [id |-> id, facts |-> kept]),
      used |-> b.used \cup cs,
      gaps |-> b.gaps \cup {Gap("answer_in_question", <<id, f.from>>) : f \in lost}]

(* _atomic *)
AskFact(b, c) ==
  IF Gradable(c)
  THEN Attach(b, Id("atomic_fact", Subject(c, 3), 0, 0), {c}, {Fact(c, Answer(c, 3))})
  ELSE [b EXCEPT !.gaps = @ \cup {Gap("claim_not_gradable", c)}]

(* _mechanism *)
AskMechanism(b, c) ==
  IF claims[c].mechanism /\ Gradable(c)
  THEN Attach(b, Id("mechanism", Subject(c, 3), 0, 0), {c}, {Fact(c, Answer(c, 3))}) ELSE b

(* _source_identification: the claim is quoted, its source is the answer.   *)
AskSource(b, c) ==
  Attach(b, Id("source_id", claims[c].terms, 0, c), {c},
         {[from |-> {c}, matcher |-> Matcher("source", -1, {}, Identifiers[claims[c].source])]})

(* _synthesis, one facet: the first unused claim of each of its sources,    *)
(* two sources at a time.                                                   *)
AskPair(b, pair) ==
  LET subject == UNION {Subject(c, 2) : c \in pair}
      Rest(c) == Answer(c, 2) \ subject
  IN IF Cardinality(subject) >= 3 /\ \A c \in pair : Cardinality(Rest(c)) >= 2
     THEN Attach(b, Id("synthesis", subject, 0, 0), pair, {Fact(c, Rest(c)) : c \in pair}) ELSE b

SourcePairs(f, used) ==
  LET free     == ToSet(Bucket(f)) \ used
      Oldest(s) == Min({c \in free : claims[c].source = s})
      held     == {s \in 1..Sources : \E c \in free : claims[c].source = s}
      Rank(s)  == Cardinality({t \in held : t <= s})
  IN [i \in 1..(Cardinality(held) \div 2) |-> {Oldest(s) : s \in {s \in held : Rank(s) \in {2 * i - 1, 2 * i}}}]

(* _temporal, one facet: the oldest of its dated claims, as of its date.    *)
AskThen(b, f) ==
  LET Date(c) == Published[claims[c].source]
      dated   == SetToSortSeq({c \in ToSet(Bucket(f)) : c \notin b.used /\ Date(c) # 0},
                   LAMBDA c, d : Date(c) < Date(d) \/ (Date(c) = Date(d) /\ c < d))
      oldest  == dated[1]
  IN IF Len(dated) < 2 THEN b
     ELSE IF Date(oldest) = Date(dated[Len(dated)]) \/ ~Gradable(oldest) THEN b
     ELSE Attach(b, Id("temporal", Subject(oldest, 3), Date(oldest), 0), {oldest},
                 {Fact(oldest, Answer(oldest, 3))})

(* _contradiction: the claims it names, or else the first two of its        *)
(* sources; whether they are eligible or used is not asked.  The sides are  *)
(* the first two.                                                           *)
AskBoth(b, d) ==
  LET about == Disputes[d].about
      Side(c) == First(3, claims[c].terms \ about)
      named == SelectSeq(Disputes[d].claims, LAMBDA c : c \in DOMAIN claims)
      held  == IF Len(named) >= 2 THEN named
               ELSE SelectSeq(Naturals(Len(claims)), LAMBDA c : claims[c].source \in Disputes[d].sources)
      cs    == IF Len(named) >= 2 \/ Len(held) < 2 THEN held ELSE SubSeq(held, 1, 2)
  IN IF Cardinality(SourcesOf(ToSet(cs))) < 2
     THEN [b EXCEPT !.gaps = @ \cup {Gap("contradiction_ungrounded", d)}]
     ELSE Attach(b, Id("contradiction", about, 0, 0), {cs[1], cs[2]},
                 {[from |-> {cs[1], cs[2]},
                   matcher |-> Matcher("disagreement", -1, {Side(cs[1]), Side(cs[2])}, {})]})

(* _synthesis: the pairs of one facet, until it has what is wanted.         *)
AskIfShort(wanted, b, pair) == IF Len(b.out) >= wanted THEN b ELSE AskPair(b, pair)

AskPairs(wanted, b, f) ==
  LET pairs == SourcePairs(f, b.used)
      after[i \in 0..Len(pairs)] == IF i = 0 THEN b ELSE AskIfShort(wanted, after[i - 1], pairs[i])
  IN after[Len(pairs)]

(* _abstention: a facet no source covers, then terms made up for it.        *)
Absent(about) ==
  [id |-> Id("abstention", {about}, 0, 0), facts |-> {[from |-> {}, matcher |-> Matcher("abstain", -1, {}, {})]}]

AskNothing(b, f) ==
  IF \E s \in 1..Sources : f \in Covers[s] THEN b
  ELSE IF f \in Mentioned THEN [b EXCEPT !.gaps = @ \cup {Gap("abstention_unsafe", f)}]
  ELSE [b EXCEPT !.out = Append(@, Absent(f))]

(* The builders of BenchmarkBuilder.build: what each is made of, and how.   *)
Material(kind, used) ==
  CASE kind \in Single -> Ordered(used)
    [] kind = "contradiction" -> Naturals(Len(Disputes))
    [] kind \in {"temporal", "synthesis"} -> [f \in 1..(Facets + 1) |-> f - 1]
    [] kind = "abstention" -> Naturals(Facets)

Ask(kind, wanted, b, m) ==
  IF Len(b.out) >= wanted \/ (kind \in Single /\ m = 0) THEN b
  ELSE CASE kind = "atomic_fact" -> AskFact(b, m)
         [] kind = "mechanism" -> AskMechanism(b, m)
         [] kind = "source_id" -> AskSource(b, m)
         [] kind = "contradiction" -> AskBoth(b, m)
         [] kind = "temporal" -> AskThen(b, m)
         [] kind = "synthesis" -> AskPairs(wanted, b, m)
         [] kind = "abstention" -> AskNothing(b, m)

(* A builder takes its material in order until it has what is wanted.       *)
Take(kind, wanted, b, material) ==
  LET after[i \in 0..Len(material)] ==
        IF i = 0 THEN b ELSE Ask(kind, wanted, after[i - 1], material[i])
  IN after[Len(material)]

(* An abstention that is still wanted asks for terms that are made up.      *)
MadeUp(kind, wanted, some) ==
  LET n == Len(some.out)
  IN IF kind # "abstention" \/ n >= wanted THEN some
     ELSE [some EXCEPT !.out = @ \o [i \in 1..(wanted - n) |-> Absent(Facets + n + i)]]

Produced(kind, wanted, used) ==
  MadeUp(kind, wanted, Take(kind, wanted, [out |-> <<>>, used |-> used, gaps |-> {}], Material(kind, used)))

(* BenchmarkBuilder.build: the kinds in the order of the composition, each  *)
(* leaving the claims it used to the next; fewer than wanted is put on file,*)
(* and a kind nobody knows.                                                 *)
Joined(acc, p, kind, wanted) ==
  LET short == IF Len(p.out) < wanted THEN {Gap("composition_shortfall", kind)} ELSE {}
  IN [out |-> acc.out \o p.out, used |-> p.used, gaps |-> acc.gaps \cup p.gaps \cup short]

Built(acc, kind, wanted) ==
  IF kind \notin Kinds THEN [acc EXCEPT !.gaps = @ \cup {Gap("composition", kind)}]
  ELSE Joined(acc, Produced(kind, wanted, acc.used), kind, wanted)

Questions ==
  LET after[i \in 0..Len(composition)] ==
        IF i = 0 THEN [out |-> <<>>, used |-> {}, gaps |-> {}]
        ELSE Built(after[i - 1], composition[i][1], composition[i][2])
  IN after[Len(composition)]

-----------------------------------------------------------------------------
(* Python's round: a half goes to the even neighbour.                       *)
Share(total, percent) ==
  LET q == (total * percent) \div 100
      r == (total * percent) % 100
  IN IF r > 50 \/ (r = 50 /\ q % 2 = 1) THEN q + 1 ELSE q

IdsIn(pool) == {pool[i] : i \in DOMAIN pool}

(* Mutant of Deal: a question asked twice may be dealt twice.               *)
MutantDeal(before, cohort, pool, ids, number) ==
  LET among == {i \in DOMAIN pool : pool[i] \in ids /\ i + before.taken <= number}
  IN [dealt |-> before.dealt \cup {<<pool[i], cohort>> : i \in among},
      taken |-> before.taken + Cardinality(among)]

(* take(): the first of the pool that no cohort has yet, among some ids.    *)
DealOne(acc, cohort, id, ids, number) ==
  IF acc.taken >= number \/ id \notin ids \/ \E p \in acc.dealt : p[1] = id THEN acc
  ELSE [dealt |-> acc.dealt \cup {<<id, cohort>>}, taken |-> acc.taken + 1]

Deal(before, cohort, pool, ids, number) ==
  LET after[i \in 0..Len(pool)] ==
        IF i = 0 THEN before ELSE DealOne(after[i - 1], cohort, pool[i], ids, number)
  IN after[Len(pool)]

(* _assign_cohorts, over the shuffled ids: pairs of a question and cohort.  *)
(* What a cohort takes of the abstentions counts with what it takes after   *)
(* them; what nobody took is an anchor.                                     *)
Membership(pool) ==
  LET total     == Len(pool)
      count     == [c \in DOMAIN Fractions |-> Share(total, Fractions[c])]
      rounded   == count["anchor"] + count["learned"] + count["temporal_holdout"] + count["control"]
      spare     == IF rounded < total THEN total - rounded ELSE 0
      all       == IdsIn(pool)
      rest      == {id \in all : id.kind = "abstention"}
      Anew(d)   == [d EXCEPT !.taken = 0]
      learned   == Deal([dealt |-> {}, taken |-> 0], "learned", pool, all \ rest, count["learned"])
      holdout   == Deal(Anew(learned), "temporal_holdout", pool, all \ rest, count["temporal_holdout"])
      anchor    == Deal(Anew(holdout), "anchor", pool, all \ rest, count["anchor"])
      control   == Deal(Deal(Anew(anchor), "control", pool, rest, count["control"]),
                        "control", pool, all \ rest, count["control"])
      invariant == Deal(Deal(Anew(control), "invariant", pool, rest, spare), "invariant", pool, all, spare)
  IN invariant.dealt \cup {<<id, "anchor">> : id \in {id \in all : \A p \in invariant.dealt : p[1] # id}}

-----------------------------------------------------------------------------
(* What the files of a build hold: questions, facts, evidence, exclusions,  *)
(* abstention cases and cohorts.  Facts and evidence are kept by id, so two *)
(* questions of one id share them.                                          *)
IdsOf(qs)   == {q.id : q \in ToSet(qs)}
FactsOf(qs) == UNION {{<<q.id, f>> : f \in q.facts} : q \in ToSet(qs)}
Content(i, n) ==
  CASE i = 1 -> builds[n].questions
    [] i = 2 -> builds[n].facts
    [] i = 3 -> IdsOf(builds[n].questions)
    [] i = 4 -> builds[n].gaps
    [] i = 5 -> SelectSeq(builds[n].questions, LAMBDA q : q.id.kind = "abstention")
    [] i = 6 -> builds[n].cohorts

(* check_leakage as cmd_freeze_benchmark calls it: a fact the question      *)
(* gives away, an abstention case some document answers.  (No memory and no *)
(* alias exists yet.)                                                       *)
Leaks(qs) ==
  {fact[1] : fact \in {x \in FactsOf(qs) : Matches(x[2].matcher, x[1], 2)}}
    \cup {id \in IdsOf(qs) : id.kind = "abstention" /\ id.about \cap answered # {}}

(* Another collection adds a claim while nothing is frozen, or a document   *)
(* it makes no claim of.                                                    *)
Collect(shape) ==
  /\ step = 0 /\ Len(claims) < MaxClaims
  /\ claims' = Append(claims, shape)
  /\ UNCHANGED <<composition, builds, step, files, manifest, leakage, answered, cut, deaths>>

Discover(text) ==
  /\ step = 0
  /\ answered' = answered \cup {text}
  /\ UNCHANGED <<claims, composition, builds, step, files, manifest, leakage, cut, deaths>>

(* cmd_freeze_benchmark: build; then the six files, the manifest, and what  *)
(* state.json says, one after another.  The shuffle is seeded: as many      *)
(* questions are shuffled alike again.                                      *)
Build ==
  /\ step = 0 /\ Len(builds) < MaxBuilds
  /\ \E q \in {Questions} :
       /\ Len(q.out) \in DOMAIN Shuffles
       /\ \E order \in Shuffles[Len(q.out)] :
            /\ \A n \in DOMAIN builds : Len(builds[n].questions) = Len(q.out) => builds[n].order = order
            /\ builds' = Append(builds, [questions |-> q.out, facts |-> FactsOf(q.out), gaps |-> q.gaps, order |-> order,
                                         cohorts |-> Membership([i \in DOMAIN q.out |-> q.out[order[i]].id]),
                                         leaks |-> Leaks(q.out)])
  /\ step' = 1
  /\ UNCHANGED <<claims, composition, files, manifest, leakage, answered, cut, deaths>>

(* Mutant of Reported: a report on file is not replaced.                    *)
MutantReported == IF step = 8 /\ leakage = 0 THEN Len(builds) ELSE leakage

Reported == IF step = 8 THEN Len(builds) ELSE leakage

Freeze ==
  /\ step \in 1..8 /\ step' = (step + 1) % 9
  /\ files' = IF step <= 6 THEN [files EXCEPT ![step] = Len(builds)] ELSE files
  /\ manifest' = IF step = 7 THEN Len(builds) ELSE manifest
  /\ leakage' = Reported
  /\ UNCHANGED <<claims, composition, builds, answered, cut, deaths>>

(* The process dies at a write, before it or half-way; state.json is        *)
(* replaced whole.                                                          *)
Die ==
  /\ step # 0 /\ deaths < MaxDeaths
  /\ deaths' = deaths + 1 /\ step' = 0
  /\ \/ UNCHANGED <<files, manifest>>
     \/ step <= 6 /\ files' = [files EXCEPT ![step] = -1] /\ UNCHANGED manifest
     \/ step = 7 /\ manifest' = -1 /\ UNCHANGED files
  /\ cut' = IF step = 8 THEN cut \cup {manifest} ELSE cut
  /\ UNCHANGED <<claims, composition, builds, leakage, answered>>

(* verify_freeze: every file still has the digest the manifest names.       *)
Verified == manifest > 0 /\ \A i \in 1..6 : 
  /\ files[i] > 0
  /\ files[i] = manifest \/ Content(i, files[i]) = Content(i, manifest)

(* What cmd_evaluate would do now: load_frozen raises when there is no      *)
(* manifest it can read, or a file of questions, facts or evidence is torn; *)
(* a package that fails its verification is refused.                        *)
Accepted == step = 0 /\ manifest > 0 /\ (\A i \in 1..3 : files[i] # -1) /\ Verified

(* engine.run: the questions it asks, without those that the leakage report *)
(* in state.json invalidated.                                               *)
Invalidated(id) == leakage # 0 /\ id \in builds[leakage].leaks
Asked == SelectSeq(builds[files[1]].questions, LAMBDA q : ~Invalidated(q.id))

Next ==
  \/ \E s \in Shapes : Collect(s)
  \/ \E text \in Answerable \ answered : Discover(text)
  \/ Build \/ Freeze \/ Die

Spec == Init /\ [][Next]_vars

-----------------------------------------------------------------------------
(* Every variable has its type.                                             *)
TypeOK ==
  /\ claims \in Seq(Shapes) /\ composition \in Compositions /\ step \in 0..8
  /\ files \in [1..6 -> -1..Len(builds)] /\ manifest \in -1..Len(builds) /\ leakage \in 0..Len(builds)
  /\ answered \in SUBSET Answerable /\ cut \in SUBSET Int

(* An evaluation that is not refused leaves out every question that leaked  *)
(* when its package was frozen, though state.json, where the leaks are, is  *)
(* not of the package and freezes may have been cut short in between; all   *)
(* but one whose freeze died between the manifest and state.json.           *)
LeaksLeftOut ==
  Accepted /\ manifest \notin cut =>
    \A q \in ToSet(builds[files[1]].questions) : q.id \in builds[manifest].leaks => Invalidated(q.id)

(* No question is in two cohorts, even one that was built twice: what is    *)
(* learned from is never what the learning is tested on, nor an abstention. *)
CohortsApart ==
  \A n \in DOMAIN builds :
    /\ \A p, q \in builds[n].cohorts : p[1] = q[1] => p = q
    /\ IdsOf(builds[n].questions) = {p[1] : p \in builds[n].cohorts}
    /\ \A p \in builds[n].cohorts : p[2] = "learned" => p[1].kind # "abstention"

(* The check at the door finds no answer in a question, and an arm that     *)
(* repeats its question is scored as supporting no fact of it, rebuilt      *)
(* matchers included; but the answers are scored with the tolerance of the  *)
(* configuration, and a question may state a number that is off by more     *)
(* than the builder's tolerance and by no more than that.                   *)
NoAnswerInQuestion ==
  \A n \in DOMAIN builds :
    /\ \A id \in builds[n].leaks : id.kind = "abstention"
    /\ \A fact \in builds[n].facts : Matches(fact[2].matcher, fact[1], Tolerance) =>
         /\ fact[2].matcher.kind = "numeric"
         /\ \A x \in Numerals(fact[1]) : ~Near(x, fact[2].matcher.value, 2)

(* An arm that repeats its question is scored as supporting no fact of it.  *)
EchoSupportsNothing ==
  \A n \in DOMAIN builds : \A fact \in builds[n].facts : ~Matches(fact[2].matcher, fact[1], Tolerance)

(* What is asked has a fact to be scored against: a question that cannot be *)
(* grounded does not go in the set.                                         *)
EveryQuestionGrounded == \A n \in DOMAIN builds : \A q \in ToSet(builds[n].questions) : q.facts # {}

(* No evaluation that is not refused asks a question that leaked when its   *)
(* package was frozen.                                                      *)
NoLeakAsked ==
  Accepted => \A q \in ToSet(builds[files[1]].questions) : q.id \in builds[manifest].leaks => Invalidated(q.id)

(* No question is asked of an arm twice.                                    *)
AskedForOnce ==
  Accepted => \A i, j \in DOMAIN Asked : Asked[i].id = Asked[j].id => i = j

(* A claim the researcher inferred is never what an arm is scored against.  *)
InferenceNeverScored ==
  \A n \in DOMAIN builds : \A fact \in builds[n].facts : \A c \in fact[2].from : claims[c].eligible
=============================================================================
