-------------------------------- MODULE Facts --------------------------------
(***************************************************************************)
(* The typed facts that the projection extracts from what the user says    *)
(* (facts.rs, projection.rs): candidates of an event, their recency, which *)
(* fact supersedes which, the answers built on it, and the upgrade that    *)
(* extracts everything again from the log when the extractor has changed.  *)
(*                                                                         *)
(* An utterance is abstracted to the claims its rules match: a slot and a  *)
(* value each.  Event identifiers are hashes, so their order says nothing  *)
(* of the time: Event is a set of numbers that are taken in any order.     *)
(***************************************************************************)
EXTENDS Integers, Sequences, FiniteSets, FiniteSetsExt

CONSTANTS
  Event,        \* identifiers of events, numbers (bound: how many are said)
  StateSlot,    \* slots whose values replace each other
  AmountSlot,   \* slots whose values add up
  Speech,       \* what an event can say: sequences of claims [slot, value], values being numbers
  Dated,        \* recency keys of dated texts and sessions
  MaxLosses     \* nodes pruned and events redacted (bound)

ASSUME FactTypes ==
  /\ Event \subseteq Nat
  /\ Dated \subseteq Int \X Int
  /\ AmountSlot \cap StateSlot = {}
  /\ \A claims \in Speech : /\ Len(claims) \in Nat /\ DOMAIN claims = 1..Len(claims)
                            /\ \A i \in DOMAIN claims : claims[i].value \in Int

VARIABLES
  said,    \* what each event said: its recency key, its claims and when it arrived
  store,   \* the FactStore
  nodes,   \* events that a retained node of the semantic memory knows
  schema,  \* the extractor that built the store: "old" or "current"
  arrival, \* arrival_order of the next event without a date
  present, \* events that the projection was built from
  redacted \* events that are no longer in the log

factVars == <<said, store, nodes, schema, arrival, present, redacted>>

Losses == Cardinality(redacted) + Cardinality(present \ nodes)
Nothing == [key |-> <<0, 0>>, claims |-> <<>>, at |-> 0]

----------------------------------------------------------------------------
\* Mutation of Candidates: an amount, too, is taken only once in an event.
CandidatesOnce(extractor, claims) ==
  LET kept == {i \in DOMAIN claims : /\ ~\E j \in 1..(i - 1) : claims[j] = claims[i]
                                     /\ extractor = "old" => claims[i].slot \in StateSlot}
  IN [n \in 1..Cardinality(kept) |->
        claims[CHOOSE i \in kept : Cardinality({j \in kept : j <= i}) = n]]

\* The rules of extract: candidates in order, a state value only once in an event.  The old
\* extractor had no rule for amounts.
Candidates(extractor, claims) ==
  LET seen(i) == \E j \in 1..(i - 1) : claims[j] = claims[i]
      kept == {i \in DOMAIN claims : /\ claims[i].slot \in StateSlot => ~seen(i)
                                     /\ extractor = "old" => claims[i].slot \in StateSlot}
  IN [n \in 1..Cardinality(kept) |->
        claims[CHOOSE i \in kept : Cardinality({j \in kept : j <= i}) = n]]

\* add_candidates: the fact of a candidate; its identifier is made of the event and the index.
FactsOf(extractor, e, speech) ==
  LET found == Candidates(extractor, speech.claims)
  IN {[id |-> <<e, i>>, slot |-> found[i].slot, value |-> found[i].value, key |-> speech.key] :
        i \in DOMAIN found}

\* recency_cmp and recency_key: a dated text, then a dated session, then the order of arrival.
Earlier(a, b) == a[1] < b[1] \/ (a[1] = b[1] /\ a[2] < b[2])

\* The order in which a group is sorted.
Sorted(f, g) == Earlier(f.key, g.key) \/ (f.key = g.key /\ Earlier(f.id, g.id))

\* The pairs of windows(2) over the sorted group of a slot.
Adjacent(F, f, g) ==
  /\ f.slot = g.slot /\ f.slot \in StateSlot
  /\ Sorted(f, g)
  /\ ~\E h \in F : h.slot = f.slot /\ Sorted(f, h) /\ Sorted(h, g)

\* rebuild_supersession: of two neighbours of different age and value the older is superseded.
Edges(F) ==
  {<<p[1].id, p[2].id>> :
     p \in {p \in F \X F : /\ Adjacent(F, p[1], p[2])
                           /\ p[1].key # p[2].key
                           /\ p[1].value # p[2].value}}

\* Mutation of Rebuilt: the edges are added to those that stood before.
RebuiltOver(previous, F) ==
  LET edges == Edges(F)
      old == {p \in previous.by : ~\E q \in edges : q[1] = p[1]}
  IN [facts |-> F, by |-> edges \cup old, over |-> {<<p[2], p[1]>> : p \in edges \cup old}]

\* add_candidates and rebuild_supersession, which clears every edge first.
Rebuilt(previous, F) ==
  LET edges == Edges(F)
  IN [facts |-> F, by |-> edges, over |-> {<<p[2], p[1]>> : p \in edges}]

EmptyStore == [facts |-> {}, by |-> {}, over |-> {}]

\* upgrade_facts and the replay of the log: everything extracted from nothing.
FromLog(extractor, S) ==
  Rebuilt(EmptyStore, UNION {FactsOf(extractor, e, said[e]) : e \in S})

\* FactStore::active.
Active(s) == {f \in s.facts : ~\E p \in s.by : p[1] = f.id}

\* FactStore::aggregate "sum" over the active facts of a slot.
Total(s, slot) == SumFunction([f \in {f \in Active(s) : f.slot = slot} |-> f.value])

\* FactStore::aggregate "latest": any of the most recent active facts.
Latest(s, slot) ==
  {f \in Active(s) : f.slot = slot /\ ~\E g \in Active(s) : g.slot = slot /\ Earlier(f.key, g.key)}

----------------------------------------------------------------------------
FactsInit ==
  /\ said = [e \in Event |-> Nothing]
  /\ store = EmptyStore
  /\ nodes = {}
  /\ schema \in {"old", "current"}
  /\ arrival = 1
  /\ present = {} /\ redacted = {}

\* CognitiveState::observe of a user's event: extract_event_facts takes the date of the text, that
\* of the session, or the order of arrival.
Say(e, key, claims) ==
  LET speech == [key |-> key, claims |-> claims, at |-> arrival]
  IN /\ said[e] = Nothing
     /\ said' = [said EXCEPT ![e] = speech]
     /\ store' = IF Candidates(schema, claims) = <<>> THEN store
                 ELSE Rebuilt(store, store.facts \cup FactsOf(schema, e, speech))
     /\ nodes' = nodes \cup {e}
     /\ arrival' = arrival + 1
     /\ present' = present \cup {e}
     /\ UNCHANGED <<schema, redacted>>

\* Maintenance prunes the last node that knows an event.
PruneNode(e) ==
  /\ e \in nodes
  /\ Losses < MaxLosses
  /\ nodes' = nodes \ {e}
  /\ UNCHANGED <<said, store, schema, arrival, present, redacted>>

\* SpineHeart::redact takes the event out of the log and leaves the projection as it is.
RedactSpeech(e) ==
  /\ e \in present \ redacted
  /\ Losses < MaxLosses
  /\ redacted' = redacted \cup {e}
  /\ UNCHANGED <<said, store, nodes, schema, arrival, present>>

\* SpineHeart::rebuild_cognition: everything again, by the current extractor.
RebuildFacts ==
  /\ present' = present \ redacted
  /\ nodes' = present'
  /\ store' = FromLog("current", present')
  /\ schema' = "current"
  /\ UNCHANGED <<said, arrival, redacted>>

\* SpineHeart::upgrade_fact_projection at the start of the program.  The projection must stand at
\* the frontier of the log, and an event with facts that neither a node nor an old fact places
\* fails the upgrade, and with it the start.
Upgrade ==
  LET log == present \ redacted
  IN /\ schema = "old"
     /\ \A e \in present : \E other \in log : said[other].at >= said[e].at
     /\ \A e \in log : \/ Candidates("current", said[e].claims) = <<>>
                       \/ e \in nodes
                       \/ \E f \in store.facts : f.id[1] = e
     /\ schema' = "current"
     /\ present' = log
     /\ store' = FromLog("current", log)
     /\ UNCHANGED <<said, nodes, arrival, redacted>>

FactsNext ==
  \/ \E e \in Event, key \in Dated \cup {<<2, arrival>>}, claims \in Speech : Say(e, key, claims)
  \/ \E e \in Event : PruneNode(e)
  \/ \E e \in Event : RedactSpeech(e)
  \/ RebuildFacts
  \/ Upgrade

FactsSpec == FactsInit /\ [][FactsNext]_factVars

----------------------------------------------------------------------------
(* Properties.                                                             *)

\* A total of the current extractor counts every claim of the slot once, also one that an event
\* repeats and one whose node was pruned (aggregate over the active facts).
TotalsCountOnce ==
  schema = "current" =>
    \A slot \in AmountSlot :
      LET claimed(e) == {i \in DOMAIN said[e].claims : said[e].claims[i].slot = slot}
          spent == UNION {{<<e, i>> : i \in claimed(e)} : e \in present}
      IN Total(store, slot) = SumFunction([p \in spent |-> said[p[1]].claims[p[2]].value])

\* The store is a function of what was observed: whatever the order in which events arrived and
\* after any upgrade or rebuild, its facts and its edges in both directions are those of an
\* extraction from nothing (the increments of facts.rs:241 against projection.rs:246).
\* Supersession never hides the present: a fact is only superseded by a more recent one of its
\* slot with another value, and the latest answer for a slot is as recent as anything said of it;
\* and a total is the sum of what was said.
FactsFollowLog ==
  /\ store = FromLog(schema, present)
  /\ \A p \in store.by : \E f, g \in store.facts :
       f.id = p[1] /\ g.id = p[2] /\ f.slot = g.slot /\ Earlier(f.key, g.key) /\ f.value # g.value
  /\ \A f \in store.facts :
       \E g \in Latest(store, f.slot) : ~Earlier(g.key, f.key)
  /\ TotalsCountOnce
=============================================================================
