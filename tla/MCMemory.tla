------------------------------ MODULE MCMemory ------------------------------
(***************************************************************************)
(* Model-checking instance of what is remembered and what is made of it:   *)
(* the semantic memory with its context forest, the typed facts, and the   *)
(* grounding of answers.  As in MCServices a behaviour is one of one       *)
(* component, chosen at the start.                                         *)
(***************************************************************************)
EXTENDS SemanticMemory, Facts, Grounding

VARIABLE subject

heartVars == <<memoryVars, factVars, groundVars, subject>>

\* A home that changes, and money that is spent: new values, repeated values,
\* and several claims in one utterance.
Claimed(s, v) == [slot |-> s, value |-> v]
Speeches == {<<Claimed("home", 1)>>, <<Claimed("home", 2)>>,
             <<Claimed("home", 1), Claimed("home", 1), Claimed("spent", 2)>>,
             <<Claimed("spent", 1), Claimed("spent", 1)>>}

\* Two dates in a text, and one of a session.
Dates == {<<0, 1>>, <<0, 2>>, <<1, 1>>}

HeartInit ==
  /\ subject \in {"memory", "facts", "grounding"}
  /\ MemoryInit /\ FactsInit /\ GroundInit
  /\ subject # "facts" => schema = "current"

HeartNext ==
  /\ UNCHANGED subject
  /\ \/ subject = "memory" /\ MemoryNext /\ UNCHANGED <<factVars, groundVars>>
     \/ subject = "facts" /\ FactsNext /\ UNCHANGED <<memoryVars, groundVars>>
     \/ subject = "grounding" /\ GroundNext /\ UNCHANGED <<memoryVars, factVars>>

HeartSpec == HeartInit /\ [][HeartNext]_heartVars

=============================================================================
