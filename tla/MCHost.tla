------------------------------- MODULE MCHost -------------------------------
(***************************************************************************)
(* Model-checking instance of the host around the conversation: the        *)
(* session itself, the requests to the model, subagents, the file and web  *)
(* tools and document ingestion.  As in MCServices a behaviour of this run is one of one      *)
(* component, chosen at the start, with the others at their initial        *)
(* states: the sum of their state spaces and not the product.              *)
(***************************************************************************)
EXTENDS Subagents, HostTools, Ingest, Session, Provider

VARIABLE subject

hostVars == <<agentVars, toolVars, ingestVars, sessionVars, providerVars, subject>>

\* A file of five words, in chunks of two, three or four, and one of two.
WordsOf == [c1 |-> 5, c2 |-> 2]
ChunkSettings == {<<2, 0>>, <<3, 1>>, <<4, 1>>}

\* Conversations with two tool turns and a later task, with guidance in the last
\* turn, and without a system message; texts that do and do not fit 256 tokens.
M(role, metadata, id) == [role |-> role, chars |-> 0, metadata |-> metadata, id |-> id]
Shapes ==
  LET system == M("system", 0, 0)
      user == M("user", 0, 0)
      made(id) == M("assistant", 30, id)
      answer(id) == M("tool", 0, id)
  IN  {<<system, user, made(1), answer(1), M("assistant", 0, 0), user, made(2), answer(2)>>,
       <<system, user, made(1), answer(1), user, made(2), answer(2)>>,
       <<user, made(1), answer(1), user>>}
Sizes == {<<2, 2, 2>>, <<2, 301, 1203>>, <<1203, 301, 2>>, <<1203, 1203, 1203>>}
Conversations ==
  UNION {{[i \in DOMAIN s |-> [s[i] EXCEPT !.chars = size[1 + (i % 3)]]] : size \in Sizes}
           : s \in Shapes}
ModelReplies == {[native |-> <<"a", "a">>, text |-> <<"a", "b", "b">>],
                 [native |-> <<>>, text |-> <<"a", "a">>]}

HostInit ==
  /\ subject \in {"agents", "tools", "ingest", "session", "provider"}
  /\ AgentsInit /\ ToolsInit /\ IngestInit /\ SessionInit /\ ProviderInit
  /\ subject # "tools" => file.size = 0
  /\ subject # "ingest" => log = <<>>
  /\ subject # "provider" => ~offered /\ conversation = CHOOSE h \in Histories : TRUE

HostNext ==
  /\ UNCHANGED subject
  /\ \/ /\ subject = "agents" /\ AgentsNext
        /\ UNCHANGED <<toolVars, ingestVars, sessionVars, providerVars>>
     \/ /\ subject = "tools" /\ ToolsNext
        /\ UNCHANGED <<agentVars, ingestVars, sessionVars, providerVars>>
     \/ /\ subject = "ingest" /\ IngestNext
        /\ UNCHANGED <<agentVars, toolVars, sessionVars, providerVars>>
     \/ /\ subject = "session" /\ SessionNext
        /\ UNCHANGED <<agentVars, toolVars, ingestVars, providerVars>>
     \/ /\ subject = "provider" /\ ProviderNext
        /\ UNCHANGED <<agentVars, toolVars, ingestVars, sessionVars>>

HostSpec == HostInit /\ [][HostNext]_hostVars

=============================================================================
