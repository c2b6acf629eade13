----------------------------- MODULE Connectors -----------------------------
(***************************************************************************)
(* The connectors that an agent is built with: a resource belongs to the   *)
(* HTTP adapter of an application or to Supabase.  The runner treats both  *)
(* alike, so that both must keep what it relies on.                        *)
(***************************************************************************)
EXTENDS Naturals, Sequences, FiniteSets

CONSTANTS
  Requests, Null, Window, Records, MaxCopies, MaxTime,  \* HttpAdapter
  Calls, Names, Batch, MaxUploads                      \* SupabaseConnector

(* A page holds something, and a name is found by a cursor that starts at 0. *)
ASSUME ConnectorsAssumption ==
  /\ Batch \in Nat \ {0}
  /\ Names \subseteq Nat \ {0} /\ IsFiniteSet(Names)
  /\ {Window, Records} \subseteq Nat

VARIABLES
  connector,  \* the connector of the resource: "http" or "supabase"
  now, sent, answer, sink, copies, queue, writing, nonces, loaded, file, torn,
  phase, written, stream, acted,                       \* HttpAdapter
  resource, items, uploads, kind, outcome, after, page, ends, exported,
  steady                                               \* SupabaseConnector

httpVars == <<now, sent, answer, sink, copies, queue, writing, nonces, loaded,
              file, torn, phase, written, stream, acted>>
supabaseVars == <<resource, items, uploads, kind, outcome, after, page, ends,
                  exported, steady>>

http == INSTANCE HttpAdapter
supabase == INSTANCE SupabaseConnector

ASSUME NullAssumption == Null \notin http!SentRows

Init ==
  /\ connector \in {"http", "supabase"}
  /\ http!Init
  /\ supabase!Init
  /\ connector = "http" => resource = "user" /\ items = {}  \* not there

Next ==
  \/ connector = "http" /\ http!Next /\ UNCHANGED <<connector, supabaseVars>>
  \/ connector = "supabase" /\ supabase!Next /\ UNCHANGED <<connector, httpVars>>

vars == <<connector, httpVars, supabaseVars>>

Spec == Init /\ [][Next]_vars

-----------------------------------------------------------------------------
(* Properties. *)

(* The adapter protocol keeps what the runner relies on, while the network   *)
(* repeats and delays requests and the adapter restarts: a request acts at   *)
(* most once, and is answered ok only when it acted.                         *)
KeepsContract == http!KeepsContract

(* An export that succeeds is whole: all frames of the stream, or all items  *)
(* of the resource that were there throughout, each once.                    *)
ExportsAreWhole == http!ExportsAreWhole /\ supabase!ExportsAreWhole

(* An erasure by the Supabase connector that succeeds leaves nothing that    *)
(* was there when it began and stayed.                                       *)
ErasuresAreWhole == supabase!ErasuresAreWhole

=============================================================================
