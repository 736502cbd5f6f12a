----------------------------- MODULE MCServices -----------------------------
(***************************************************************************)
(* The instance for TLC of the parts of the SDK around a room: data track  *)
(* streams, token sources, the event tracer, and the RPC methods and the   *)
(* tracks of the local participant.  They do not interact: a behaviour is  *)
(* one of one of them, and the others stay as they are at the start, where *)
(* none of their fair actions is enabled.                                  *)
(***************************************************************************)
EXTENDS DataTrackStream, TokenSource, EventTracer, LocalRpc, LocalTracks, TLC

CONSTANT Parts   \* the parts that are explored

VARIABLE part

\* Options that differ in one field, which is absent, empty or given.
MCOptions ==
  {[f \in OptionFields |-> IF f = "agent_deployment" THEN v ELSE "absent"] : v \in {"absent", "empty", "d"}}

MCWildcard == [p \in {"l*"} |-> {"livekit"}]

MCInit ==
  /\ part \in Parts
  /\ Init /\ TokenInit /\ TracerInit /\ RpcInit /\ TracksInit

MCNext ==
  \/ part = "data_track" /\ Next /\ UNCHANGED <<part, tokenVars, tracerVars, rpcVars, trackVars>>
  \/ part = "token" /\ TokenNext /\ UNCHANGED <<part, vars, tracerVars, rpcVars, trackVars>>
  \/ part = "tracer" /\ TracerNext /\ UNCHANGED <<part, vars, tokenVars, rpcVars, trackVars>>
  \/ part = "rpc" /\ RpcNext /\ UNCHANGED <<part, vars, tokenVars, tracerVars, trackVars>>
  \/ part = "tracks" /\ TracksNext /\ UNCHANGED <<part, vars, tokenVars, tracerVars, rpcVars>>

MCSpec ==
  /\ MCInit
  /\ [][MCNext]_<<part, vars, tokenVars, tracerVars, rpcVars, trackVars>>
  /\ Fairness /\ TokenFairness /\ TracerFairness /\ RpcFairness

\* The calls that wait come back: read() of a data track, fetch() and invalidate(), stopTracing(),
\* the invocations of RPC methods and shutdown() of the local participant.
ServicesReturn == ReadReturns /\ FetchesEnd /\ TracingStops /\ InvocationsAnswered /\ ShutdownReturns
=============================================================================
