---------------------------- MODULE MCRpcClient ----------------------------
(***************************************************************************)
(* Small clients, one of which runs in each behaviour, their calls named   *)
(* for what they are: a streamed call and an event over connections that   *)
(* are replaced, two calls over one connection, and a streamed request.    *)
(***************************************************************************)
EXTENDS RpcClient

CONSTANTS request, stream, duplex, event

MCCalls == {request, stream, duplex, event}
MCStreamed == {stream, duplex}

Publishing == [calls |-> {stream, event}, conns |-> 3, items |-> 2]
Sharing == [calls |-> {request, stream}, conns |-> 1, items |-> 1]
Uploading == [calls |-> {duplex}, conns |-> 1, items |-> 2]

MCClients == {Publishing, Sharing, Uploading}
MCUploading == {Uploading}
=============================================================================
