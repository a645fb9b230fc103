------------------------------ MODULE MCLibrary ------------------------------
(***************************************************************************)
(* The parts of the library that meet no other: one run checks them all.   *)
(* A behaviour picks one of them and is a behaviour of it; the others stay *)
(* as they begin.                                                          *)
(***************************************************************************)
EXTENDS ByteBuffer, ConnectionLimits, Easylog, ProtoMessages, WebSocket, Sha1, Codecs

CONSTANTS l1, l2
VARIABLE part

MCBytes == {0, 1}
LoggerSymmetry == Permutations(Loggers)
MCPieces == [base64 |-> 5, utf8 |-> 5, des |-> 5, http |-> 4]
Parts == {"buffer", "limits", "log", "proto", "websocket", "sha1", "codecs"}

libraryVars == <<part, vars, limVars, logVars, protoVars, wsVars, shaVars, codecVars>>

LibraryInit ==
  /\ part \in Parts
  /\ Init /\ LimitsInit /\ EasylogInit /\ ProtoInit /\ WsInit /\ Sha1Init /\ CodecsInit
  /\ part # "log" => threshold = PANIC
  /\ part # "proto" => mclass = EntityCreateRequest
  /\ part # "codecs" => codec = "base64" /\ text = <<>>

LibraryNext ==
  /\ UNCHANGED part
  /\ \/ part = "buffer" /\ Next /\ UNCHANGED <<limVars, logVars, protoVars, wsVars, shaVars, codecVars>>
     \/ part = "limits" /\ LimitsNext /\ UNCHANGED <<vars, logVars, protoVars, wsVars, shaVars, codecVars>>
     \/ part = "log" /\ EasylogNext /\ UNCHANGED <<vars, limVars, protoVars, wsVars, shaVars, codecVars>>
     \/ part = "proto" /\ ProtoNext /\ UNCHANGED <<vars, limVars, logVars, wsVars, shaVars, codecVars>>
     \/ part = "websocket" /\ WsNext /\ UNCHANGED <<vars, limVars, logVars, protoVars, shaVars, codecVars>>
     \/ part = "sha1" /\ Sha1Next /\ UNCHANGED <<vars, limVars, logVars, protoVars, wsVars, codecVars>>
     \/ part = "codecs" /\ CodecsNext /\ UNCHANGED <<vars, limVars, logVars, protoVars, wsVars, shaVars>>

LibrarySpec == LibraryInit /\ [][LibraryNext]_libraryVars
=============================================================================
