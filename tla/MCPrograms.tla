------------------------------ MODULE MCPrograms ------------------------------
(***************************************************************************)
(* The programs that are not servers with a logic layer, side by side:     *)
(* each behaviour runs one of them, and the others stand still.  All but   *)
(* the threads of Peers have nothing to do then, so that theirs is the     *)
(* only fairness that has to be called off.                                *)
(*                                                                         *)
(*   "api"    an owner of a Session of AsyncApi                            *)
(*   "peers"  a client and a server with blocking calls                    *)
(*   "book"   a program that uses the class Book                           *)
(*   "call"   GrpcServer and its clients                                   *)
(***************************************************************************)
EXTENDS ApiSession, MCPeers, BookUser, HelloCall

VARIABLE program

programVars == <<program, apiVars, vars, bookVars, callVars>>

\* A program that stands still has one state to stand in.
ProgramInit ==
  /\ program \in {"api", "peers", "book", "call"}
  /\ program # "api" => kind = "queue"
  /\ program # "peers" => pair = <<"TestClient", "frames">>
  /\ ApiInit /\ Init /\ BookInit /\ CallInit

ApiStep == program = "api" /\ ApiNext /\ UNCHANGED <<program, vars, bookVars, callVars>>
PeersStep == program = "peers" /\ Next /\ UNCHANGED <<program, apiVars, bookVars, callVars>>
BooksStep == program = "book" /\ BookNext /\ UNCHANGED <<program, apiVars, vars, callVars>>
CallStep == program = "call" /\ CallNext /\ UNCHANGED <<program, apiVars, vars, bookVars>>
ProgramNext == ApiStep \/ PeersStep \/ BooksStep \/ CallStep

ProgramSpec == /\ ProgramInit /\ [][ProgramNext]_programVars
               /\ ApiFairness /\ CallFairness
               /\ program = "peers" => Fairness

\* Clients with blocking calls come to their end (see Finishes).
ClientsFinish == program = "peers" => Finishes

-----------------------------------------------------------------------------
\* None, one, and one that is not UTF-8; a negative number takes more bytes;
\* the bits 1 stand for minus zero.
MCNames == {<<>>, <<"a">>, <<BadPart>>}
MCPages == {0, 1, -1}
MCPrices == {0, 1, 2}

\* An unknown number, a known number with another type, the end of a group,
\* and a known field again.
MCForeign == {Item(4, "varint", 1), Item(1, "varint", 1), Item(2, "end", 0),
              Item(2, "varint", 1)}
=============================================================================
