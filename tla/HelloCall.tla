------------------------------- MODULE HelloCall -------------------------------
(***************************************************************************)
(* GrpcServer and grpcclient: calls of Greeter.SayHello.  Each client      *)
(* makes one, with a request that it serializes with its copy of demo.pb,  *)
(* and waits.  The server runs the calls in threads of grpc, reads the     *)
(* request and writes the reply with its own copy.                         *)
(*                                                                         *)
(* grpc is external: it carries what was written, runs a handler for each  *)
(* request, and ends a call with a status of its own when the server is    *)
(* not there, or when it learns that the connection is lost.               *)
(***************************************************************************)
EXTENDS ProtoMessage

CONSTANTS Clients, CallNames

ASSUME CallNamesAssumption == \A name \in CallNames : name \in Seq(STRING)

VARIABLES server,   (* "off"; "listening", or "null" if the port is taken; *)
                    (* "crashed", or "gone" when it was killed             *)
          net,      (* the connection of each client: "up"; "lost", and    *)
                    (* grpc learns of it; or "silent", and nobody does     *)
          call      (* the call of each client                             *)

callVars == <<server, net, call>>

NoResult == <<"none">>

CallInit ==
  /\ server = "off"
  /\ net = [c \in Clients |-> "up"]
  /\ call = [c \in Clients |-> [at |-> "idle", name |-> <<>>, items |-> <<>>,
                                status |-> "none", result |-> NoResult]]

Prefix == "llfc grpc server has received :  "

-----------------------------------------------------------------------------
(* The copies of demo.pb.                                                  *)

NewRequest == SharedCtor(HelloRequest)
NewReply == SharedCtor(HelloReply)

ClientRequest(name) == SetField(NewRequest, 1, name)
RequestMessage(request) == GetField(request, 1)
SetMessage(text) == SetField(NewReply, 1, text)
ReplyMessage(reply) == GetField(reply, 1)

ClientSerializesRequest(request) == InternalSerialize(HelloRequest, request)
ServerParsesRequest(items) == ParseFromString(HelloRequest, items)
ServerSerializesReply(reply) == InternalSerialize(HelloReply, reply)
ClientParsesReply(items) == ParseFromString(HelloReply, items)

-----------------------------------------------------------------------------
(* The client.                                                             *)

\* FCClient::SayHello up to the call, which blocks.
SayHello(c, name) ==
  /\ call[c].at = "idle"
  /\ call' = [call EXCEPT ![c].at = "sent", ![c].name = name,
                          ![c].items = ClientSerializesRequest(ClientRequest(name))]
  /\ UNCHANGED <<server, net>>

\* And from there: the text of the reply, or of the failure.
Returned(record, status, text) ==
  [record EXCEPT !.at = "returned", !.items = <<>>, !.status = status,
                 !.result = IF status = "OK" THEN text ELSE <<"failure", status>>]

\* The reply is there.  One that cannot be read is a failure.
Completes(c) ==
  /\ call[c].at = "answered" /\ net[c] = "up"
  /\ LET read == ClientParsesReply(call[c].items)
     IN  call' = [call EXCEPT ![c] =
                    Returned(@, IF @.status # "OK" THEN @.status
                                ELSE IF read.ok THEN "OK" ELSE "INTERNAL",
                             ReplyMessage(read.msg))]
  /\ UNCHANGED <<server, net>>

InFlight(c) == call[c].at \in {"sent", "running", "answered"}

\* External: the connection is lost during a call.
Loses(c) ==
  /\ InFlight(c) /\ net[c] = "up"
  /\ \E how \in {"lost", "silent"} : net' = [net EXCEPT ![c] = how]
  /\ UNCHANGED <<server, call>>

\* External: nobody listens at the port, or the connection is known to be lost.
Unavailable(c) ==
  /\ InFlight(c)
  /\ net[c] = "lost" \/ (net[c] = "up" /\ server # "listening")
  /\ call' = [call EXCEPT ![c] = Returned(@, "UNAVAILABLE", <<>>)]
  /\ UNCHANGED <<server, net>>

-----------------------------------------------------------------------------
(* The server.                                                             *)

\* RunServer up to the line that says the server is listening: if the port is
\* taken, BuildAndStart gives no server.
RunServer == /\ server = "off"
             /\ server' \in {"listening", "null"}
             /\ UNCHANGED <<net, call>>

\* And its last line, the call of Wait, which on a null pointer is the end.
\* On a server it does not come back: nobody calls Shutdown.
Wait == /\ server = "null"
        /\ server' = "crashed"
        /\ UNCHANGED <<net, call>>

\* External: it runs until it is killed.
Killed == /\ server = "listening"
          /\ server' = "gone"
          /\ UNCHANGED <<net, call>>

\* Mutant: a request that cannot be read is dropped.
Receive_Drops(c) ==
  /\ server = "listening" /\ net[c] = "up" /\ call[c].at = "sent"
  /\ call' = [call EXCEPT ![c].at = IF ServerParsesRequest(call[c].items).ok THEN "running"
                                    ELSE "dropped"]
  /\ UNCHANGED <<server, net>>

\* The handler that Service() registered: it reads the request.
Receive(c) ==
  /\ server = "listening" /\ net[c] = "up" /\ call[c].at = "sent"
  /\ call' = [call EXCEPT ![c] =
                IF ServerParsesRequest(@.items).ok THEN [@ EXCEPT !.at = "running"]
                ELSE [@ EXCEPT !.at = "answered", !.items = <<>>, !.status = "INTERNAL"]]
  /\ UNCHANGED <<server, net>>

\* Mutant: the reply is the name alone.
ServiceSayHello_NoPrefix(c) ==
  /\ server = "listening" /\ call[c].at = "running"
  /\ LET request == ServerParsesRequest(call[c].items).msg
         reply == SetMessage(RequestMessage(request))
     IN  call' = [call EXCEPT ![c].at = "answered", ![c].status = "OK",
                              ![c].items = ServerSerializesReply(reply)]
  /\ UNCHANGED <<server, net>>

\* GreeterServiceImpl::SayHello.
ServiceSayHello(c) ==
  /\ server = "listening" /\ call[c].at = "running"
  /\ LET request == ServerParsesRequest(call[c].items).msg
         reply == SetMessage(<<Prefix>> \o RequestMessage(request))
     IN  call' = [call EXCEPT ![c].at = "answered", ![c].status = "OK",
                              ![c].items = ServerSerializesReply(reply)]
  /\ UNCHANGED <<server, net>>

-----------------------------------------------------------------------------
Proceeds(c) == Receive(c) \/ ServiceSayHello(c) \/ Completes(c) \/ Unavailable(c)

CallNext == \/ RunServer \/ Wait \/ Killed
            \/ \E c \in Clients : \/ \E name \in CallNames : SayHello(c, name)
                                 \/ Loses(c) \/ Proceeds(c)

\* A call that is under way goes on, or grpc notices that it cannot.
CallFairness == \A c \in Clients : WF_callVars(Proceeds(c))

CallSpec == CallInit /\ [][CallNext]_callVars /\ CallFairness

-----------------------------------------------------------------------------
(* Properties.                                                             *)

\* A client gets the prefix and its own name, all of it, also where several
\* call at once, or a text that begins with "failure" if its name is not
\* UTF-8, the server is not there or goes; it gets no part of an answer, and
\* the two cannot be mistaken for each other.
\* (grpcclient.cpp:20, GrpcServer.cpp:21, the two copies of demo.pb.cc.)
AnswerRight ==
  \A c \in Clients :
    call[c].at = "returned" =>
      \/ call[c].result = <<Prefix>> \o call[c].name /\ ValidUTF8(call[c].name)
      \/ /\ call[c].result = <<"failure", call[c].status>>
         /\ call[c].status = "INTERNAL" => ~ValidUTF8(call[c].name)

\* A call that was made returns: the server answers, be the request readable or
\* not, or grpc learns that nobody will, because none was started, or it was
\* killed, or the connection is lost.  There is no deadline: a call whose
\* connection goes silent is not in this.  (grpcclient.cpp:26.)
CallReturns ==
  []<>(\A c \in Clients : call[c].at \in {"idle", "returned"} \/ net[c] = "silent")
=============================================================================
