----------------------------- MODULE Connection -----------------------------
(***************************************************************************)
(* One TCP connection between a sender and a receiver, word by word (eight *)
(* bytes): what tcp_write_buf and tcp_read_buf of sender.c and receiver.c  *)
(* make of messages that do not fit into the connection or arrive in       *)
(* parts.  Replication takes a message to be read or written in one step;  *)
(* here both directions are shown to implement Channel.                    *)
(*                                                                         *)
(* Down go the greeting, heartbeats, replies and the farewell, up go       *)
(* requests for a range of sequence numbers.                               *)
(***************************************************************************)
EXTENDS Integers, Sequences, FiniteSets

CONSTANTS
    DownCap, UpCap,     \* words a direction of the connection holds
    MaxSent, MaxAsked   \* bounds on the messages of each direction

ASSUME ConnectionAssumption ==
    DownCap \in Nat \ {0} /\ UpCap \in Nat \ {0} /\ MaxSent \in Nat /\ MaxAsked \in Nat

Kinds == {"greet", "hb", "reply", "quit"}
Size(kind) == CASE kind = "greet" -> 2 [] kind = "reply" -> 3 [] OTHER -> 1

(* A word is its message's number in sent and its place in the message; a  *)
(* word of a request is one end of the range.                              *)
Word(m, k) == [m |-> m, k |-> k]
WordsOf(m, kind) == [k \in 1..Size(kind) |-> Word(m, k)]
Garbled == "garbled"
GarbledRange == [low |-> -1, high |-> -1]

Least(a, b) == IF a < b THEN a ELSE b
Upto(s, n) == SubSeq(s, 1, n)
From(s, n) == SubSeq(s, n + 1, Len(s))

VARIABLES
    spc,        \* sender: "accept", "run", "telling", "told", "closed", "killed"
    s_out,      \* words of the client's out_buf still to be written
    s_in,       \* words of a request read so far
    rpc,        \* receiver: "greet", "run", "ended", "killed"
    r_out, r_in,
    down, up,   \* the words in the connection
    (* history: what was put into out_buf, what was taken out of in_buf *)
    sent, got, next, torn,
    asked, heard, heeded, utorn

sender   == <<spc, s_out, s_in>>
receiver == <<rpc, r_out, r_in>>
downs    == <<sent, got, next, torn>>
ups      == <<asked, heard, heeded, utorn>>
vars     == <<sender, receiver, down, up, downs, ups>>

(* The receiver has connected. *)
Init ==
    /\ spc = "accept" /\ s_out = <<>> /\ s_in = <<>>
    /\ rpc = "greet" /\ r_out = <<>> /\ r_in = <<>>
    /\ down = <<>> /\ up = <<>>
    /\ sent = <<>> /\ got = <<>> /\ next = 1 /\ torn = FALSE
    /\ asked = <<>> /\ heard = <<>> /\ heeded = 1 /\ utorn = FALSE

Up(pc) == pc \notin {"closed", "ended", "killed"}

-----------------------------------------------------------------------------
(* The sender.  tcp_on_accept writes the greeting before anything else.    *)
TcpOnAccept ==
    /\ spc = "accept" /\ spc' = "run"
    /\ sent' = <<"greet">> /\ down' = WordsOf(1, "greet")
    /\ UNCHANGED <<s_out, s_in, receiver, up, got, next, torn, ups>>

(* A reply or a heartbeat is put into out_buf; replies only on request.    *)
Stage(kind) ==
    /\ Len(sent) < MaxSent /\ kind \in {"hb", "reply"} /\ (kind = "reply" => heard # <<>>)
    /\ sent' = Append(sent, kind) /\ s_out' = WordsOf(Len(sent'), kind)

(* mutants: out_buf is filled again although something remains in it; a    *)
(* message is written only when all of it fits                             *)
TcpOnWrite_Early ==
    /\ spc = "run" /\ Len(down) < DownCap
    /\ LET n == Least(Len(s_out), DownCap - Len(down)) IN
          /\ down' = down \o Upto(s_out, n)
          /\ \/ s_out' = From(s_out, n) /\ UNCHANGED sent
             \/ \E kind \in Kinds : Stage(kind)
    /\ UNCHANGED <<spc, s_in, receiver, up, got, next, torn, ups>>

TcpOnWrite_Whole ==
    /\ spc = "run" /\ Len(down) < DownCap
    /\ LET n == IF Len(s_out) <= DownCap - Len(down) THEN Len(s_out) ELSE 0 IN
          /\ down' = down \o Upto(s_out, n)
          /\ \/ s_out' = From(s_out, n) /\ UNCHANGED sent
             \/ From(s_out, n) = <<>> /\ \E kind \in Kinds : Stage(kind)
    /\ UNCHANGED <<spc, s_in, receiver, up, got, next, torn, ups>>

(* tcp_on_write: as much as the connection takes, and when all is written  *)
(* the next message, if there is one.                                      *)
TcpOnWrite ==
    /\ spc = "run" /\ Len(down) < DownCap
    /\ LET n == Least(Len(s_out), DownCap - Len(down)) IN
          /\ down' = down \o Upto(s_out, n)
          /\ \/ s_out' = From(s_out, n) /\ UNCHANGED sent
             \/ From(s_out, n) = <<>> /\ \E kind \in Kinds : Stage(kind)
    /\ UNCHANGED <<spc, s_in, receiver, up, got, next, torn, ups>>

(* A request as the sender understands two words. *)
IsWhole(ws) == \A k \in 1..Len(ws) : ws[k] = Word(ws[1].m, k)
LowOf(w) == IF w.k = 1 THEN asked[w.m].low ELSE asked[w.m].high

(* mutant: in_next is not set back behind a complete range *)
SenderRead_KeepsLast(n) ==
    /\ spc = "run" /\ n <= Least(Len(up), 2 - Len(s_in))
    /\ up' = From(up, n)
    /\ LET ws == s_in \o Upto(up, n) IN
          IF Len(ws) < 2 THEN s_in' = ws /\ UNCHANGED <<spc, heard, heeded>>
          ELSE /\ s_in' = <<ws[2]>>
               /\ IF LowOf(ws[1]) < LowOf(ws[2])
                  THEN /\ heard' = Append(heard, IF IsWhole(ws) THEN asked[ws[1].m] ELSE GarbledRange)
                       /\ heeded' = heeded + 1 /\ UNCHANGED spc
                  ELSE spc' = "closed" /\ UNCHANGED <<heard, heeded>>
    /\ UNCHANGED <<s_out, receiver, down, downs, asked, utorn>>

(* tcp_on_read of the sender: a complete range is taken or, if it is not   *)
(* valid, a protocol error that ends the client.                           *)
SenderRead(n) ==
    /\ spc = "run" /\ n <= Least(Len(up), 2 - Len(s_in))
    /\ up' = From(up, n)
    /\ LET ws == s_in \o Upto(up, n) IN
          IF Len(ws) < 2 THEN s_in' = ws /\ UNCHANGED <<spc, heard, heeded>>
          ELSE /\ s_in' = <<>>
               /\ IF LowOf(ws[1]) < LowOf(ws[2])
                  THEN /\ heard' = Append(heard, IF IsWhole(ws) THEN asked[ws[1].m] ELSE GarbledRange)
                       /\ heeded' = heeded + 1 /\ UNCHANGED spc
                  ELSE spc' = "closed" /\ UNCHANGED <<heard, heeded>>
    /\ UNCHANGED <<s_out, receiver, down, downs, asked, utorn>>

(* tcp_will_quit_func puts the farewell into out_buf whatever is there: a  *)
(* message not begun is dropped, one begun is torn.                        *)
WillQuit ==
    /\ spc = "run" /\ spc' = "telling"
    /\ LET begun == s_out # <<>> /\ s_out[1].k > 1
           whole == s_out # <<>> /\ s_out[1].k = 1
       IN /\ sent' = IF whole THEN [sent EXCEPT ![Len(sent)] = "quit"] ELSE Append(sent, "quit")
          /\ torn' = (torn \/ begun)
    /\ s_out' = WordsOf(Len(sent'), "quit")
    /\ UNCHANGED <<s_in, receiver, down, up, got, next, ups>>

(* It is tried again as long as the connection is full. *)
WriteQuit ==
    /\ spc = "telling" /\ Len(down) < DownCap
    /\ down' = down \o s_out /\ s_out' = <<>> /\ spc' = "told"
    /\ UNCHANGED <<s_in, receiver, up, downs, ups>>

(* close_sock_func, a second later *)
SenderClose ==
    /\ spc = "told" /\ spc' = "closed"
    /\ UNCHANGED <<s_out, s_in, receiver, down, up, downs, ups>>

(* mutant: the farewell is tried again after any failure *)
SenderHup_Running ==
    /\ spc = "run" /\ ~Up(rpc)
    /\ \/ spc' = "closed"
       \/ s_out # <<>> /\ spc' = "killed"
    /\ UNCHANGED <<s_out, s_in, receiver, down, up, downs, ups>>

(* The receiver is gone: reading or writing fails, or the writing raises   *)
(* SIGPIPE, which nobody handles.                                          *)
SenderHup ==
    /\ spc \in {"run", "telling"} /\ ~Up(rpc)
    /\ \/ spc' = "closed"
       \/ s_out # <<>> /\ spc' = "killed"
    /\ UNCHANGED <<s_out, s_in, receiver, down, up, downs, ups>>

SenderDies ==
    /\ Up(spc) /\ spc' = "killed"
    /\ UNCHANGED <<s_out, s_in, receiver, down, up, downs, ups>>

-----------------------------------------------------------------------------
(* The receiver.  init reads the greeting with one read, which takes       *)
(* whatever has arrived: less is an error or a description cut short, more *)
(* is taken for a part of the description.                                 *)
ReadGreeting(n) ==
    /\ rpc = "greet" /\ n <= Len(down) /\ down' = From(down, n)
    /\ \/ n >= 2 /\ rpc' = "run" /\ got' = <<"greet">> /\ next' = n /\ UNCHANGED torn
       \/ n = 1 /\ rpc' = "run" /\ got' = <<"greet">> /\ next' = 2 /\ torn' = TRUE
       \/ n = 1 /\ rpc' = "ended" /\ UNCHANGED <<got, next, torn>>
    /\ UNCHANGED <<sender, r_out, r_in, up, sent, ups>>

(* The first word of a message is a sequence number.  A word that is not   *)
(* the first of its message is taken for one that announces a reply.       *)
Announces(w) == IF w.k = 1 THEN sent[w.m] ELSE "reply"

TakeMessage(m) == got' = Append(got, m) /\ next' = next + 1

(* tcp_on_read of the receiver: a sequence number first; the farewell      *)
(* stops the receiver, a heartbeat is done with, anything else is followed *)
(* by an identifier and a value, which update a record.                    *)
ReceiverRead(n) ==
    /\ rpc = "run"
    /\ n <= Least(Len(down), (IF r_in = <<>> THEN 1 ELSE 3) - Len(r_in))
    /\ down' = From(down, n)
    /\ LET ws == r_in \o Upto(down, n) IN
          CASE Len(ws) = 1 /\ Announces(ws[1]) = "quit" ->
                 rpc' = "ended" /\ r_in' = <<>> /\ TakeMessage("quit")
            [] Len(ws) = 1 /\ Announces(ws[1]) = "hb" ->
                 r_in' = <<>> /\ TakeMessage("hb") /\ UNCHANGED rpc
            [] Len(ws) < 3 /\ Announces(ws[1]) \notin {"quit", "hb"} ->
                 r_in' = ws /\ UNCHANGED <<rpc, got, next>>
            [] OTHER ->
                 /\ r_in' = <<>> /\ UNCHANGED rpc
                 /\ TakeMessage(IF IsWhole(ws) THEN sent[ws[1].m] ELSE Garbled)
    /\ UNCHANGED <<sender, r_out, up, sent, torn, ups>>

LastHigh == IF asked = <<>> THEN 0 ELSE asked[Len(asked)].high

(* request_gap puts a request for the numbers missed into out_buf whatever *)
(* is there, so one not begun is replaced and one begun is torn.           *)
RequestGap(low) ==
    /\ rpc = "run" /\ LastHigh < MaxAsked /\ low \in {LastHigh, LastHigh + 1}
    /\ LET whole == Len(r_out) = 2
           range == [low |-> low, high |-> low + 1]
       IN /\ asked' = IF whole THEN [asked EXCEPT ![Len(asked)] = range] ELSE Append(asked, range)
          /\ utorn' = (utorn \/ Len(r_out) = 1)
    /\ r_out' = <<Word(Len(asked'), 1), Word(Len(asked'), 2)>>
    /\ UNCHANGED <<sender, rpc, r_in, down, up, downs, heard, heeded>>

(* tcp_on_write of the receiver *)
ReceiverWrite ==
    /\ rpc = "run" /\ r_out # <<>> /\ Len(up) < UpCap
    /\ LET n == Least(Len(r_out), UpCap - Len(up)) IN
          up' = up \o Upto(r_out, n) /\ r_out' = From(r_out, n)
    /\ UNCHANGED <<sender, rpc, r_in, down, downs, ups>>

(* The sender is gone: the end of the connection is read, or SIGPIPE. *)
ReceiverEOF ==
    /\ rpc \in {"greet", "run"} /\ ~Up(spc)
    /\ \/ down = <<>> /\ rpc' = "ended"
       \/ r_out # <<>> /\ rpc' = "killed"
    /\ UNCHANGED <<sender, r_out, r_in, down, up, downs, ups>>

(* receiver_stop, a signal, no heartbeat or the alarm of init *)
ReceiverEnds ==
    /\ Up(rpc) /\ rpc' = "ended"
    /\ UNCHANGED <<sender, r_out, r_in, down, up, downs, ups>>

(* A connection closed before all was read is reset, and what the other    *)
(* side has not read yet may be lost.                                      *)
Reset ==
    /\ ~Up(spc) /\ up # <<>> /\ down # <<>> /\ down' = <<>>
    /\ UNCHANGED <<sender, receiver, up, downs, ups>>

Sender == TcpOnAccept \/ TcpOnWrite \/ WriteQuit \/ SenderClose \/ SenderHup
          \/ \E n \in 1..2 : SenderRead(n)
Receiver == ReceiverWrite \/ ReceiverEOF
            \/ \E n \in 1..DownCap : ReadGreeting(n) \/ ReceiverRead(n)

Next ==
    \/ Sender \/ Receiver \/ WillQuit \/ SenderDies \/ ReceiverEnds \/ Reset
    \/ \E low \in 0..MaxAsked : RequestGap(low)

(* Both processes run, and poll reports what is ready. *)
Fairness ==
    /\ WF_vars(TcpOnAccept) /\ WF_vars(TcpOnWrite) /\ WF_vars(WriteQuit \/ SenderClose \/ SenderHup)
    /\ WF_vars(\E n \in 1..2 : SenderRead(n))
    /\ WF_vars(ReceiverWrite) /\ WF_vars(ReceiverEOF)
    /\ WF_vars(\E n \in 1..DownCap : ReadGreeting(n) \/ ReceiverRead(n))

Spec == Init /\ [][Next]_vars /\ Fairness

-----------------------------------------------------------------------------
Requests == [low : 0..(MaxAsked + 1), high : 0..(MaxAsked + 2)]

DownChannel == INSTANCE Channel WITH Messages <- Kinds
UpChannel == INSTANCE Channel WITH
    Messages <- Requests, Garbled <- GarbledRange, sent <- asked, got <- heard, next <- heeded, torn <- utorn

(* Messages from the sender reach the receiver whole and in order however  *)
(* writing and reading divide them, as Channel says: until a farewell      *)
(* tears the reply that was being written (tcp_will_quit_func) or the      *)
(* greeting was read in part.                                              *)
MessagesWhole == DownChannel!Spec

(* Requests reach the sender whole and in order, but for those that        *)
(* request_gap replaced before any of it was written, until one tears the  *)
(* request that was being written.                                         *)
RequestsWhole == UpChannel!Spec

(* Whatever is in the connection or in out_buf when the sender begins its  *)
(* farewell, both ends close.                                              *)
FarewellEnds == spc = "telling" ~> ~Up(spc) /\ ~Up(rpc)

(* A message put into the sender's out_buf is taken by the receiver, or    *)
(* replaced, or the connection ends, as long as nothing was torn.          *)
Delivered == \A i \in 1..MaxSent : Len(sent) >= i ~> next > i \/ torn \/ ~Up(rpc)
=============================================================================
