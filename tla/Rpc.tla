--------------------------------- MODULE Rpc ---------------------------------
(***************************************************************************)
(* spe_rpc.c: requests cut out of the bytes of one connection.             *)
(*                                                                         *)
(* A request is "*n", the number of its parameters, and for each "$k" and  *)
(* k bytes, every part with CR LF behind it.  The client sends requests    *)
(* one after the other, or something else; the connection delivers the     *)
(* bytes in any pieces, one piece for each SpeConnRead, and may end        *)
(* instead.  (SpeConnRead and SpeConnDestroy are those of an older         *)
(* interface of the connections; of that only this is used.)               *)
(***************************************************************************)
EXTENDS Bytes, TLC

CONSTANTS
  Streams,   \* what clients send: the requests meant, and something wrong behind them
  Commands   \* names with a handler

VARIABLE rpc
\* stream: history            sent: bytes that have not come yet
\* buf: ReadBuffer            status, paramLeft, dataLeft, request: the parser's
\* at: who has the connection now     served: history, requests handled
\* replies: history, types of the answers     fresh: history, is buf not looked at?

CRLF == <<"\r", "\n">>
Digits(n) == <<ToString(n)>>   \* of a number below 10
Part(mark, n) == <<mark>> \o Digits(n) \o CRLF

Encoded(params) ==
  Part("*", Len(params)) \o
  FlattenSeq([i \in DOMAIN params |-> Part("$", Len(params[i])) \o params[i] \o CRLF])

\* rpcHandler
Start(s) ==
  [stream |-> s,
   sent |-> FlattenSeq([i \in DOMAIN s.means |-> Encoded(s.means[i])]) \o s.wrong,
   buf |-> <<>>, status |-> "STAR", paramLeft |-> 0, dataLeft |-> 0,
   request |-> <<>>, at |-> "read", served |-> <<>>, replies |-> <<>>, fresh |-> FALSE]
Init == \E s \in Streams : rpc = Start(s)

\* checkToken: the bytes before the first CR LF, -1 if there is none.
CheckToken(buf) ==
  LET at == {i \in 1..Len(buf) - 1 : SubSeq(buf, i, i + 1) = CRLF}
  IN IF at = {} THEN -1 ELSE Min(at) - 1

\* atoi, of a digit with or without a sign.
Atoi(s) ==
  LET digit(c) == {n \in 0..9 : ToString(n) = c}
      value(t) == IF t = <<>> \/ digit(t[1]) = {} THEN 0 ELSE CHOOSE n \in digit(t[1]) : TRUE
  IN IF s # <<>> /\ s[1] = "-" THEN 0 - value(Tail(s)) ELSE value(s)

Pos     == CheckToken(rpc.buf)
Number  == Atoi(SubSeq(rpc.buf, 2, Pos))
Skipped(r, n) == [r EXCEPT !.buf = From(@, n)]
Gone(r) == [r EXCEPT !.at = "gone", !.buf = <<>>, !.request = <<>>]

\* The connection calls rpcParse: with more bytes, or at its end.
Arrive ==
  /\ rpc.at = "read"
  /\ \/ \E n \in 1..Len(rpc.sent) :
          rpc' = [rpc EXCEPT !.buf = @ \o First(rpc.sent, n), !.sent = From(@, n),
                             !.at = "parse", !.fresh = FALSE]
     \/ rpc' = Gone(rpc)

\* rpcParse has no whole part left.
ParseWaits == rpc.at = "parse" /\ Pos = -1 /\ rpc' = [rpc EXCEPT !.at = "read"]

\* A count, of parameters or of bytes.
ParseCount(status, mark, least, r, next) ==
  /\ rpc.at = "parse" /\ Pos # -1 /\ rpc.status = status
  /\ rpc' = IF Pos < 2 \/ rpc.buf[1] # mark \/ Number < least THEN Gone(rpc)
            ELSE Skipped([r EXCEPT !.status = next], Pos + 2)

ParseStar == ParseCount("STAR", "*", 1, [rpc EXCEPT !.paramLeft = Number], "PARM")
ParseParm == ParseCount("PARM", "$", 0, [rpc EXCEPT !.dataLeft = Number], "DATA")

\* CR LF inside the data: what it ends is a piece of the parameter.  A slip
\* takes no account of the CR LF.
CountedWithout(left, pos) == left - pos
Counted(left, pos) == left - (pos + 2)

ParsePiece ==
  /\ rpc.at = "parse" /\ Pos # -1 /\ rpc.status = "DATA" /\ Pos # rpc.dataLeft
  /\ rpc' = IF Pos > rpc.dataLeft THEN Gone(rpc)
            ELSE Skipped([rpc EXCEPT !.request = Append(@, First(rpc.buf, Pos + 2)),
                                     !.dataLeft = Counted(@, Pos)], Pos + 2)

Reply(r, type) ==
  [r EXCEPT !.replies = Append(@, type), !.request = <<>>, !.at = "read", !.fresh = TRUE]

\* The last piece of a parameter; behind the last parameter comes rpcProcess.
ParseData ==
  /\ rpc.at = "parse" /\ Pos # -1 /\ rpc.status = "DATA" /\ Pos = rpc.dataLeft
  /\ LET r == Skipped([rpc EXCEPT !.request = Append(@, First(rpc.buf, Pos)),
                                  !.paramLeft = @ - 1], Pos + 2)
         whole == [r EXCEPT !.status = "STAR", !.served = Append(@, r.request)]
     IN rpc' = IF r.paramLeft > 0 THEN [r EXCEPT !.status = "PARM"]
               ELSE IF UpToNUL(r.request[1]) \in Commands THEN [whole EXCEPT !.at = "handle"]
               ELSE Reply(whole, "ERR")

\* SpeRPCDone, which a handler calls sooner or later.  The two bulk types are
\* answered with nothing.
SpeRPCDone ==
  /\ rpc.at = "handle"
  /\ \E type \in {"OK", "ERR", "NUM", "BULK"} : rpc' = Reply(rpc, type)

Next ==
  \/ Arrive \/ ParseWaits \/ ParseStar \/ ParseParm \/ ParsePiece \/ ParseData \/ SpeRPCDone

Spec == Init /\ [][Next]_rpc
----------------------------------------------------------------------------
\* A parameter as handlers get it: cut behind every CR LF in it.
Cuts(param) ==
  LET ends == {i \in 2..Len(param) : SubSeq(param, i - 1, i) = CRLF} \cup {0}
      at   == SetToSortSeq(ends, <)
  IN [k \in DOMAIN at |-> SubSeq(param, at[k] + 1,
                                  IF k = Len(at) THEN Len(param) ELSE at[k + 1])]

Means  == rpc.stream.means
Served == Len(rpc.served)
Bytes(n) == Len(FlattenSeq([i \in 1..n |-> Encoded(Means[i])]))
Taken  == Bytes(Len(Means)) + Len(rpc.stream.wrong) - Len(rpc.sent) - Len(rpc.buf)

\* However the bytes come, the requests handled are those the client meant, one
\* at a time and in order; each is answered before the next is looked at; no
\* request is cut off or refused because of where a piece ended, and what
\* is wrong ends the connection.  Parameters with CR LF in them come in pieces
\* (spe_rpc.c:40-94).
RequestsAsMeant ==
  /\ Served <= Len(Means)
  /\ \A i \in 1..Served :
       rpc.served[i] = FlattenSeq([k \in DOMAIN Means[i] |-> Cuts(Means[i][k])])
  /\ Len(rpc.replies) = Served - (IF rpc.at = "handle" THEN 1 ELSE 0)
  /\ rpc.at # "gone" =>
       /\ Bytes(Served) <= Taken
       /\ Served < Len(Means) => Taken < Bytes(Served + 1)
       /\ rpc.at = "read" => Pos = -1 \/ rpc.fresh

\* Only the end of the connection, or something wrong in it, makes it go.
Patient ==
  [][rpc.at = "parse" /\ rpc'.at = "gone" => Served = Len(Means)]_rpc
RequestsFollow == []RequestsAsMeant /\ Patient
=============================================================================
