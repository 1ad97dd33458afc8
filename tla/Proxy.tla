--------------------------------- MODULE Proxy ---------------------------------
(***************************************************************************)
(* A connection through the development proxy: the dialer of               *)
(* pkg/proxy/dialer.go asks the proxy of pkg/proxy/proxy.go for a          *)
(* connection to the API server and returns it as its own; the proxy       *)
(* copies bytes both ways until both directions have ended.                *)
(*                                                                         *)
(* c1 is the connection between the dialer and the proxy, c2 the one       *)
(* between the proxy and the target.  Each direction of each is a sequence *)
(* of bytes; bytes are numbered in the order their sender writes them.     *)
(* Two buffered readers stand on c1, one at either end, and what they have *)
(* read must not be lost: the dialer's, which parsed the proxy's answer,   *)
(* and that of net/http, which watches c1 for its end until Hijack.        *)
(***************************************************************************)
EXTENDS Naturals, Sequences, SequencesExt

CONSTANT MaxBytes  \* bound on the bytes each end sends

ASSUME MaxBytesIsNat == MaxBytes \in Nat

VARIABLES
    client,  \* the dialer, then whoever uses the connection it returned
    r,       \* conn.r: the bytes the dialer's reader has taken and not given
    server,  \* where proxyHandler stands
    buf,     \* the bytes net/http's reader has taken from c1
    copier,  \* the goroutine that copies c1 to c2
    target,  \* the API server's end
    wire,    \* what is under way, by connection and direction
    sent,    \* how many bytes each end has sent
    got,     \* what each end has received
    broken   \* the connections that were reset

ends == <<client, target, sent, got>>
vars == <<client, r, server, buf, copier, target, wire, sent, got, broken>>

Byte == 1..MaxBytes
Eof == 0                   \* the end of a stream
Connect == MaxBytes + 1    \* the CONNECT request
Accepted == MaxBytes + 2   \* status 200
Rejected == MaxBytes + 3   \* any other status

Conns == {"c1", "c2"}
Wires == {"c1up", "c1down", "c2up", "c2down"}  \* up: towards the target
Of(c) == IF c = "c1" THEN {"c1up", "c1down"} ELSE {"c2up", "c2down"}

Init ==
    /\ client = "dialing" /\ r = << >>
    /\ server = "idle" /\ buf = << >> /\ copier = "none"
    /\ target = "none"
    /\ wire = [w \in Wires |-> << >>]
    /\ sent = [e \in {"client", "target"} |-> 0]
    /\ got = [e \in {"client", "target"} |-> << >>]
    /\ broken = {}

-----------------------------------------------------------------------------
\* What is written to a connection that was reset goes nowhere.
Lost(w) == \E c \in broken : w \in Of(c)
Put(ws, w, x) == IF Lost(w) THEN ws ELSE [ws EXCEPT ![w] = Append(@, x)]
Take(ws, w) == [ws EXCEPT ![w] = Tail(@)]
Waits(w) == wire[w] # << >>
SawEof(e) == got[e] # << >> /\ Last(got[e]) = Eof

\* DialContext up to the request: the proxy is dialled, TLS is agreed on, and
\* CONNECT is written; or that fails.
Dial ==
    /\ client = "dialing"
    /\ \/ client' = "awaiting" /\ wire' = Put(wire, "c1up", Connect)
       \/ client' = "failed" /\ UNCHANGED wire
    /\ UNCHANGED <<r, server, buf, copier, target, sent, got, broken>>

\* What the reader still holds of the first n messages once the answer is
\* parsed.
AfterAnswer(s, n) == SubSeq(s, 2, n)

\* http.ReadResponse: the reader takes the answer and what has come with it.
\* A status other than 200 closes the connection.
ReadResponse ==
    /\ client = "awaiting"
    /\ \/ /\ Waits("c1down") /\ Head(wire["c1down"]) = Accepted
          /\ \E n \in 1..Len(wire["c1down"]) :
               /\ \A i \in 2..n : wire["c1down"][i] # Eof
               /\ r' = AfterAnswer(wire["c1down"], n)
               /\ wire' = [wire EXCEPT !["c1down"] = SubSeq(@, n + 1, Len(@))]
          /\ client' = "open"
       \/ /\ (Waits("c1down") /\ Head(wire["c1down"]) = Rejected) \/ "c1" \in broken
          /\ client' = "failed"
          /\ wire' = Put(wire, "c1up", Eof)
          /\ UNCHANGED r
    /\ UNCHANGED <<server, buf, copier, target, sent, got, broken>>

\* proxyHandler: the request is validated before anything is dialled.
ValidateProxyRequest ==
    /\ server = "idle"
    /\ Waits("c1up") /\ Head(wire["c1up"]) = Connect
    /\ \/ server' = "valid" /\ wire' = Take(wire, "c1up")
       \/ /\ server' = "refused"
          /\ wire' = Put(Take(wire, "c1up"), "c1down", Rejected)
    /\ UNCHANGED <<client, r, buf, copier, target, sent, got, broken>>

\* utilnet.Dial of the target, with an answer of its own when it fails.
DialTarget ==
    /\ server = "valid"
    /\ \/ server' = "dialled" /\ target' = "open" /\ UNCHANGED wire
       \/ /\ server' = "refused"
          /\ wire' = Put(wire, "c1down", Rejected)
          /\ UNCHANGED target
    /\ UNCHANGED <<client, r, buf, copier, sent, got, broken>>

\* WriteHeader, and the first half of Hijack: the answer is flushed.
WriteHeader ==
    /\ server = "dialled"
    /\ server' = "flushed"
    /\ wire' = Put(wire, "c1down", Accepted)
    /\ UNCHANGED <<ends, r, buf, copier, broken>>

\* net/http's background read takes the byte the client sends first, if it
\* comes before Hijack stops it.
BackgroundRead ==
    /\ server = "flushed"
    /\ buf = << >> /\ Waits("c1up") /\ Head(wire["c1up"]) # Eof
    /\ buf' = << Head(wire["c1up"]) >>
    /\ wire' = Take(wire, "c1up")
    /\ UNCHANGED <<ends, r, server, copier, broken>>

\* What the goroutine copies from.  Mutated: c1 itself, although Hijack has
\* handed over a reader that may hold bytes of it.
FromC1 == << >>
FromBuf == buf

\* Hijack returns c1 and the reader; both copies start.
Hijack ==
    /\ server = "flushed"
    /\ server' = "copying"
    /\ copier' = "copying"
    /\ buf' = FromBuf
    /\ UNCHANGED <<ends, r, wire, broken>>

\* CloseWrite of c2, deferred in the goroutine.  Mutated: it is left out.
StaysOpen(ws) == ws
CloseWrite(ws) == Put(ws, "c2up", Eof)

\* io.Copy(c2, buf): what the reader holds, then c1, one byte at a time.
CopyUp ==
    /\ copier = "copying"
    /\ buf # << >> \/ Waits("c1up")
    /\ LET x == IF buf # << >> THEN buf[1] ELSE Head(wire["c1up"])
           rest == IF buf # << >> THEN wire ELSE Take(wire, "c1up")
       IN /\ x # Eof /\ target # "closed" /\ "c2" \notin broken
          /\ wire' = Put(rest, "c2up", x)
          /\ buf' = IF buf # << >> THEN Tail(buf) ELSE buf
    /\ UNCHANGED <<ends, r, server, copier, broken>>

\* The copy ends: at the end of c1, at a write nobody takes, at an error of
\* either connection, which is dropped.  CloseWrite, then wg.Done.
CopyUpEnds ==
    /\ copier = "copying"
    /\ \/ buf = << >> /\ Waits("c1up") /\ Head(wire["c1up"]) = Eof
       \/ buf = << >> /\ "c1" \in broken
       \/ /\ buf # << >> \/ Waits("c1up")
          /\ target = "closed" \/ "c2" \in broken
    /\ copier' = "done"
    /\ wire' = CloseWrite(wire)
    /\ UNCHANGED <<ends, r, server, buf, broken>>

\* io.Copy(c1, c2) in the handler itself.
CopyDown ==
    /\ server = "copying"
    /\ Waits("c2down") /\ Head(wire["c2down"]) # Eof
    /\ client # "closed" /\ "c1" \notin broken
    /\ wire' = Put(Take(wire, "c2down"), "c1down", Head(wire["c2down"]))
    /\ UNCHANGED <<ends, r, server, buf, copier, broken>>

\* That copy ends, and CloseWrite of c1 with it, deferred last and run first.
CopyDownEnds ==
    /\ server = "copying"
    /\ \/ Waits("c2down") /\ Head(wire["c2down"]) = Eof
       \/ Waits("c2down") /\ (client = "closed" \/ "c1" \in broken)
       \/ "c2" \in broken
    /\ server' = "waiting"
    /\ wire' = Put(wire, "c1down", Eof)
    /\ UNCHANGED <<ends, r, buf, copier, broken>>

\* wg.Wait before the deferred closes.  Mutated: they do not wait.
AtOnce == TRUE
BothEnded == copier = "done"

\* The deferred c1.Close and c2.Close; a copy that is still at work meets a
\* closed connection.
Return ==
    /\ server = "waiting"
    /\ BothEnded
    /\ server' = "done"
    /\ copier' = "done"
    /\ wire' = Put(Put(wire, "c1down", Eof), "c2up", Eof)
    /\ UNCHANGED <<ends, r, buf, broken>>

-----------------------------------------------------------------------------
(* The two ends.                                                           *)

ClientSends ==
    /\ client = "open" /\ "c1" \notin broken
    /\ sent["client"] < MaxBytes
    /\ sent' = [sent EXCEPT !["client"] = @ + 1]
    /\ wire' = Put(wire, "c1up", sent'["client"])
    /\ UNCHANGED <<client, target, got, r, server, buf, copier, broken>>

\* conn.Read.  Mutated: it is the one of the connection it wraps.
FromConn == << >>
FromR == r

\* What is in the reader comes first, then the connection.
ClientReads ==
    /\ client = "open" /\ ~SawEof("client")
    /\ IF FromR # << >>
       THEN /\ got' = [got EXCEPT !["client"] = Append(@, FromR[1])]
            /\ r' = Tail(r)
            /\ UNCHANGED wire
       ELSE /\ Waits("c1down")
            /\ got' = [got EXCEPT !["client"] = Append(@, Head(wire["c1down"]))]
            /\ wire' = Take(wire, "c1down")
            /\ UNCHANGED r
    /\ UNCHANGED <<client, target, sent, server, buf, copier, broken>>

\* The user of the connection closes it, both ways: conn offers no CloseWrite.
ClientCloses ==
    /\ client = "open"
    /\ client' = "closed"
    /\ wire' = Put(wire, "c1up", Eof)
    /\ UNCHANGED <<target, sent, got, r, server, buf, copier, broken>>

TargetSends ==
    /\ target = "open" /\ "c2" \notin broken
    /\ sent["target"] < MaxBytes
    /\ sent' = [sent EXCEPT !["target"] = @ + 1]
    /\ wire' = Put(wire, "c2down", sent'["target"])
    /\ UNCHANGED <<client, target, got, r, server, buf, copier, broken>>

TargetReads ==
    /\ target \in {"open", "quiet"} /\ ~SawEof("target")
    /\ Waits("c2up")
    /\ got' = [got EXCEPT !["target"] = Append(@, Head(wire["c2up"]))]
    /\ wire' = Take(wire, "c2up")
    /\ UNCHANGED <<client, target, sent, r, server, buf, copier, broken>>

\* The target ends its own stream and goes on reading, or closes.
TargetEnds ==
    /\ target = "open"
    /\ target' \in {"quiet", "closed"}
    /\ wire' = Put(wire, "c2down", Eof)
    /\ UNCHANGED <<client, sent, got, r, server, buf, copier, broken>>

TargetCloses ==
    /\ target = "quiet"
    /\ target' = "closed"
    /\ UNCHANGED <<client, sent, got, r, server, buf, copier, wire, broken>>

\* A connection is reset; what is under way on it is lost.
Break ==
    /\ \E c \in Conns \ broken :
         /\ c = "c1" => client # "dialing"
         /\ c = "c2" => target # "none"
         /\ broken' = broken \cup {c}
         /\ wire' = [w \in Wires |-> IF w \in Of(c) THEN << >> ELSE wire[w]]
    /\ UNCHANGED <<ends, r, server, buf, copier>>

-----------------------------------------------------------------------------
Handler ==
    \/ ValidateProxyRequest \/ DialTarget \/ WriteHeader \/ Hijack
    \/ CopyDown \/ CopyDownEnds \/ Return
Goroutine == CopyUp \/ CopyUpEnds

Next ==
    \/ Dial \/ ReadResponse
    \/ Handler \/ Goroutine \/ BackgroundRead
    \/ ClientSends \/ ClientReads \/ ClientCloses
    \/ TargetSends \/ TargetReads \/ TargetEnds \/ TargetCloses
    \/ Break

Spec == Init /\ [][Next]_vars

\* The proxy's goroutines are scheduled.  The ends read, and they close when
\* they see the end of the other's stream or an error; before that they may
\* stay silent for ever.
MustClose(e, c) == SawEof(e) \/ c \in broken
FairSpec ==
    /\ Spec
    /\ WF_vars(Handler) /\ WF_vars(Goroutine) /\ WF_vars(ReadResponse)
    /\ WF_vars(ClientReads) /\ WF_vars(TargetReads)
    /\ WF_vars(MustClose("client", "c1") /\ ClientCloses)
    /\ WF_vars(MustClose("target", "c2") /\ (TargetEnds \/ TargetCloses))

-----------------------------------------------------------------------------
(* Properties.                                                             *)

\* The bytes an end has received, without the end of the stream.
Data(e) == IF SawEof(e) THEN Front(got[e]) ELSE got[e]
Stream(n) == [i \in 1..n |-> i]

\* Either end receives what the other has sent, from its first byte and in its
\* order, whichever of the readers on the way held it; and while no connection
\* is reset, an end that sees the end of the stream has received all of it.
StreamsAreWhole ==
    \A e, f \in {"client", "target"} : e # f =>
        /\ IsPrefix(Data(e), Stream(sent[f]))
        /\ SawEof(e) /\ broken = {} => Data(e) = Stream(sent[f])

\* A dialer that awaits the proxy's answer gets one, and a connection that one
\* of its ends has closed, or that is reset, is closed at the other end as well
\* and the handler returns: no half of it is left behind.
ClosesInTheEnd ==
    /\ client = "awaiting" ~> client # "awaiting"
    /\ (server \in {"copying", "waiting"}
        /\ (client = "closed" \/ target = "closed" \/ broken # {}))
           ~> server = "done"

================================================================================
