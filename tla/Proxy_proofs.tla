------------------------------ MODULE Proxy_proofs ------------------------------
(***************************************************************************)
(* Theorems about Proxy, for any number of bytes either end sends and for  *)
(* connections that are reset at any moment.                               *)
(***************************************************************************)
EXTENDS Proxy, SequenceTheorems, TLAPS

-----------------------------------------------------------------------------
(* The inductive invariant.                                                *)

Ends == {"client", "target"}
Answered == {"flushed", "copying", "waiting", "done"}

TypeInv ==
    /\ client \in {"dialing", "awaiting", "open", "closed", "failed"}
    /\ server \in {"idle", "valid", "dialled", "refused"} \cup Answered
    /\ copier \in {"none", "copying", "done"}
    /\ target \in {"none", "open", "quiet", "closed"}
    /\ r \in Seq(Nat) /\ buf \in Seq(Nat)
    /\ wire \in [Wires -> Seq(Nat)]
    /\ sent \in [Ends -> Nat]
    /\ got \in [Ends -> Seq(Nat)]
    /\ broken \subseteq Conns

\* How far the dialer, the handler and the target are, and what that says of
\* the connections: a connection is empty until it is used and when it is reset,
\* the request is the first message one way and the answer the other.
ControlInv ==
    /\ "c1" \in broken => wire["c1up"] = << >> /\ wire["c1down"] = << >>
    /\ "c2" \in broken => wire["c2up"] = << >> /\ wire["c2down"] = << >>
    /\ client = "dialing" => server = "idle" /\ wire["c1up"] = << >>
    /\ client \in {"dialing", "awaiting", "failed"} =>
         sent["client"] = 0 /\ got["client"] = << >> /\ r = << >>
    /\ client \in {"open", "closed"} => server \in Answered
    /\ client = "failed" => server \in {"idle", "refused"} \/ "c1" \in broken
    /\ server = "idle" => wire["c1up"] \in {<< >>, <<Connect>>}
    /\ server = "idle" /\ wire["c1up"] # << >> => client = "awaiting"
    /\ server \in {"idle", "valid", "refused"} <=> target = "none"
    /\ target = "none" => /\ sent["target"] = 0 /\ got["target"] = << >>
                          /\ wire["c2up"] = << >> /\ wire["c2down"] = << >>
    /\ copier = "none" <=> server \notin Answered \ {"flushed"}
    /\ server \in {"idle", "valid", "dialled"} => wire["c1down"] = << >> /\ buf = << >>
    /\ server = "refused" => buf = << >>
    /\ server \in {"valid", "dialled"} => wire["c1up"] = << >>
    /\ client = "awaiting" /\ server = "refused" =>
         wire["c1down"] = << >> \/ wire["c1down"][1] = Rejected
    /\ client = "awaiting" /\ server \in Answered /\ "c1" \notin broken =>
         wire["c1down"] # << >> /\ wire["c1down"][1] = Accepted

\* From its message o + 1 on, s holds bytes with their numbers, up to m, b of
\* them before s, and ends of the stream; such an end comes after byte m; there
\* is none.
Line(s, o, b, m) ==
    \A i \in (o + 1)..Len(s) : s[i] = Eof \/ (s[i] = b + i /\ b + i <= m)
Shut(s, o, b, m) == \A i \in (o + 1)..Len(s) : s[i] = Eof => b + i > m
Open(s, o) == \A i \in (o + 1)..Len(s) : s[i] # Eof

\* What an end has received: bytes, then perhaps the end of the stream, which
\* is after the last of them unless a connection was reset.
Received(e, m, over) ==
    /\ \A i \in 1..Len(got[e]) :
         \/ got[e][i] = i /\ i <= m
         \/ i = Len(got[e]) /\ got[e][i] = Eof
    /\ SawEof(e) /\ broken = {} => Len(got[e]) = m + 1 /\ over

\* From the target to the client, as long as the client may read.  The answer,
\* until it is read, is in front of the bytes on c1.
TargetIsOver == target \in {"quiet", "closed"}
Answer == IF client = "awaiting" /\ server \in Answered THEN 1 ELSE 0
Base == Len(got["client"]) + Len(r) - Answer
Copied == Base + Len(wire["c1down"])
DownIsLive ==
    client \in {"dialing", "awaiting", "open"} /\ server # "refused" /\ ~SawEof("client")
HeldDown == Line(r, 0, Len(got["client"]), sent["target"]) /\ Open(r, 0)
OnC1Down ==
    /\ Line(wire["c1down"], Answer, Base, sent["target"])
    /\ broken = {} => /\ Shut(wire["c1down"], Answer, Base, sent["target"])
                      /\ TargetIsOver \/ Open(wire["c1down"], Answer)
OnC2Down ==
    broken = {} =>
        IF server \in {"waiting", "done"}
        THEN TargetIsOver /\ Copied > sent["target"]
        ELSE /\ Line(wire["c2down"], 0, Copied, sent["target"])
             /\ Shut(wire["c2down"], 0, Copied, sent["target"])
             /\ TargetIsOver \/ (/\ Copied + Len(wire["c2down"]) = sent["target"]
                                 /\ Open(wire["c2down"], 0))
DownInv ==
    /\ Received("client", sent["target"], TargetIsOver)
    /\ DownIsLive => HeldDown /\ OnC1Down /\ OnC2Down

\* From the client to the target, as long as the target may read.
Arrived == Len(got["target"]) + Len(wire["c2up"])
UpIsLive ==
    target # "closed" /\ server \notin {"idle", "refused"} /\ ~SawEof("target")
OnC2Up ==
    /\ Line(wire["c2up"], 0, Len(got["target"]), sent["client"])
    /\ broken = {} => /\ Shut(wire["c2up"], 0, Len(got["target"]), sent["client"])
                      /\ client = "closed" \/ Open(wire["c2up"], 0)
HeldUp ==
    "c2" \notin broken /\ copier # "done" =>
        /\ Line(buf, 0, Arrived, sent["client"]) /\ Open(buf, 0)
        /\ Line(wire["c1up"], 0, Arrived + Len(buf), sent["client"])
OnC1Up ==
    broken = {} =>
        IF copier = "done"
        THEN client = "closed" /\ Arrived > sent["client"]
        ELSE /\ Shut(wire["c1up"], 0, Arrived + Len(buf), sent["client"])
             /\ client = "closed"
                  \/ (/\ Arrived + Len(buf) + Len(wire["c1up"]) = sent["client"]
                      /\ Open(wire["c1up"], 0))
UpInv ==
    /\ Received("target", sent["client"], client = "closed")
    /\ UpIsLive => OnC2Up /\ HeldUp /\ OnC1Up

ProxyInv == TypeInv /\ ControlInv /\ DownInv /\ UpInv

-----------------------------------------------------------------------------
(* Messages.                                                               *)

(* The messages of a connection are numbers that are told apart.           *)
LEMMA Messages ==
  /\ Eof \in Nat /\ Connect \in Nat /\ Accepted \in Nat /\ Rejected \in Nat
  /\ Accepted # Rejected /\ Connect # Eof /\ Accepted # Eof /\ Rejected # Eof
  BY MaxBytesIsNat DEF Eof, Connect, Accepted, Rejected

(* The first message of a sequence, and the others.                        *)
LEMMA TailPoints ==
  ASSUME NEW s \in Seq(Nat), s # << >>
  PROVE  /\ Len(s) \in Nat \ {0} /\ Head(s) = s[1] /\ s[1] \in Nat
         /\ Tail(s) \in Seq(Nat) /\ Len(Tail(s)) = Len(s) - 1
         /\ \A i \in 1..(Len(s) - 1) : Tail(s)[i] = s[i + 1]
  BY EmptySeq, HeadTailProperties, ElementOfSeq

(* A message more.                                                         *)
LEMMA AppendPoints ==
  ASSUME NEW s \in Seq(Nat), NEW x \in Nat
  PROVE  /\ Append(s, x) \in Seq(Nat) /\ Len(s) \in Nat /\ Len(Append(s, x)) = Len(s) + 1
         /\ \A i \in 1..Len(s) : Append(s, x)[i] = s[i]
         /\ Append(s, x)[Len(s) + 1] = x
         /\ Append(s, x) # << >>
  BY AppendProperties, LenProperties

(* The next byte, or an end of the stream, continues a line.               *)
LEMMA LineAppend ==
  ASSUME NEW s \in Seq(Nat), NEW o \in {0, 1}, NEW b \in Int, NEW m \in Nat, NEW x \in Nat
  PROVE  /\ Line(s, o, b, m) /\ (x = Eof \/ (x = b + Len(s) + 1 /\ x <= m))
                => Line(Append(s, x), o, b, m)
         /\ Shut(s, o, b, m) /\ (x = Eof => b + Len(s) + 1 > m)
                => Shut(Append(s, x), o, b, m)
         /\ Open(s, o) /\ x # Eof => Open(Append(s, x), o)
<1> DEFINE t == Append(s, x)
<1>1. /\ Len(s) \in Nat /\ Len(t) = Len(s) + 1 /\ t[Len(s) + 1] = x
      /\ \A i \in 1..Len(s) : t[i] = s[i]
  BY AppendPoints
<1> HIDE DEF t
<1>2. \A i \in (o + 1)..Len(t) : i = Len(s) + 1 \/ (i \in (o + 1)..Len(s) /\ t[i] = s[i])
  BY <1>1
<1>3. Line(s, o, b, m) /\ (x = Eof \/ (x = b + Len(s) + 1 /\ x <= m)) => Line(t, o, b, m)
  BY <1>1, <1>2, SMTT(30) DEF Line
<1>4. Shut(s, o, b, m) /\ (x = Eof => b + Len(s) + 1 > m) => Shut(t, o, b, m)
  BY <1>1, <1>2 DEF Shut
<1>5. Open(s, o) /\ x # Eof => Open(t, o)
  BY <1>1, <1>2 DEF Open
<1>6. QED
  BY <1>3, <1>4, <1>5 DEF t

(* The first message of a line is the next byte or an end of the stream;   *)
(* the others are a line from there.                                       *)
LEMMA LineTail ==
  ASSUME NEW s \in Seq(Nat), s # << >>, NEW b \in Int, NEW m \in Nat
  PROVE  /\ Line(s, 0, b, m) => /\ s[1] = Eof \/ (s[1] = b + 1 /\ b + 1 <= m)
                                /\ Line(Tail(s), 0, b + 1, m)
         /\ Shut(s, 0, b, m) => /\ s[1] = Eof => b + 1 > m
                                /\ Shut(Tail(s), 0, b + 1, m)
         /\ Open(s, 0) => s[1] # Eof /\ Open(Tail(s), 0)
<1> DEFINE t == Tail(s)
<1>1. /\ Len(s) \in Nat \ {0} /\ Len(t) = Len(s) - 1
      /\ \A i \in 1..(Len(s) - 1) : t[i] = s[i + 1]
  BY TailPoints
<1> HIDE DEF t
<1>2. 1 \in (0 + 1)..Len(s) /\ \A i \in (0 + 1)..Len(t) :
        i \in Int /\ i + 1 \in (0 + 1)..Len(s) /\ t[i] = s[i + 1] /\ (b + 1) + i = b + (i + 1)
  BY <1>1
<1>3. Line(s, 0, b, m) => /\ s[1] = Eof \/ (s[1] = b + 1 /\ b + 1 <= m)
                          /\ Line(t, 0, b + 1, m)
  BY <1>2 DEF Line
<1>4. Shut(s, 0, b, m) => (s[1] = Eof => b + 1 > m) /\ Shut(t, 0, b + 1, m)
  BY <1>2 DEF Shut
<1>5. Open(s, 0) => s[1] # Eof /\ Open(t, 0)
  BY <1>2 DEF Open
<1>6. QED
  BY <1>3, <1>4, <1>5 DEF t

(* A line stays one when its sender has sent more, unless it has ended.    *)
LEMMA LineMore ==
  ASSUME NEW s \in Seq(Nat), NEW o \in {0, 1}, NEW b \in Int, NEW m \in Nat
  PROVE  /\ Line(s, o, b, m) => Line(s, o, b, m + 1)
         /\ Open(s, o) => Shut(s, o, b, m)
<1>1. Len(s) \in Nat
  BY LenProperties
<1>2. \A i \in (o + 1)..Len(s) : b + i <= m => b + i <= m + 1
  BY <1>1
<1>3. QED
  BY <1>2 DEF Line, Open, Shut

(* Nothing is on the line at first, or once the connection is reset.       *)
LEMMA LineEmpty ==
  ASSUME NEW o \in {0, 1}, NEW b \in Int, NEW m \in Nat
  PROVE  Line(<< >>, o, b, m) /\ Shut(<< >>, o, b, m) /\ Open(<< >>, o)
  BY EmptySeq DEF Line, Shut, Open

(* A direction is lost with its connection.                                *)
LEMMA LostWires ==
  /\ Lost("c1up") <=> "c1" \in broken
  /\ Lost("c1down") <=> "c1" \in broken
  /\ TypeInv => (Lost("c2up") <=> "c2" \in broken)
  /\ TypeInv => (Lost("c2down") <=> "c2" \in broken)
  BY DEF Lost, Of, TypeInv, Conns

-----------------------------------------------------------------------------
(* What each action does to the messages.                                  *)

\* The direction w after x is written to it.
After(w, x) == IF Lost(w) THEN wire[w] ELSE Append(wire[w], x)

\* The directions but those of S keep their messages.
Keep(S) == \A w \in Wires \ S : wire'[w] = wire[w]

(* A message more on one direction.                                        *)
LEMMA Written ==
  ASSUME TypeInv, NEW w \in Wires, NEW x \in Nat, wire' = Put(wire, w, x)
  PROVE  wire' \in [Wires -> Seq(Nat)] /\ Keep({w}) /\ wire'[w] = After(w, x)
<1>1. wire \in [Wires -> Seq(Nat)] /\ wire[w] \in Seq(Nat)
  BY DEF TypeInv
<1>2. Append(wire[w], x) \in Seq(Nat)
  BY <1>1, AppendPoints
<1>3. CASE Lost(w)
  BY <1>1, <1>3 DEF Put, Keep, After
<1>4. CASE ~Lost(w)
  BY <1>1, <1>2, <1>4 DEF Put, Keep, After
<1>5. QED
  BY <1>3, <1>4

(* A message less on one direction.                                        *)
LEMMA Consumed ==
  ASSUME TypeInv, NEW w \in Wires, wire[w] # << >>, wire' = Take(wire, w)
  PROVE  wire' \in [Wires -> Seq(Nat)] /\ Keep({w}) /\ wire'[w] = Tail(wire[w])
<1>1. wire \in [Wires -> Seq(Nat)] /\ Tail(wire[w]) \in Seq(Nat)
  BY TailPoints DEF TypeInv
<1>2. QED
  BY <1>1 DEF Take, Keep

(* A message is taken from one direction and another put on a second one.  *)
LEMMA Moved ==
  ASSUME TypeInv, NEW v \in Wires, NEW w \in Wires, v # w, wire[v] # << >>,
         NEW x \in Nat, wire' = Put(Take(wire, v), w, x)
  PROVE  /\ wire' \in [Wires -> Seq(Nat)] /\ Keep({v, w})
         /\ wire'[v] = Tail(wire[v]) /\ wire'[w] = After(w, x)
<1>1. wire \in [Wires -> Seq(Nat)] /\ Tail(wire[v]) \in Seq(Nat) /\ wire[w] \in Seq(Nat)
  BY TailPoints DEF TypeInv
<1>2. Append(wire[w], x) \in Seq(Nat)
  BY <1>1, AppendPoints
<1>3. CASE Lost(w)
  BY <1>1, <1>3 DEF Put, Take, Keep, After
<1>4. CASE ~Lost(w)
  BY <1>1, <1>2, <1>4 DEF Put, Take, Keep, After
<1>5. QED
  BY <1>3, <1>4

(* The dialer's actions.                                                   *)
LEMMA DialerWires ==
  ASSUME TypeInv
  PROVE  /\ Dial => /\ wire' \in [Wires -> Seq(Nat)] /\ Keep({"c1up"})
                    /\ wire'["c1up"] = IF client' = "awaiting" THEN After("c1up", Connect)
                                       ELSE wire["c1up"]
         /\ ClientSends => /\ wire' \in [Wires -> Seq(Nat)] /\ Keep({"c1up"})
                           /\ wire'["c1up"] = After("c1up", sent["client"] + 1)
         /\ ClientCloses => /\ wire' \in [Wires -> Seq(Nat)] /\ Keep({"c1up"})
                            /\ wire'["c1up"] = After("c1up", Eof)
<1>a. wire \in [Wires -> Seq(Nat)] /\ "c1up" \in Wires /\ sent["client"] \in Nat
  BY DEF TypeInv, Wires, Ends
<1>1. ASSUME Dial
      PROVE  /\ wire' \in [Wires -> Seq(Nat)] /\ Keep({"c1up"})
             /\ wire'["c1up"] = IF client' = "awaiting" THEN After("c1up", Connect)
                                ELSE wire["c1up"]
  <2>1. CASE client' = "awaiting" /\ wire' = Put(wire, "c1up", Connect)
    BY <1>a, <2>1, Written, Messages
  <2>2. CASE client' = "failed" /\ UNCHANGED wire
    BY <1>a, <2>2 DEF Keep
  <2>3. QED
    BY <1>1, <2>1, <2>2 DEF Dial
<1>2. ASSUME ClientSends
      PROVE  /\ wire' \in [Wires -> Seq(Nat)] /\ Keep({"c1up"})
             /\ wire'["c1up"] = After("c1up", sent["client"] + 1)
  <2>1. sent'["client"] = sent["client"] + 1
    BY <1>2 DEF ClientSends, TypeInv, Ends
  <2>2. wire' = Put(wire, "c1up", sent["client"] + 1) /\ sent["client"] + 1 \in Nat
    BY <1>2, <1>a, <2>1 DEF ClientSends
  <2>3. QED
    BY <1>a, <2>2, Written
<1>3. ASSUME ClientCloses
      PROVE  /\ wire' \in [Wires -> Seq(Nat)] /\ Keep({"c1up"})
             /\ wire'["c1up"] = After("c1up", Eof)
  BY <1>3, <1>a, Written, Messages DEF ClientCloses
<1>4. QED
  BY <1>1, <1>2, <1>3

(* ReadResponse: the answer and what the reader took with it are gone.     *)
LEMMA AnswerWires ==
  ASSUME TypeInv, ReadResponse
  PROVE  /\ wire' \in [Wires -> Seq(Nat)] /\ r' \in Seq(Nat)
         /\ \/ /\ client' = "open" /\ Keep({"c1down"})
               /\ wire["c1down"] # << >> /\ wire["c1down"][1] = Accepted
               /\ \E n \in 1..Len(wire["c1down"]) :
                    /\ \A i \in 2..n : wire["c1down"][i] # Eof
                    /\ Len(r') = n - 1
                    /\ \A i \in 1..(n - 1) : r'[i] = wire["c1down"][i + 1]
                    /\ Len(wire'["c1down"]) = Len(wire["c1down"]) - n
                    /\ \A i \in 1..(Len(wire["c1down"]) - n) :
                         wire'["c1down"][i] = wire["c1down"][n + i]
            \/ /\ client' = "failed" /\ Keep({"c1up"}) /\ r' = r
               /\ wire'["c1up"] = After("c1up", Eof)
               /\ \/ wire["c1down"] # << >> /\ wire["c1down"][1] = Rejected
                  \/ "c1" \in broken
<1>a. /\ wire \in [Wires -> Seq(Nat)] /\ "c1up" \in Wires /\ "c1down" \in Wires
      /\ wire["c1down"] \in Seq(Nat) /\ r \in Seq(Nat)
  BY DEF TypeInv, Wires
<1> DEFINE s == wire["c1down"]
           L == Len(s)
<1>b. L \in Nat /\ \A i \in 1..L : s[i] \in Nat
  BY <1>a, LenProperties, ElementOfSeq
<1>1. CASE /\ Waits("c1down") /\ Head(s) = Accepted
           /\ client' = "open"
           /\ \E n \in 1..L :
                /\ \A i \in 2..n : s[i] # Eof
                /\ r' = AfterAnswer(s, n)
                /\ wire' = [wire EXCEPT !["c1down"] = SubSeq(@, n + 1, Len(@))]
  <2>1. PICK n \in 1..L :
                /\ \A i \in 2..n : s[i] # Eof
                /\ r' = SubSeq(s, 2, n)
                /\ wire' = [wire EXCEPT !["c1down"] = SubSeq(s, n + 1, L)]
    BY <1>1 DEF AfterAnswer
  <2>2. s # << >> /\ s[1] = Accepted
    BY <1>1, <1>a, TailPoints DEF Waits
  <2>3. n \in Int /\ n + 1 \in Int /\ L \in Int /\ 2 \in Int
    BY <1>b
  <2>4. (\A i \in 2..n : s[i] \in Nat) /\ (\A i \in (n + 1)..L : s[i] \in Nat)
    BY <1>b
  <2> HIDE DEF s, L
  <2>5. /\ SubSeq(s, 2, n) \in Seq(Nat)
        /\ Len(SubSeq(s, 2, n)) = IF 2 <= n THEN n - 2 + 1 ELSE 0
        /\ \A i \in 1..(n - 2 + 1) : SubSeq(s, 2, n)[i] = s[2 + i - 1]
    BY <2>3, <2>4, SubSeqProperties
  <2>6. /\ SubSeq(s, n + 1, L) \in Seq(Nat)
        /\ Len(SubSeq(s, n + 1, L)) = IF n + 1 <= L THEN L - (n + 1) + 1 ELSE 0
        /\ \A i \in 1..(L - (n + 1) + 1) : SubSeq(s, n + 1, L)[i] = s[(n + 1) + i - 1]
    BY <2>3, <2>4, SubSeqProperties
  <2>7. /\ (IF 2 <= n THEN n - 2 + 1 ELSE 0) = n - 1 /\ n - 2 + 1 = n - 1
        /\ (IF n + 1 <= L THEN L - (n + 1) + 1 ELSE 0) = L - n /\ L - (n + 1) + 1 = L - n
    BY <1>b
  <2>8. /\ Len(r') = n - 1 /\ r' \in Seq(Nat)
        /\ \A i \in 1..(n - 1) : r'[i] = s[i + 1]
    <3>1. \A i \in 1..(n - 1) : 2 + i - 1 = i + 1
      BY <2>3
    <3>2. QED
      BY <2>1, <2>5, <2>7, <3>1
  <2>9. /\ wire' \in [Wires -> Seq(Nat)] /\ wire'["c1down"] = SubSeq(s, n + 1, L)
        /\ Keep({"c1down"})
    BY <1>a, <2>1, <2>6 DEF Keep
  <2>10. /\ Len(wire'["c1down"]) = L - n
         /\ \A i \in 1..(L - n) : wire'["c1down"][i] = s[n + i]
    <3>1. \A i \in 1..(L - n) : (n + 1) + i - 1 = n + i
      BY <2>3
    <3>2. QED
      BY <2>6, <2>7, <2>9, <3>1
  <2>11. QED
    BY <1>1, <2>1, <2>2, <2>8, <2>9, <2>10 DEF s, L
<1>2. CASE /\ (Waits("c1down") /\ Head(s) = Rejected) \/ "c1" \in broken
           /\ client' = "failed"
           /\ wire' = Put(wire, "c1up", Eof)
           /\ UNCHANGED r
  <2>1. (s # << >> /\ s[1] = Rejected) \/ "c1" \in broken
    BY <1>2, <1>a, TailPoints DEF Waits
  <2>2. QED
    BY <1>2, <1>a, <2>1, Written, Messages
<1>3. QED
  BY <1>1, <1>2 DEF ReadResponse

(* The handler's actions until both copies run.                            *)
LEMMA HandlerWires ==
  ASSUME TypeInv
  PROVE  /\ ValidateProxyRequest =>
              /\ wire' \in [Wires -> Seq(Nat)] /\ Keep({"c1up", "c1down"})
              /\ wire["c1up"] # << >> /\ wire'["c1up"] = Tail(wire["c1up"])
              /\ wire'["c1down"] = IF server' = "refused" THEN After("c1down", Rejected)
                                   ELSE wire["c1down"]
         /\ DialTarget =>
              /\ wire' \in [Wires -> Seq(Nat)] /\ Keep({"c1down"})
              /\ wire'["c1down"] = IF server' = "refused" THEN After("c1down", Rejected)
                                   ELSE wire["c1down"]
         /\ WriteHeader =>
              /\ wire' \in [Wires -> Seq(Nat)] /\ Keep({"c1down"})
              /\ wire'["c1down"] = After("c1down", Accepted)
         /\ BackgroundRead =>
              /\ wire' \in [Wires -> Seq(Nat)] /\ Keep({"c1up"})
              /\ wire["c1up"] # << >> /\ wire'["c1up"] = Tail(wire["c1up"])
              /\ wire["c1up"][1] # Eof
              /\ wire["c1up"][1] \in Nat /\ buf' = <<wire["c1up"][1]>>
<1>a. wire \in [Wires -> Seq(Nat)] /\ "c1up" \in Wires /\ "c1down" \in Wires
  BY DEF TypeInv, Wires
<1>1. ASSUME ValidateProxyRequest
      PROVE  /\ wire' \in [Wires -> Seq(Nat)] /\ Keep({"c1up", "c1down"})
             /\ wire["c1up"] # << >> /\ wire'["c1up"] = Tail(wire["c1up"])
             /\ wire'["c1down"] = IF server' = "refused" THEN After("c1down", Rejected)
                                  ELSE wire["c1down"]
  <2>1. wire["c1up"] # << >>
    BY <1>1 DEF ValidateProxyRequest, Waits
  <2>2. CASE server' = "valid" /\ wire' = Take(wire, "c1up")
    BY <1>a, <2>1, <2>2, Consumed DEF Keep
  <2>3. CASE server' = "refused" /\ wire' = Put(Take(wire, "c1up"), "c1down", Rejected)
    BY <1>a, <2>1, <2>3, Moved, Messages
  <2>4. QED
    BY <1>1, <2>2, <2>3 DEF ValidateProxyRequest
<1>2. ASSUME DialTarget
      PROVE  /\ wire' \in [Wires -> Seq(Nat)] /\ Keep({"c1down"})
             /\ wire'["c1down"] = IF server' = "refused" THEN After("c1down", Rejected)
                                  ELSE wire["c1down"]
  <2>1. CASE server' = "dialled" /\ UNCHANGED wire
    BY <1>a, <2>1 DEF Keep
  <2>2. CASE server' = "refused" /\ wire' = Put(wire, "c1down", Rejected)
    BY <1>a, <2>2, Written, Messages
  <2>3. QED
    BY <1>2, <2>1, <2>2 DEF DialTarget
<1>3. ASSUME WriteHeader
      PROVE  /\ wire' \in [Wires -> Seq(Nat)] /\ Keep({"c1down"})
             /\ wire'["c1down"] = After("c1down", Accepted)
  BY <1>3, <1>a, Written, Messages DEF WriteHeader
<1>4. ASSUME BackgroundRead
      PROVE  /\ wire' \in [Wires -> Seq(Nat)] /\ Keep({"c1up"})
             /\ wire["c1up"] # << >> /\ wire'["c1up"] = Tail(wire["c1up"])
             /\ wire["c1up"][1] # Eof
             /\ wire["c1up"][1] \in Nat /\ buf' = <<wire["c1up"][1]>>
  <2>1. wire["c1up"] # << >> /\ wire["c1up"] \in Seq(Nat)
    BY <1>4, <1>a DEF BackgroundRead, Waits
  <2>2. Head(wire["c1up"]) = wire["c1up"][1] /\ wire["c1up"][1] \in Nat
    BY <2>1, TailPoints
  <2>3. QED
    BY <1>4, <1>a, <2>1, <2>2, Consumed DEF BackgroundRead
<1>5. QED
  BY <1>1, <1>2, <1>3, <1>4

(* The two copies.                                                         *)
LEMMA CopyWires ==
  ASSUME TypeInv
  PROVE  /\ CopyUp =>
              /\ wire' \in [Wires -> Seq(Nat)] /\ buf' \in Seq(Nat)
              /\ \/ /\ buf # << >> /\ buf[1] # Eof /\ buf' = Tail(buf)
                    /\ Keep({"c2up"}) /\ wire'["c2up"] = After("c2up", buf[1])
                 \/ /\ buf = << >> /\ buf' = buf
                    /\ wire["c1up"] # << >> /\ wire["c1up"][1] # Eof
                    /\ Keep({"c1up", "c2up"}) /\ wire'["c1up"] = Tail(wire["c1up"])
                    /\ wire'["c2up"] = After("c2up", wire["c1up"][1])
         /\ CopyUpEnds =>
              /\ wire' \in [Wires -> Seq(Nat)] /\ Keep({"c2up"})
              /\ wire'["c2up"] = After("c2up", Eof)
              /\ \/ buf = << >> /\ wire["c1up"] # << >> /\ wire["c1up"][1] = Eof
                 \/ target = "closed" \/ broken # {}
         /\ CopyDown =>
              /\ wire' \in [Wires -> Seq(Nat)] /\ Keep({"c2down", "c1down"})
              /\ wire["c2down"] # << >> /\ wire["c2down"][1] # Eof
              /\ wire'["c2down"] = Tail(wire["c2down"])
              /\ wire'["c1down"] = After("c1down", wire["c2down"][1])
         /\ CopyDownEnds =>
              /\ wire' \in [Wires -> Seq(Nat)] /\ Keep({"c1down"})
              /\ wire'["c1down"] = After("c1down", Eof)
              /\ \/ wire["c2down"] # << >> /\ wire["c2down"][1] = Eof
                 \/ client = "closed" \/ broken # {}
         /\ Return =>
              /\ wire' \in [Wires -> Seq(Nat)] /\ Keep({"c1down", "c2up"})
              /\ wire'["c1down"] = After("c1down", Eof)
              /\ wire'["c2up"] = After("c2up", Eof)
<1>a. /\ wire \in [Wires -> Seq(Nat)] /\ \A w \in Wires : wire[w] \in Seq(Nat)
      /\ "c1up" \in Wires /\ "c1down" \in Wires /\ "c2up" \in Wires /\ "c2down" \in Wires
      /\ buf \in Seq(Nat)
  BY DEF TypeInv, Wires
<1>b. \A w \in Wires : wire[w] # << >> => Head(wire[w]) = wire[w][1] /\ wire[w][1] \in Nat
  BY <1>a, TailPoints
<1>c. buf # << >> => buf[1] \in Nat /\ Tail(buf) \in Seq(Nat)
  BY <1>a, TailPoints
<1>1. ASSUME CopyUp
      PROVE  /\ wire' \in [Wires -> Seq(Nat)] /\ buf' \in Seq(Nat)
             /\ \/ /\ buf # << >> /\ buf[1] # Eof /\ buf' = Tail(buf)
                   /\ Keep({"c2up"}) /\ wire'["c2up"] = After("c2up", buf[1])
                \/ /\ buf = << >> /\ buf' = buf
                   /\ wire["c1up"] # << >> /\ wire["c1up"][1] # Eof
                   /\ Keep({"c1up", "c2up"}) /\ wire'["c1up"] = Tail(wire["c1up"])
                   /\ wire'["c2up"] = After("c2up", wire["c1up"][1])
  <2>1. CASE buf # << >>
    <3>1. wire' = Put(wire, "c2up", buf[1]) /\ buf[1] # Eof /\ buf' = Tail(buf)
      BY <1>1, <2>1 DEF CopyUp
    <3>2. QED
      BY <1>a, <1>c, <2>1, <3>1, Written
  <2>2. CASE buf = << >>
    <3>1. /\ wire["c1up"] # << >> /\ buf' = buf
          /\ wire' = Put(Take(wire, "c1up"), "c2up", wire["c1up"][1])
          /\ wire["c1up"][1] # Eof /\ wire["c1up"][1] \in Nat
      BY <1>1, <1>a, <1>b, <2>2 DEF CopyUp, Waits
    <3>2. "c1up" # "c2up"
      OBVIOUS
    <3>3. QED
      BY <1>a, <2>2, <3>1, <3>2, Moved
  <2>3. QED
    BY <2>1, <2>2
<1>2. ASSUME CopyUpEnds
      PROVE  /\ wire' \in [Wires -> Seq(Nat)] /\ Keep({"c2up"})
             /\ wire'["c2up"] = After("c2up", Eof)
             /\ \/ buf = << >> /\ wire["c1up"] # << >> /\ wire["c1up"][1] = Eof
                \/ target = "closed" \/ broken # {}
  <2>1. wire' = Put(wire, "c2up", Eof)
    BY <1>2 DEF CopyUpEnds, CloseWrite
  <2>2. \/ buf = << >> /\ wire["c1up"] # << >> /\ wire["c1up"][1] = Eof
        \/ target = "closed" \/ broken # {}
    BY <1>2, <1>a, <1>b DEF CopyUpEnds, Waits
  <2>3. QED
    BY <1>a, <2>1, <2>2, Written, Messages
<1>3. ASSUME CopyDown
      PROVE  /\ wire' \in [Wires -> Seq(Nat)] /\ Keep({"c2down", "c1down"})
             /\ wire["c2down"] # << >> /\ wire["c2down"][1] # Eof
             /\ wire'["c2down"] = Tail(wire["c2down"])
             /\ wire'["c1down"] = After("c1down", wire["c2down"][1])
  <2>1. /\ wire["c2down"] # << >> /\ wire["c2down"][1] # Eof /\ wire["c2down"][1] \in Nat
        /\ wire' = Put(Take(wire, "c2down"), "c1down", wire["c2down"][1])
    BY <1>3, <1>a, <1>b DEF CopyDown, Waits
  <2>2. "c2down" # "c1down"
    OBVIOUS
  <2>3. QED
    BY <1>a, <2>1, <2>2, Moved
<1>4. ASSUME CopyDownEnds
      PROVE  /\ wire' \in [Wires -> Seq(Nat)] /\ Keep({"c1down"})
             /\ wire'["c1down"] = After("c1down", Eof)
             /\ \/ wire["c2down"] # << >> /\ wire["c2down"][1] = Eof
                \/ client = "closed" \/ broken # {}
  <2>1. wire' = Put(wire, "c1down", Eof)
    BY <1>4 DEF CopyDownEnds
  <2>2. \/ wire["c2down"] # << >> /\ wire["c2down"][1] = Eof
        \/ client = "closed" \/ broken # {}
    BY <1>4, <1>a, <1>b DEF CopyDownEnds, Waits
  <2>3. QED
    BY <1>a, <2>1, <2>2, Written, Messages
<1>5. ASSUME Return
      PROVE  /\ wire' \in [Wires -> Seq(Nat)] /\ Keep({"c1down", "c2up"})
             /\ wire'["c1down"] = After("c1down", Eof) /\ wire'["c2up"] = After("c2up", Eof)
  <2>1. wire' = Put(Put(wire, "c1down", Eof), "c2up", Eof)
    BY <1>5 DEF Return
  <2>2. Append(wire["c1down"], Eof) \in Seq(Nat) /\ Append(wire["c2up"], Eof) \in Seq(Nat)
    BY <1>a, AppendPoints, Messages
  <2>3. CASE Lost("c1down")
    BY <1>a, <2>1, <2>2, <2>3 DEF Put, Keep, After
  <2>4. CASE ~Lost("c1down")
    BY <1>a, <2>1, <2>2, <2>4 DEF Put, Keep, After
  <2>5. QED
    BY <2>3, <2>4
<1>6. QED
  BY <1>1, <1>2, <1>3, <1>4, <1>5

(* The actions of the two ends, and a reset.                               *)
LEMMA EndWires ==
  ASSUME TypeInv
  PROVE  /\ ClientReads =>
              /\ wire' \in [Wires -> Seq(Nat)]
              /\ \/ /\ r # << >> /\ r[1] \in Nat /\ r' = Tail(r) /\ wire' = wire
                    /\ got' = [got EXCEPT !["client"] = Append(@, r[1])]
                 \/ /\ r = << >> /\ r' = r /\ Keep({"c1down"})
                    /\ wire["c1down"] # << >> /\ wire["c1down"][1] \in Nat
                    /\ wire'["c1down"] = Tail(wire["c1down"])
                    /\ got' = [got EXCEPT !["client"] = Append(@, wire["c1down"][1])]
         /\ TargetSends =>
              /\ wire' \in [Wires -> Seq(Nat)] /\ Keep({"c2down"})
              /\ wire'["c2down"] = After("c2down", sent["target"] + 1)
         /\ TargetReads =>
              /\ wire' \in [Wires -> Seq(Nat)] /\ Keep({"c2up"})
              /\ wire["c2up"] # << >> /\ wire["c2up"][1] \in Nat
              /\ wire'["c2up"] = Tail(wire["c2up"])
              /\ got' = [got EXCEPT !["target"] = Append(@, wire["c2up"][1])]
         /\ TargetEnds =>
              /\ wire' \in [Wires -> Seq(Nat)] /\ Keep({"c2down"})
              /\ wire'["c2down"] = After("c2down", Eof)
         /\ Break =>
              /\ wire' \in [Wires -> Seq(Nat)] /\ broken' # {}
              /\ \E c \in Conns \ broken :
                   /\ c = "c1" => client # "dialing"
                   /\ c = "c2" => target # "none"
                   /\ broken' = broken \cup {c}
                   /\ \A w \in Of(c) : wire'[w] = << >>
                   /\ \A w \in Wires \ Of(c) : wire'[w] = wire[w]
<1>a. /\ wire \in [Wires -> Seq(Nat)] /\ \A w \in Wires : wire[w] \in Seq(Nat)
      /\ "c1up" \in Wires /\ "c1down" \in Wires /\ "c2up" \in Wires /\ "c2down" \in Wires
      /\ r \in Seq(Nat) /\ sent["target"] \in Nat
  BY DEF TypeInv, Wires, Ends
<1>b. \A w \in Wires : wire[w] # << >> => Head(wire[w]) = wire[w][1] /\ wire[w][1] \in Nat
  BY <1>a, TailPoints
<1>c. r # << >> => r[1] \in Nat
  BY <1>a, TailPoints
<1>1. ASSUME ClientReads
      PROVE  /\ wire' \in [Wires -> Seq(Nat)]
             /\ \/ /\ r # << >> /\ r[1] \in Nat /\ r' = Tail(r) /\ wire' = wire
                   /\ got' = [got EXCEPT !["client"] = Append(@, r[1])]
                \/ /\ r = << >> /\ r' = r /\ Keep({"c1down"})
                   /\ wire["c1down"] # << >> /\ wire["c1down"][1] \in Nat
                   /\ wire'["c1down"] = Tail(wire["c1down"])
                   /\ got' = [got EXCEPT !["client"] = Append(@, wire["c1down"][1])]
  <2>1. CASE r # << >>
    BY <1>1, <1>a, <1>c, <2>1 DEF ClientReads, FromR
  <2>2. CASE r = << >>
    <3>1. /\ wire["c1down"] # << >> /\ wire' = Take(wire, "c1down") /\ r' = r
          /\ got' = [got EXCEPT !["client"] = Append(@, wire["c1down"][1])]
      BY <1>1, <1>a, <1>b, <2>2 DEF ClientReads, FromR, Waits
    <3>2. QED
      BY <1>a, <1>b, <2>2, <3>1, Consumed
  <2>3. QED
    BY <2>1, <2>2
<1>2. ASSUME TargetSends
      PROVE  /\ wire' \in [Wires -> Seq(Nat)] /\ Keep({"c2down"})
             /\ wire'["c2down"] = After("c2down", sent["target"] + 1)
  <2>1. sent'["target"] = sent["target"] + 1
    BY <1>2 DEF TargetSends, TypeInv, Ends
  <2>2. wire' = Put(wire, "c2down", sent["target"] + 1) /\ sent["target"] + 1 \in Nat
    BY <1>2, <1>a, <2>1 DEF TargetSends
  <2>3. QED
    BY <1>a, <2>2, Written
<1>3. ASSUME TargetReads
      PROVE  /\ wire' \in [Wires -> Seq(Nat)] /\ Keep({"c2up"})
             /\ wire["c2up"] # << >> /\ wire["c2up"][1] \in Nat
             /\ wire'["c2up"] = Tail(wire["c2up"])
             /\ got' = [got EXCEPT !["target"] = Append(@, wire["c2up"][1])]
  <2>1. /\ wire["c2up"] # << >> /\ wire' = Take(wire, "c2up")
        /\ got' = [got EXCEPT !["target"] = Append(@, wire["c2up"][1])]
    BY <1>3, <1>a, <1>b DEF TargetReads, Waits
  <2>2. QED
    BY <1>a, <1>b, <2>1, Consumed
<1>4. ASSUME TargetEnds
      PROVE  /\ wire' \in [Wires -> Seq(Nat)] /\ Keep({"c2down"})
             /\ wire'["c2down"] = After("c2down", Eof)
  BY <1>4, <1>a, Written, Messages DEF TargetEnds
<1>5. ASSUME Break
      PROVE  /\ wire' \in [Wires -> Seq(Nat)] /\ broken' # {}
             /\ \E c \in Conns \ broken :
                  /\ c = "c1" => client # "dialing"
                  /\ c = "c2" => target # "none"
                  /\ broken' = broken \cup {c}
                  /\ \A w \in Of(c) : wire'[w] = << >>
                  /\ \A w \in Wires \ Of(c) : wire'[w] = wire[w]
  <2>1. PICK c \in Conns \ broken :
           /\ c = "c1" => client # "dialing"
           /\ c = "c2" => target # "none"
           /\ broken' = broken \cup {c}
           /\ wire' = [w \in Wires |-> IF w \in Of(c) THEN << >> ELSE wire[w]]
    BY <1>5 DEF Break
  <2>2. << >> \in Seq(Nat) /\ \A w \in Of(c) : w \in Wires
    BY EmptySeq DEF Of, Wires
  <2>3. /\ wire' \in [Wires -> Seq(Nat)] /\ \A w \in Of(c) : wire'[w] = << >>
        /\ \A w \in Wires \ Of(c) : wire'[w] = wire[w]
    BY <1>a, <2>1, <2>2
  <2>4. QED
    BY <2>1, <2>3
<1>6. QED
  BY <1>1, <1>2, <1>3, <1>4, <1>5

-----------------------------------------------------------------------------
(* The invariant is preserved.                                             *)

(* The types are preserved.                                                *)
LEMMA TypeNext ==
  ASSUME TypeInv, [Next]_vars
  PROVE  TypeInv'
<1>a. "client" \in Ends /\ "target" \in Ends
  BY DEF Ends
<1>1. CASE Dial
  BY <1>1, DialerWires DEF TypeInv, Dial
<1>2. CASE ReadResponse
  BY <1>2, AnswerWires DEF TypeInv, ReadResponse
<1>3. CASE ValidateProxyRequest
  BY <1>3, HandlerWires DEF TypeInv, ValidateProxyRequest
<1>4. CASE DialTarget
  BY <1>4, HandlerWires DEF TypeInv, DialTarget, Answered
<1>5. CASE WriteHeader
  BY <1>5, HandlerWires DEF TypeInv, WriteHeader, ends, Answered
<1>6. CASE Hijack
  BY <1>6 DEF TypeInv, Hijack, ends, FromBuf, Answered
<1>7. CASE CopyDown
  BY <1>7, CopyWires DEF TypeInv, CopyDown, ends
<1>8. CASE CopyDownEnds
  BY <1>8, CopyWires DEF TypeInv, CopyDownEnds, ends, Answered
<1>9. CASE Return
  BY <1>9, CopyWires DEF TypeInv, Return, ends, Answered
<1>10. CASE CopyUp
  BY <1>10, CopyWires DEF TypeInv, CopyUp, ends
<1>11. CASE CopyUpEnds
  BY <1>11, CopyWires DEF TypeInv, CopyUpEnds, ends
<1>12. CASE BackgroundRead
  <2>1. \A x \in Nat : <<x>> \in Seq(Nat)
    OBVIOUS
  <2>2. buf' \in Seq(Nat)
    BY <1>12, <2>1, HandlerWires
  <2>3. QED
    BY <1>12, <2>2, HandlerWires DEF TypeInv, BackgroundRead, ends
<1>13. CASE ClientSends
  <2>1. sent' \in [Ends -> Nat]
    BY <1>a, <1>13 DEF TypeInv, ClientSends
  <2>2. QED
    BY <1>13, <2>1, DialerWires DEF TypeInv, ClientSends
<1>14. CASE ClientReads
  <2>1. r' \in Seq(Nat) /\ got' \in [Ends -> Seq(Nat)]
    <3>1. r # << >> => Tail(r) \in Seq(Nat)
      BY TailPoints DEF TypeInv
    <3>2. \A x \in Nat : Append(got["client"], x) \in Seq(Nat)
      BY <1>a, AppendPoints DEF TypeInv
    <3>3. QED
      BY <1>a, <1>14, <3>1, <3>2, EndWires DEF TypeInv
  <2>2. QED
    BY <1>14, <2>1, EndWires DEF TypeInv, ClientReads
<1>15. CASE ClientCloses
  BY <1>15, DialerWires DEF TypeInv, ClientCloses
<1>16. CASE TargetSends
  <2>1. sent' \in [Ends -> Nat]
    BY <1>a, <1>16 DEF TypeInv, TargetSends
  <2>2. QED
    BY <1>16, <2>1, EndWires DEF TypeInv, TargetSends
<1>17. CASE TargetReads
  <2>1. \A x \in Nat : Append(got["target"], x) \in Seq(Nat)
    BY <1>a, AppendPoints DEF TypeInv
  <2>2. got' \in [Ends -> Seq(Nat)]
    BY <1>a, <1>17, <2>1, EndWires DEF TypeInv
  <2>3. QED
    BY <1>17, <2>2, EndWires DEF TypeInv, TargetReads
<1>18. CASE TargetEnds
  BY <1>18, EndWires DEF TypeInv, TargetEnds
<1>19. CASE TargetCloses
  BY <1>19 DEF TypeInv, TargetCloses
<1>20. CASE Break
  BY <1>20, EndWires DEF TypeInv, Break, ends
<1>21. CASE UNCHANGED vars
  BY <1>21 DEF TypeInv, vars
<1>22. QED
  BY <1>1, <1>2, <1>3, <1>4, <1>5, <1>6, <1>7, <1>8, <1>9, <1>10,
     <1>11, <1>12, <1>13, <1>14, <1>15, <1>16, <1>17, <1>18, <1>19, <1>20,
     <1>21 DEF Next, Handler, Goroutine

(* The first message of what is written, and what is left of one message.  *)
LEMMA FirstMessage ==
  ASSUME NEW q \in Seq(Nat), NEW x \in Nat
  PROVE  /\ Append(q, x) # << >>
         /\ q # << >> => Append(q, x)[1] = q[1]
         /\ q = << >> => Append(q, x)[1] = x
         /\ Append(<< >>, x) = <<x>> /\ <<x>> # << >> /\ Tail(<<x>>) = << >>
<1>1. Len(q) \in Nat /\ (q = << >> => Len(q) = 0) /\ (q # << >> => Len(q) >= 1)
  BY EmptySeq, LenProperties
<1>2. /\ Append(q, x) # << >> /\ Append(q, x)[Len(q) + 1] = x
      /\ \A i \in 1..Len(q) : Append(q, x)[i] = q[i]
  BY AppendPoints
<1>3. Append(<< >>, x) = <<x>> /\ <<x>> # << >> /\ Tail(<<x>>) = << >>
  OBVIOUS
<1>4. QED
  BY <1>1, <1>2, <1>3

(* A direction that a message is written to.                               *)
LEMMA AfterEffect ==
  ASSUME TypeInv, NEW w \in Wires, NEW x \in Nat
  PROVE  /\ Lost(w) => After(w, x) = wire[w]
         /\ ~Lost(w) => /\ After(w, x) = Append(wire[w], x) /\ After(w, x) # << >>
                        /\ wire[w] # << >> => After(w, x)[1] = wire[w][1]
                        /\ wire[w] = << >> => After(w, x)[1] = x /\ After(w, x) = <<x>>
<1>1. wire[w] \in Seq(Nat)
  BY DEF TypeInv
<1>2. QED
  BY <1>1, FirstMessage DEF After

(* How far everyone is, and what is on the connections.                    *)
LEMMA ControlNext ==
  ASSUME TypeInv, ControlInv, [Next]_vars
  PROVE  ControlInv'
<1>a. "c1up" \in Wires /\ "c1down" \in Wires /\ "c2up" \in Wires /\ "c2down" \in Wires
  BY DEF Wires
<1>b. Tail(<<Connect>>) = << >> /\ <<Connect>> # << >>
  BY FirstMessage, Messages
<1>c. /\ Lost("c1up") <=> "c1" \in broken
      /\ Lost("c1down") <=> "c1" \in broken
      /\ Lost("c2up") <=> "c2" \in broken
      /\ Lost("c2down") <=> "c2" \in broken
  BY LostWires
<1>d. \A w \in Wires : \A x \in Nat :
        /\ Lost(w) => After(w, x) = wire[w]
        /\ ~Lost(w) => /\ After(w, x) # << >>
                       /\ wire[w] # << >> => After(w, x)[1] = wire[w][1]
                       /\ wire[w] = << >> => After(w, x)[1] = x /\ After(w, x) = <<x>>
  BY AfterEffect
<1>1. CASE Dial
  <2>1. /\ wire'["c1down"] = wire["c1down"] /\ wire'["c2up"] = wire["c2up"]
        /\ wire'["c2down"] = wire["c2down"]
    BY <1>1, DialerWires DEF Keep, Wires
  <2>2. /\ client = "dialing" /\ client' \in {"awaiting", "failed"}
        /\ UNCHANGED <<r, server, buf, copier, target, sent, got, broken>>
    BY <1>1 DEF Dial
  <2>3. /\ wire'["c1up"] = IF client' = "awaiting" THEN After("c1up", Connect) ELSE wire["c1up"]
    BY <1>1, DialerWires
  <2>4. QED
    BY <1>a, <1>b, <1>c, <1>d, <2>1, <2>2, <2>3, Messages DEF ControlInv, Answered
<1>2. CASE ReadResponse
  BY <1>2, <1>a, <1>b, <1>c, <1>d, Messages, AnswerWires
     DEF TypeInv, ControlInv, Answered, Ends, Conns, Wires, Of, Keep, ReadResponse
<1>3. CASE ValidateProxyRequest
  <2>1. wire'["c2up"] = wire["c2up"] /\ wire'["c2down"] = wire["c2down"]
    BY <1>3, HandlerWires DEF Keep, Wires
  <2>2. /\ server = "idle" /\ server' \in {"valid", "refused"}
        /\ UNCHANGED <<client, r, buf, copier, target, sent, got, broken>>
    BY <1>3 DEF ValidateProxyRequest
  <2>3. /\ wire["c1up"] # << >> /\ wire'["c1up"] = Tail(wire["c1up"])
        /\ wire'["c1down"] = IF server' = "refused" THEN After("c1down", Rejected)
                             ELSE wire["c1down"]
    BY <1>3, HandlerWires
  <2>4. wire'["c1up"] = << >> /\ client = "awaiting"
    BY <1>b, <2>2, <2>3 DEF ControlInv
  <2>5. wire["c1down"] = << >> /\ server' = "refused" /\ "c1" \notin broken
          => wire'["c1down"][1] = Rejected
    BY <1>a, <1>c, <1>d, <2>3, Messages DEF ControlInv
  <2>6. QED
    BY <1>a, <1>c, <1>d, <2>1, <2>2, <2>3, <2>4, <2>5, Messages DEF ControlInv, Answered
<1>4. CASE DialTarget
  <2>1. /\ wire'["c1up"] = wire["c1up"] /\ wire'["c2up"] = wire["c2up"]
        /\ wire'["c2down"] = wire["c2down"]
    BY <1>4, HandlerWires DEF Keep, Wires
  <2>2. /\ server = "valid"
        /\ \/ server' = "dialled" /\ target' = "open"
           \/ server' = "refused" /\ target' = target
        /\ UNCHANGED <<client, r, buf, copier, sent, got, broken>>
    BY <1>4 DEF DialTarget
  <2>3. wire'["c1down"] = IF server' = "refused" THEN After("c1down", Rejected)
                            ELSE wire["c1down"]
    BY <1>4, HandlerWires
  <2>4. QED
    BY <1>a, <1>b, <1>c, <1>d, <2>1, <2>2, <2>3, Messages DEF ControlInv, Answered
<1>5. CASE WriteHeader
  <2>1. /\ wire'["c1up"] = wire["c1up"] /\ wire'["c2up"] = wire["c2up"]
        /\ wire'["c2down"] = wire["c2down"]
    BY <1>5, HandlerWires DEF Keep, Wires
  <2>2. /\ server = "dialled" /\ server' = "flushed"
        /\ UNCHANGED <<client, r, buf, copier, target, sent, got, broken>>
    BY <1>5 DEF WriteHeader, ends
  <2>3. wire'["c1down"] = After("c1down", Accepted)
    BY <1>5, HandlerWires
  <2>4. QED
    BY <1>a, <1>b, <1>c, <1>d, <2>1, <2>2, <2>3, Messages DEF ControlInv, Answered
<1>6. CASE Hijack
  BY <1>6 DEF Hijack, ControlInv, Answered, ends, FromBuf
<1>7. CASE CopyDown
  <2>1. wire'["c1up"] = wire["c1up"] /\ wire'["c2up"] = wire["c2up"]
    BY <1>7, CopyWires DEF Keep, Wires
  <2>2. /\ server = "copying"
        /\ UNCHANGED <<client, r, server, buf, copier, target, sent, got, broken>>
    BY <1>7 DEF CopyDown, ends
  <2>3. /\ wire["c2down"] # << >> /\ wire["c2down"][1] \in Nat
        /\ wire'["c1down"] = After("c1down", wire["c2down"][1])
        /\ wire'["c2down"] = Tail(wire["c2down"])
    BY <1>7, <1>a, CopyWires, TailPoints DEF TypeInv
  <2>4. QED
    BY <1>a, <1>b, <1>c, <1>d, <2>1, <2>2, <2>3, Messages DEF ControlInv, Answered
<1>8. CASE CopyDownEnds
  <2>1. /\ wire'["c1up"] = wire["c1up"] /\ wire'["c2up"] = wire["c2up"]
        /\ wire'["c2down"] = wire["c2down"]
    BY <1>8, CopyWires DEF Keep, Wires
  <2>2. /\ server = "copying" /\ server' = "waiting"
        /\ UNCHANGED <<client, r, buf, copier, target, sent, got, broken>>
    BY <1>8 DEF CopyDownEnds, ends
  <2>3. wire'["c1down"] = After("c1down", Eof)
    BY <1>8, CopyWires
  <2>4. QED
    BY <1>a, <1>b, <1>c, <1>d, <2>1, <2>2, <2>3, Messages DEF ControlInv, Answered
<1>9. CASE Return
  <2>1. wire'["c1up"] = wire["c1up"] /\ wire'["c2down"] = wire["c2down"]
    BY <1>9, CopyWires DEF Keep, Wires
  <2>2. /\ server = "waiting" /\ server' = "done" /\ copier' = "done"
        /\ UNCHANGED <<client, r, buf, target, sent, got, broken>>
    BY <1>9 DEF Return, ends
  <2>3. wire'["c1down"] = After("c1down", Eof) /\ wire'["c2up"] = After("c2up", Eof)
    BY <1>9, CopyWires
  <2>4. QED
    BY <1>a, <1>b, <1>c, <1>d, <2>1, <2>2, <2>3, Messages DEF ControlInv, Answered
<1>10. CASE CopyUp
  BY <1>10, <1>a, <1>b, <1>c, <1>d, Messages, CopyWires
     DEF TypeInv, ControlInv, Answered, Ends, Conns, Wires, Of, Keep, CopyUp, ends
<1>11. CASE CopyUpEnds
  <2>1. /\ wire'["c1up"] = wire["c1up"] /\ wire'["c1down"] = wire["c1down"]
        /\ wire'["c2down"] = wire["c2down"]
    BY <1>11, CopyWires DEF Keep, Wires
  <2>2. /\ copier = "copying" /\ copier' = "done"
        /\ UNCHANGED <<client, r, server, buf, target, sent, got, broken>>
    BY <1>11 DEF CopyUpEnds, ends
  <2>3. wire'["c2up"] = After("c2up", Eof)
    BY <1>11, CopyWires
  <2>4. QED
    BY <1>a, <1>b, <1>c, <1>d, <2>1, <2>2, <2>3, Messages DEF ControlInv, Answered
<1>12. CASE BackgroundRead
  <2>1. /\ wire'["c1down"] = wire["c1down"] /\ wire'["c2up"] = wire["c2up"]
        /\ wire'["c2down"] = wire["c2down"]
    BY <1>12, HandlerWires DEF Keep, Wires
  <2>2. /\ server = "flushed"
        /\ UNCHANGED <<client, r, server, copier, target, sent, got, broken>>
    BY <1>12 DEF BackgroundRead, ends
  <2>3. wire["c1up"] # << >> /\ wire'["c1up"] = Tail(wire["c1up"])
    BY <1>12, HandlerWires
  <2>4. QED
    BY <1>a, <1>b, <1>c, <1>d, <2>1, <2>2, <2>3, Messages DEF ControlInv, Answered
<1>13. CASE ClientSends
  <2>1. /\ wire'["c1down"] = wire["c1down"] /\ wire'["c2up"] = wire["c2up"]
        /\ wire'["c2down"] = wire["c2down"]
    BY <1>13, DialerWires DEF Keep, Wires
  <2>2. /\ client = "open" /\ sent'["target"] = sent["target"]
        /\ UNCHANGED <<client, r, server, buf, copier, target, got, broken>>
    BY <1>13 DEF ClientSends, TypeInv, Ends
  <2>3. wire'["c1up"] = After("c1up", sent["client"] + 1) /\ sent["client"] + 1 \in Nat
    BY <1>13, DialerWires DEF TypeInv, Ends
  <2>4. QED
    BY <1>a, <1>b, <1>c, <1>d, <2>1, <2>2, <2>3, Messages DEF ControlInv, Answered
<1>14. CASE ClientReads
  BY <1>14, <1>a, <1>b, <1>c, <1>d, Messages, EndWires
     DEF TypeInv, ControlInv, Answered, Ends, Conns, Wires, Of, Keep, ClientReads
<1>15. CASE ClientCloses
  <2>1. /\ wire'["c1down"] = wire["c1down"] /\ wire'["c2up"] = wire["c2up"]
        /\ wire'["c2down"] = wire["c2down"]
    BY <1>15, DialerWires DEF Keep, Wires
  <2>2. /\ client = "open" /\ client' = "closed"
        /\ UNCHANGED <<r, server, buf, copier, target, sent, got, broken>>
    BY <1>15 DEF ClientCloses
  <2>3. wire'["c1up"] = After("c1up", Eof)
    BY <1>15, DialerWires
  <2>4. QED
    BY <1>a, <1>b, <1>c, <1>d, <2>1, <2>2, <2>3, Messages DEF ControlInv, Answered
<1>16. CASE TargetSends
  <2>1. /\ wire'["c1up"] = wire["c1up"] /\ wire'["c1down"] = wire["c1down"]
        /\ wire'["c2up"] = wire["c2up"]
    BY <1>16, EndWires DEF Keep, Wires
  <2>2. /\ target = "open" /\ sent'["client"] = sent["client"]
        /\ UNCHANGED <<client, r, server, buf, copier, target, got, broken>>
    BY <1>16 DEF TargetSends, TypeInv, Ends
  <2>3. wire'["c2down"] = After("c2down", sent["target"] + 1) /\ sent["target"] + 1 \in Nat
    BY <1>16, EndWires, SMTT(30) DEF TypeInv, Ends
  <2>4. QED
    BY <1>a, <1>b, <1>c, <1>d, <2>1, <2>2, <2>3, Messages DEF ControlInv, Answered
<1>17. CASE TargetReads
  <2>1. /\ wire'["c1up"] = wire["c1up"] /\ wire'["c1down"] = wire["c1down"]
        /\ wire'["c2down"] = wire["c2down"]
    BY <1>17, EndWires DEF Keep, Wires
  <2>2. /\ target \in {"open", "quiet"} /\ got'["client"] = got["client"]
        /\ UNCHANGED <<client, r, server, buf, copier, target, sent, broken>>
    BY <1>17 DEF TargetReads, TypeInv, Ends
  <2>3. wire["c2up"] # << >> /\ wire'["c2up"] = Tail(wire["c2up"])
    BY <1>17, EndWires
  <2>4. QED
    BY <1>a, <1>b, <1>c, <1>d, <2>1, <2>2, <2>3, Messages DEF ControlInv, Answered
<1>18. CASE TargetEnds
  <2>1. /\ wire'["c1up"] = wire["c1up"] /\ wire'["c1down"] = wire["c1down"]
        /\ wire'["c2up"] = wire["c2up"]
    BY <1>18, EndWires DEF Keep, Wires
  <2>2. /\ target = "open" /\ target' \in {"quiet", "closed"}
        /\ UNCHANGED <<client, r, server, buf, copier, sent, got, broken>>
    BY <1>18 DEF TargetEnds
  <2>3. wire'["c2down"] = After("c2down", Eof)
    BY <1>18, EndWires
  <2>4. QED
    BY <1>a, <1>b, <1>c, <1>d, <2>1, <2>2, <2>3, Messages DEF ControlInv, Answered
<1>19. CASE TargetCloses
  BY <1>19 DEF TargetCloses, ControlInv, Answered, ends
<1>20. CASE Break
  BY <1>20, <1>a, <1>b, <1>c, <1>d, Messages, EndWires
     DEF TypeInv, ControlInv, Answered, Ends, Conns, Wires, Of, Keep, Break, ends
<1>21. CASE UNCHANGED vars
  BY <1>21 DEF ControlInv, vars
<1>22. QED
  BY <1>1, <1>2, <1>3, <1>4, <1>5, <1>6, <1>7, <1>8, <1>9, <1>10,
     <1>11, <1>12, <1>13, <1>14, <1>15, <1>16, <1>17, <1>18, <1>19, <1>20,
     <1>21 DEF Next, Handler, Goroutine

-----------------------------------------------------------------------------
(* What the ends receive.                                                  *)

(* Lengths and offsets are numbers.                                        *)
LEMMA Numbers ==
  ASSUME TypeInv
  PROVE  /\ sent["target"] \in Nat /\ sent["client"] \in Nat
         /\ r \in Seq(Nat) /\ buf \in Seq(Nat) /\ Len(r) \in Nat /\ Len(buf) \in Nat
         /\ \A w \in Wires : wire[w] \in Seq(Nat) /\ Len(wire[w]) \in Nat
         /\ \A e \in Ends : got[e] \in Seq(Nat) /\ Len(got[e]) \in Nat
         /\ Answer \in {0, 1} /\ Base \in Int /\ Copied \in Int /\ Arrived \in Int
         /\ Wires = {"c1up", "c1down", "c2up", "c2down"} /\ Ends = {"client", "target"}
<1>1. Wires = {"c1up", "c1down", "c2up", "c2down"} /\ Ends = {"client", "target"}
  BY DEF Wires, Ends
<1>2. /\ sent["target"] \in Nat /\ sent["client"] \in Nat
      /\ r \in Seq(Nat) /\ buf \in Seq(Nat)
      /\ \A w \in Wires : wire[w] \in Seq(Nat)
      /\ \A e \in Ends : got[e] \in Seq(Nat)
  BY <1>1 DEF TypeInv
<1>3. /\ Len(r) \in Nat /\ Len(buf) \in Nat
      /\ \A w \in Wires : Len(wire[w]) \in Nat
      /\ \A e \in Ends : Len(got[e]) \in Nat
  BY <1>2, LenProperties
<1>4. Answer \in {0, 1}
  BY DEF Answer
<1>5. Base \in Int /\ Copied \in Int /\ Arrived \in Int
  <2>1. /\ Len(got["client"]) \in Nat /\ Len(got["target"]) \in Nat
        /\ Len(wire["c1down"]) \in Nat /\ Len(wire["c2up"]) \in Nat
    BY <1>1, <1>3
  <2>2. Base \in Int
    BY <1>3, <1>4, <2>1 DEF Base
  <2>3. Copied \in Int
    BY <2>1, <2>2 DEF Copied
  <2>4. Arrived \in Int
    BY <2>1 DEF Arrived
  <2>5. QED
    BY <2>2, <2>3, <2>4
<1>6. QED
  BY <1>1, <1>2, <1>3, <1>4, <1>5

(* An end that has not seen the end of the stream receives the next byte   *)
(* or that end.                                                            *)
LEMMA Reading ==
  ASSUME TypeInv, NEW e \in Ends, NEW x \in Nat, NEW m \in Nat,
         \A i \in 1..Len(got[e]) :
            \/ got[e][i] = i /\ i <= m
            \/ i = Len(got[e]) /\ got[e][i] = Eof,
         ~SawEof(e), got' = [got EXCEPT ![e] = Append(@, x)],
         x = Eof \/ (x = Len(got[e]) + 1 /\ x <= m)
  PROVE  /\ \A i \in 1..Len(got'[e]) :
              \/ got'[e][i] = i /\ i <= m
              \/ i = Len(got'[e]) /\ got'[e][i] = Eof
         /\ Len(got'[e]) = Len(got[e]) + 1 /\ Len(got[e]) <= m
         /\ SawEof(e)' <=> x = Eof
<1> DEFINE g == got[e]
           h == got'[e]
<1>1. /\ g \in Seq(Nat) /\ Len(g) \in Nat
      /\ (g # << >> => Len(g) >= 1) /\ (g = << >> => Len(g) = 0)
  BY Numbers, EmptySeq
<1>2. h = Append(g, x)
  BY DEF TypeInv
<1>3. /\ Len(h) = Len(g) + 1 /\ h # << >> /\ h[Len(g) + 1] = x
      /\ \A i \in 1..Len(g) : h[i] = g[i]
  BY <1>1, <1>2, AppendPoints
<1>4. g = << >> \/ g[Len(g)] # Eof
  BY DEF SawEof, Last
<1>5. \A i \in 1..Len(g) : g[i] = i /\ i <= m
  BY <1>1, <1>4
<1>6. Len(g) <= m
  BY <1>1, <1>5
<1>7. SawEof(e)' <=> x = Eof
  BY <1>3 DEF SawEof, Last
<1> HIDE DEF g, h
<1>8. \A i \in 1..Len(h) : (h[i] = i /\ i <= m) \/ (i = Len(h) /\ h[i] = Eof)
  <2>1. \A i \in 1..Len(h) : i \in 1..Len(g) \/ i = Len(g) + 1
    BY <1>1, <1>3
  <2>2. \A i \in 1..Len(g) : h[i] = i /\ i <= m
    BY <1>3, <1>5
  <2>3. h[Len(g) + 1] = Eof \/ (h[Len(g) + 1] = Len(g) + 1 /\ Len(g) + 1 <= m)
    BY <1>3 DEF g
  <2>4. QED
    BY <1>3, <2>1, <2>2, <2>3
<1>9. QED
  BY <1>3, <1>6, <1>7, <1>8 DEF g, h

-----------------------------------------------------------------------------
(* From the target to the client.                                          *)

(* Steps that leave that way alone.                                        *)
LEMMA DownFrame ==
  ASSUME DownInv, got'["client"] = got["client"], sent'["target"] = sent["target"],
         broken' = broken, TargetIsOver' <=> TargetIsOver,
         DownIsLive' => /\ DownIsLive /\ r' = r /\ Answer' = Answer
                        /\ wire'["c1down"] = wire["c1down"]
                        /\ wire'["c2down"] = wire["c2down"]
                        /\ server' \in {"waiting", "done"} <=> server \in {"waiting", "done"}
  PROVE  DownInv'
<1>1. Received("client", sent["target"], TargetIsOver)'
  BY DEF DownInv, Received, SawEof
<1>2. ASSUME DownIsLive'
      PROVE  (HeldDown /\ OnC1Down /\ OnC2Down)'
  <2>1. Base' = Base /\ Copied' = Copied
    BY <1>2 DEF Base, Copied
  <2>2. HeldDown' /\ OnC1Down'
    BY <1>2, <2>1 DEF DownInv, HeldDown, OnC1Down
  <2>3. OnC2Down'
    BY <1>2, <2>1 DEF DownInv, OnC2Down
  <2>4. QED
    BY <2>2, <2>3
<1>3. QED
  BY <1>1, <1>2 DEF DownInv

(* ReadResponse: the reader has the bytes that came with the answer.       *)
LEMMA DownAnswer ==
  ASSUME TypeInv, ControlInv, DownInv, ReadResponse
  PROVE  DownInv'
<1> DEFINE s == wire["c1down"]
           L == Len(s)
           m == sent["target"]
<1>a. /\ s \in Seq(Nat) /\ L \in Nat /\ m \in Nat
      /\ Len(got["client"]) \in Nat
  BY Numbers
<1>b. /\ client = "awaiting"
      /\ UNCHANGED <<server, buf, copier, target, sent, got, broken>>
  BY DEF ReadResponse
<1>c. got["client"] = << >> /\ r = << >>
  BY <1>b DEF ControlInv
<1>d. ~SawEof("client") /\ (TargetIsOver' <=> TargetIsOver) /\ Len(got["client"]) = 0
  BY <1>b, <1>c, EmptySeq DEF SawEof, TargetIsOver
<1>1. CASE client' = "failed"
  <2>1. ~DownIsLive'
    BY <1>1 DEF DownIsLive
  <2>2. QED
    BY <1>b, <1>d, <2>1, DownFrame
<1>2. CASE /\ client' = "open" /\ Keep({"c1down"})
           /\ s # << >> /\ s[1] = Accepted
           /\ \E n \in 1..L :
                /\ \A i \in 2..n : s[i] # Eof
                /\ Len(r') = n - 1
                /\ \A i \in 1..(n - 1) : r'[i] = s[i + 1]
                /\ Len(wire'["c1down"]) = L - n
                /\ \A i \in 1..(L - n) : wire'["c1down"][i] = s[n + i]
  <2>1. PICK n \in 1..L :
           /\ \A i \in 2..n : s[i] # Eof
           /\ Len(r') = n - 1
           /\ \A i \in 1..(n - 1) : r'[i] = s[i + 1]
           /\ Len(wire'["c1down"]) = L - n
           /\ \A i \in 1..(L - n) : wire'["c1down"][i] = s[n + i]
    BY <1>2
  <2>2. server \in Answered
    BY <1>2, <1>b, Messages DEF ControlInv, TypeInv
  <2>3. Answer = 1 /\ Answer' = 0 /\ DownIsLive
    BY <1>2, <1>b, <1>d, <2>2 DEF Answer, DownIsLive, Answered
  <2>4. Len(r) = 0
    BY <1>c, EmptySeq
  <2>5. Base = -1 /\ Copied = L - 1
    BY <1>a, <1>d, <2>3, <2>4 DEF Base, Copied
  <2>6. Base' = n - 1 /\ Copied' = L - 1
    <3>1. Len(got'["client"]) = 0
      BY <1>b, <1>d
    <3>2. Base' = n - 1
      BY <1>a, <2>1, <2>3, <3>1 DEF Base
    <3>3. QED
      BY <1>a, <2>1, <3>2 DEF Copied
  <2>7. HeldDown /\ OnC1Down /\ OnC2Down
    BY <2>3 DEF DownInv
  <2>8. wire'["c2down"] = wire["c2down"]
    BY <1>2 DEF Keep, Wires
  <2> DEFINE t == wire'["c1down"]
             q == r'
  <2>9. /\ n \in Nat /\ n >= 1 /\ n <= L
        /\ Len(q) = n - 1 /\ \A i \in 1..(n - 1) : q[i] = s[i + 1]
        /\ Len(t) = L - n /\ \A i \in 1..(L - n) : t[i] = s[n + i]
        /\ \A i \in 2..n : s[i] # Eof
    BY <1>a, <2>1
  <2>10. \A i \in 2..L : s[i] = Eof \/ (s[i] = i - 1 /\ i - 1 <= m)
    <3>1. \A i \in (1 + 1)..L : s[i] = Eof \/ (s[i] = -1 + i /\ -1 + i <= m)
      BY <2>3, <2>5, <2>7 DEF OnC1Down, Line
    <3>2. QED
      BY <1>a, <3>1
  <2>11. broken = {} => /\ \A i \in 2..L : s[i] = Eof => i - 1 > m
                        /\ TargetIsOver \/ \A i \in 2..L : s[i] # Eof
    <3>1. broken = {} => /\ \A i \in (1 + 1)..L : s[i] = Eof => -1 + i > m
                         /\ TargetIsOver \/ \A i \in (1 + 1)..L : s[i] # Eof
      BY <2>3, <2>5, <2>7 DEF OnC1Down, Shut, Open
    <3>2. QED
      BY <1>a, <3>1
  <2> HIDE DEF s, L, m, t, q
  <2>12. Line(q, 0, 0, m) /\ Open(q, 0)
    <3>1. \A i \in (0 + 1)..Len(q) : /\ i \in 1..(n - 1) /\ i + 1 \in 2..n /\ i + 1 \in 2..L
                                     /\ (i + 1) - 1 = 0 + i /\ q[i] = s[i + 1]
      BY <1>a, <2>9
    <3>2. \A i \in (0 + 1)..Len(q) : s[i + 1] # Eof
      BY <2>9, <3>1
    <3>3. \A i \in (0 + 1)..Len(q) : s[i + 1] = (i + 1) - 1 /\ (i + 1) - 1 <= m
      BY <2>10, <3>1, <3>2
    <3>4. QED
      BY <3>1, <3>2, <3>3 DEF Line, Open
  <2>13. \A i \in (0 + 1)..Len(t) : /\ n + i \in 2..L /\ t[i] = s[n + i]
                                    /\ (n + i) - 1 = (n - 1) + i
    BY <1>a, <2>9
  <2>14. Line(t, 0, n - 1, m)
    BY <2>10, <2>13 DEF Line
  <2>15. broken = {} => Shut(t, 0, n - 1, m) /\ (TargetIsOver \/ Open(t, 0))
    BY <2>11, <2>13 DEF Shut, Open
  <2>16. HeldDown'
    BY <1>b, <1>d, <2>12 DEF HeldDown, q, m
  <2>17. OnC1Down'
    BY <1>b, <1>d, <2>3, <2>6, <2>14, <2>15 DEF OnC1Down, t, m
  <2>18. OnC2Down'
    BY <1>b, <1>d, <2>5, <2>6, <2>7, <2>8 DEF OnC2Down
  <2>19. Received("client", sent["target"], TargetIsOver)'
    BY <1>b, <1>d DEF DownInv, Received, SawEof
  <2>20. QED
    BY <2>16, <2>17, <2>18, <2>19 DEF DownInv
<1>3. QED
  BY <1>1, <1>2, AnswerWires

(* One more on one side is one less on the other.                          *)
LEMMA Shift ==
  ASSUME NEW a \in Int, NEW b \in Int
  PROVE  (a + 1) + (b - 1) = a + b
  OBVIOUS

(* A byte moves from c2 to c1.                                             *)
LEMMA DownCopy ==
  ASSUME TypeInv, ControlInv, DownInv, CopyDown
  PROVE  DownInv'
<1> DEFINE s == wire["c1down"]
           t == wire["c2down"]
           m == sent["target"]
           x == t[1]
<1>a. /\ s \in Seq(Nat) /\ t \in Seq(Nat) /\ m \in Nat
      /\ Len(s) \in Nat
      /\ Len(t) \in Nat
      /\ Base \in Int
      /\ Copied \in Int
      /\ Answer \in {0, 1}
  BY Numbers
<1>b. /\ server = "copying" /\ "c1" \notin broken
      /\ UNCHANGED <<client, r, server, target, sent, got, broken>>
  BY DEF CopyDown, ends
<1>c. /\ t # << >> /\ x # Eof /\ wire'["c2down"] = Tail(t)
      /\ wire'["c1down"] = After("c1down", x)
  BY CopyWires
<1>d. broken = {}
  BY <1>b, <1>c DEF ControlInv, TypeInv, Conns
<1>e. /\ wire'["c1down"] = Append(s, x) /\ x \in Nat
      /\ Len(Append(s, x)) = Len(s) + 1 /\ Len(Tail(t)) = Len(t) - 1
  BY <1>a, <1>c, <1>d, AppendPoints, TailPoints DEF After, Lost
<1>f. Answer' = Answer /\ Base' = Base /\ (TargetIsOver' <=> TargetIsOver)
  BY <1>b DEF Answer, Base, TargetIsOver
<1>g. Copied = Base + Len(s) /\ Copied' = Copied + 1
  BY <1>a, <1>e, <1>f DEF Copied
<1>1. Received("client", sent["target"], TargetIsOver)'
  BY <1>b, <1>f DEF DownInv, Received, SawEof
<1>2. ASSUME DownIsLive'
      PROVE  (HeldDown /\ OnC1Down /\ OnC2Down)'
  <2>1. HeldDown /\ OnC1Down /\ OnC2Down
    BY <1>2, <1>b DEF DownInv, DownIsLive, SawEof
  <2>2. /\ Line(t, 0, Copied, m) /\ Shut(t, 0, Copied, m)
        /\ TargetIsOver \/ (Copied + Len(t) = m /\ Open(t, 0))
    BY <1>b, <1>d, <2>1 DEF OnC2Down
  <2>3. /\ Line(s, Answer, Base, m) /\ Shut(s, Answer, Base, m)
        /\ TargetIsOver \/ Open(s, Answer)
    BY <1>d, <2>1 DEF OnC1Down
  <2> HIDE DEF s, t, m, x
  <2>4. x = Copied + 1 /\ x <= m
    BY <1>a, <1>c, <2>2, LineTail DEF x
  <2>5. /\ Line(Tail(t), 0, Copied + 1, m) /\ Shut(Tail(t), 0, Copied + 1, m)
        /\ Open(t, 0) => Open(Tail(t), 0)
    BY <1>a, <1>c, <2>2, LineTail
  <2>6. /\ Line(Append(s, x), Answer, Base, m) /\ Shut(Append(s, x), Answer, Base, m)
        /\ Open(s, Answer) => Open(Append(s, x), Answer)
    <3>1. x = Base + Len(s) + 1
      BY <1>a, <1>g, <2>4
    <3>2. QED
      BY <1>a, <1>c, <1>e, <2>3, <2>4, <3>1, LineAppend
  <2>7. HeldDown'
    BY <1>b, <2>1 DEF HeldDown
  <2>8. OnC1Down'
    BY <1>b, <1>e, <1>f, <2>3, <2>6 DEF OnC1Down, m
  <2>9. Copied + Len(t) = m => Copied' + Len(Tail(t)) = m
    <3>1. Copied' + Len(Tail(t)) = (Copied + 1) + (Len(t) - 1)
      BY <1>e, <1>g
    <3>2. (Copied + 1) + (Len(t) - 1) = Copied + Len(t)
      BY <1>a
    <3>3. QED
      BY <3>1, <3>2
  <2>10. OnC2Down'
    BY <1>b, <1>c, <1>f, <1>g, <2>2, <2>5, <2>9 DEF OnC2Down, m
  <2>11. QED
    BY <2>7, <2>8, <2>10
<1>3. QED
  BY <1>1, <1>2 DEF DownInv

(* That copy ends: after the last byte, unless a connection was reset.     *)
LEMMA DownEnd ==
  ASSUME TypeInv, ControlInv, DownInv, CopyDownEnds \/ Return
  PROVE  DownInv'
<1> DEFINE s == wire["c1down"]
           t == wire["c2down"]
           m == sent["target"]
<1>a. /\ s \in Seq(Nat) /\ t \in Seq(Nat) /\ m \in Nat
      /\ Len(s) \in Nat
      /\ Len(t) \in Nat
      /\ Base \in Int
      /\ Copied \in Int
      /\ Answer \in {0, 1}
  BY Numbers
<1>b. /\ server \in {"copying", "waiting"} /\ server' \in {"waiting", "done"}
      /\ UNCHANGED <<client, r, target, sent, got, broken>>
  BY DEF CopyDownEnds, Return, ends
<1>c. wire'["c1down"] = After("c1down", Eof)
  BY CopyWires
<1>d. \/ server = "waiting"
      \/ t # << >> /\ t[1] = Eof
      \/ client = "closed" \/ broken # {}
  BY CopyWires DEF Return
<1>e. Eof \in Nat /\ Len(Append(s, Eof)) = Len(s) + 1
  BY <1>a, Messages, AppendPoints
<1>f. Answer' = Answer /\ Base' = Base /\ (TargetIsOver' <=> TargetIsOver)
  BY <1>b DEF Answer, Base, TargetIsOver, Answered
<1>g. Copied = Base + Len(s)
  BY DEF Copied
<1>1. Received("client", sent["target"], TargetIsOver)'
  BY <1>b, <1>f DEF DownInv, Received, SawEof
<1>2. ASSUME DownIsLive'
      PROVE  (HeldDown /\ OnC1Down /\ OnC2Down)'
  <2>1. HeldDown /\ OnC1Down /\ OnC2Down /\ client # "closed"
    BY <1>2, <1>b DEF DownInv, DownIsLive, SawEof
  <2>2. HeldDown'
    BY <1>b, <2>1 DEF HeldDown
  <2>3. Line(s, Answer, Base, m)
    BY <2>1 DEF OnC1Down
  <2> HIDE DEF s, t, m
  <2>4. Line(Append(s, Eof), Answer, Base, m)
    BY <1>a, <1>e, <2>3, LineAppend
  <2>5. CASE broken # {}
    <3>1. Line(wire'["c1down"], Answer, Base, m)
      BY <1>c, <2>3, <2>4 DEF After, s
    <3>2. OnC1Down'
      BY <1>b, <1>f, <2>5, <3>1 DEF OnC1Down, m
    <3>3. OnC2Down'
      BY <1>b, <2>5 DEF OnC2Down
    <3>4. QED
      BY <2>2, <3>2, <3>3
  <2>6. CASE broken = {}
    <3>1. wire'["c1down"] = Append(s, Eof)
      BY <1>c, <2>6 DEF After, Lost, s
    <3>2. Copied' = Copied + 1
      BY <1>a, <1>e, <1>f, <1>g, <3>1 DEF Copied
    <3>3. TargetIsOver /\ Copied + 1 > m
      <4>1. CASE server = "waiting"
        <5>1. TargetIsOver /\ Copied > m
          BY <2>1, <2>6, <4>1 DEF OnC2Down, m
        <5>2. QED
          BY <1>a, <5>1
      <4>2. CASE server = "copying"
        <5>1. t # << >> /\ t[1] = Eof
          BY <1>d, <2>1, <2>6, <4>2
        <5>2. Shut(t, 0, Copied, m) /\ (TargetIsOver \/ Open(t, 0))
          BY <2>1, <2>6, <4>2 DEF OnC2Down, m, t
        <5>3. QED
          BY <1>a, <5>1, <5>2, LineTail
      <4>3. QED
        BY <1>b, <4>1, <4>2
    <3>4. Shut(s, Answer, Base, m)
      BY <2>1, <2>6 DEF OnC1Down, s, m
    <3>5. Shut(Append(s, Eof), Answer, Base, m)
      <4>1. Base + Len(s) + 1 > m
        BY <1>g, <3>3
      <4>2. QED
        BY <1>a, <1>e, <3>4, <4>1, LineAppend
    <3>6. OnC1Down'
      BY <1>b, <1>f, <2>4, <3>1, <3>3, <3>5 DEF OnC1Down, m
    <3>7. OnC2Down'
      BY <1>b, <1>f, <3>2, <3>3 DEF OnC2Down, m
    <3>8. QED
      BY <2>2, <3>6, <3>7
  <2>7. QED
    BY <2>5, <2>6
<1>3. QED
  BY <1>1, <1>2 DEF DownInv

(* conn.Read: what the reader holds first, then c1.                        *)
LEMMA DownRead ==
  ASSUME TypeInv, ControlInv, DownInv, ClientReads
  PROVE  DownInv'
<1> DEFINE s == wire["c1down"]
           g == got["client"]
           m == sent["target"]
<1>a. /\ s \in Seq(Nat) /\ r \in Seq(Nat) /\ m \in Nat /\ "client" \in Ends
      /\ Len(s) \in Nat /\ Len(r) \in Nat /\ Len(g) \in Nat
  BY Numbers
<1>b. /\ client = "open" /\ ~SawEof("client")
      /\ UNCHANGED <<client, server, target, sent, broken>>
  BY DEF ClientReads
<1>c. DownIsLive /\ Answer = 0 /\ Answer' = 0 /\ (TargetIsOver' <=> TargetIsOver)
  BY <1>b DEF DownIsLive, Answer, ControlInv, Answered, TargetIsOver
<1>d. HeldDown /\ OnC1Down /\ OnC2Down
  BY <1>c DEF DownInv
<1>e. Base = Len(g) + Len(r) /\ Base \in Int
  BY <1>a, <1>c DEF Base
<1>f. /\ \A i \in 1..Len(g) : (g[i] = i /\ i <= m) \/ (i = Len(g) /\ g[i] = Eof)
  BY DEF DownInv, Received
<1>1. CASE /\ r # << >> /\ r[1] \in Nat /\ r' = Tail(r) /\ wire' = wire
           /\ got' = [got EXCEPT !["client"] = Append(@, r[1])]
  <2>1. Line(r, 0, Len(g), m) /\ Open(r, 0)
    BY <1>d DEF HeldDown
  <2>2. /\ r[1] # Eof /\ r[1] = Len(g) + 1 /\ r[1] <= m
        /\ Line(Tail(r), 0, Len(g) + 1, m) /\ Open(Tail(r), 0)
    BY <1>1, <1>a, <2>1, LineTail
  <2>3. /\ \A i \in 1..Len(got'["client"]) :
             \/ got'["client"][i] = i /\ i <= m
             \/ i = Len(got'["client"]) /\ got'["client"][i] = Eof
        /\ Len(got'["client"]) = Len(g) + 1
        /\ ~SawEof("client")'
    BY <1>1, <1>a, <1>b, <1>f, <2>2, Reading, ZenonT(60)
  <2>4. Len(r') = Len(r) - 1
    BY <1>1, <1>a, TailPoints
  <2>5. Base' = Base
    BY <1>a, <1>c, <1>e, <2>3, <2>4 DEF Base
  <2>6. Copied' = Copied
    BY <1>1, <2>5 DEF Copied
  <2>7. HeldDown'
    BY <1>1, <1>b, <2>2, <2>3 DEF HeldDown
  <2>8. OnC1Down'
    BY <1>1, <1>b, <1>c, <1>d, <2>5 DEF OnC1Down
  <2>9. OnC2Down'
    BY <1>1, <1>b, <1>c, <1>d, <2>6 DEF OnC2Down
  <2>10. Received("client", sent["target"], TargetIsOver)'
    BY <1>b, <2>3 DEF Received
  <2>11. QED
    BY <2>7, <2>8, <2>9, <2>10 DEF DownInv
<1>2. CASE /\ r = << >> /\ r' = r /\ Keep({"c1down"})
           /\ s # << >> /\ s[1] \in Nat
           /\ wire'["c1down"] = Tail(s)
           /\ got' = [got EXCEPT !["client"] = Append(@, s[1])]
  <2>1. Len(r) = 0 /\ Len(r') = 0 /\ wire'["c2down"] = wire["c2down"]
    BY <1>2, EmptySeq DEF Keep, Wires
  <2>2. Base = Len(g)
    BY <1>a, <1>e, <2>1
  <2>3. /\ Line(s, 0, Base, m)
        /\ broken = {} => Shut(s, 0, Base, m) /\ (TargetIsOver \/ Open(s, 0))
    BY <1>c, <1>d DEF OnC1Down
  <2>4. /\ s[1] = Eof \/ (s[1] = Base + 1 /\ Base + 1 <= m)
        /\ Line(Tail(s), 0, Base + 1, m)
        /\ broken = {} => /\ s[1] = Eof => Base + 1 > m
                          /\ Shut(Tail(s), 0, Base + 1, m)
                          /\ TargetIsOver \/ (s[1] # Eof /\ Open(Tail(s), 0))
    BY <1>2, <1>a, <1>e, <2>3, LineTail
  <2>5. s[1] = Eof \/ (s[1] = Len(g) + 1 /\ s[1] <= m)
    BY <2>2, <2>4
  <2>6. /\ \A i \in 1..Len(got'["client"]) :
             \/ got'["client"][i] = i /\ i <= m
             \/ i = Len(got'["client"]) /\ got'["client"][i] = Eof
        /\ Len(got'["client"]) = Len(g) + 1 /\ Len(g) <= m
        /\ SawEof("client")' <=> s[1] = Eof
    BY <1>2, <1>a, <1>b, <1>f, <2>5, Reading
  <2>7. SawEof("client")' /\ broken = {} => Len(got'["client"]) = m + 1 /\ TargetIsOver
    BY <1>a, <2>2, <2>4, <2>6, SMTT(30)
  <2>8. Received("client", sent["target"], TargetIsOver)'
    BY <1>b, <1>c, <2>6, <2>7 DEF Received
  <2>9. Len(Tail(s)) = Len(s) - 1
    BY <1>2, <1>a, TailPoints
  <2>10. Base' = Base + 1
    BY <1>a, <1>c, <2>1, <2>2, <2>6 DEF Base
  <2>11. Copied' = Copied
    <3>1. Copied' = (Base + 1) + (Len(s) - 1)
      BY <1>2, <2>9, <2>10 DEF Copied
    <3> HIDE DEF s
    <3>2. (Base + 1) + (Len(s) - 1) = Base + Len(s)
      BY <1>a, <1>e, Numbers, Shift
    <3>3. QED
      BY <3>1, <3>2 DEF Copied, s
  <2>12. HeldDown'
    <3>1. Line(<< >>, 0, Len(g) + 1, m) /\ Open(<< >>, 0)
      BY <1>a, LineEmpty
    <3>2. QED
      BY <1>2, <1>b, <2>6, <3>1 DEF HeldDown
  <2>13. ASSUME ~SawEof("client")'
         PROVE  OnC1Down'
    BY <1>2, <1>b, <1>c, <2>4, <2>6, <2>10, <2>13 DEF OnC1Down
  <2>14. OnC2Down'
    BY <1>b, <1>c, <1>d, <2>1, <2>11 DEF OnC2Down
  <2>15. QED
    BY <2>8, <2>12, <2>13, <2>14 DEF DownInv, DownIsLive
<1>3. QED
  BY <1>1, <1>2, EndWires

(* WriteHeader: the answer is in front of the bytes.                       *)
LEMMA DownHeader ==
  ASSUME TypeInv, ControlInv, DownInv, WriteHeader
  PROVE  DownInv'
<1> DEFINE m == sent["target"]
<1>a. /\ m \in Nat /\ Len(got["client"]) \in Nat
      /\ wire["c1down"] \in Seq(Nat) /\ Accepted \in Nat
  BY Numbers, Messages
<1>b. /\ server = "dialled" /\ server' = "flushed"
      /\ UNCHANGED <<client, r, target, sent, got, broken>>
  BY DEF WriteHeader, ends
<1>c. /\ wire'["c1down"] = After("c1down", Accepted)
      /\ wire'["c2down"] = wire["c2down"] /\ wire["c1down"] = << >>
  BY <1>b, HandlerWires DEF Keep, Wires, ControlInv
<1>d. TargetIsOver' <=> TargetIsOver
  BY <1>b DEF TargetIsOver
<1>1. Received("client", sent["target"], TargetIsOver)'
  BY <1>b, <1>d DEF DownInv, Received, SawEof
<1>2. ASSUME DownIsLive'
      PROVE  (HeldDown /\ OnC1Down /\ OnC2Down)'
  <2>1. HeldDown /\ OnC1Down /\ OnC2Down
    BY <1>2, <1>b DEF DownInv, DownIsLive, SawEof
  <2>2. client = "awaiting"
    BY <1>2, <1>b DEF DownIsLive, ControlInv, Answered
  <2>3. Answer = 0 /\ Answer' = 1
    BY <1>b, <2>2 DEF Answer, Answered
  <2>4. /\ got["client"] = << >> /\ r = << >> /\ Len(got["client"]) = 0 /\ Len(r) = 0
        /\ Len(wire["c1down"]) = 0
    BY <1>c, <2>2, EmptySeq DEF ControlInv
  <2>5. Base = 0 /\ Base' = -1 /\ Copied = 0
    <3>1. Len(got'["client"]) = 0 /\ Len(r') = 0
      BY <1>b, <2>4
    <3>2. Base = 0 /\ Base' = -1
      BY <2>3, <2>4, <3>1 DEF Base
    <3>3. QED
      BY <2>4, <3>2 DEF Copied
  <2>6. HeldDown'
    BY <1>b, <2>1 DEF HeldDown
  <2>7. Len(wire'["c1down"]) \in {0, 1} /\ (broken = {} => Len(wire'["c1down"]) = 1)
    <3>1. Len(Append(wire["c1down"], Accepted)) = 1
      BY <1>a, <2>4, AppendPoints
    <3>2. QED
      BY <1>c, <2>4, <3>1 DEF After, Lost
  <2>8. \A i \in (1 + 1)..Len(wire'["c1down"]) : FALSE
    <3>1. \A k \in {0, 1} : \A i \in (1 + 1)..k : FALSE
      OBVIOUS
    <3>2. QED
      BY <2>7, <3>1
  <2>9. OnC1Down'
    BY <2>3, <2>8 DEF OnC1Down, Line, Shut, Open
  <2>10. broken = {} => Copied' = Copied
    <3>1. broken = {} => Copied' = (-1) + 1
      BY <2>5, <2>7 DEF Copied
    <3>2. (-1) + 1 = 0
      OBVIOUS
    <3>3. QED
      BY <2>5, <3>1, <3>2
  <2>11. OnC2Down'
    BY <1>b, <1>c, <1>d, <2>1, <2>10 DEF OnC2Down
  <2>12. QED
    BY <2>6, <2>9, <2>11
<1>3. QED
  BY <1>1, <1>2 DEF DownInv

(* The target sends a byte.                                                *)
LEMMA DownSend ==
  ASSUME TypeInv, DownInv, TargetSends
  PROVE  DownInv'
<1> DEFINE s == wire["c1down"]
           t == wire["c2down"]
           m == sent["target"]
<1>a. /\ s \in Seq(Nat) /\ t \in Seq(Nat) /\ r \in Seq(Nat) /\ m \in Nat /\ m + 1 \in Nat
      /\ Len(got["client"]) \in Int /\ Len(t) \in Int
      /\ Base \in Int /\ Copied \in Int /\ Answer \in {0, 1}
  BY Numbers
<1>b. /\ target = "open" /\ "c2" \notin broken /\ sent'["target"] = m + 1
      /\ UNCHANGED <<client, r, server, target, got, broken>>
  BY DEF TargetSends, TypeInv, Ends
<1>c. wire'["c2down"] = Append(t, m + 1) /\ wire'["c1down"] = s
  BY <1>b, EndWires, LostWires DEF Keep, Wires, After
<1>d. ~TargetIsOver /\ ~TargetIsOver' /\ Answer' = Answer /\ Base' = Base
  BY <1>b DEF TargetIsOver, Answer, Base
<1>e. Copied' = Copied /\ Len(Append(t, m + 1)) = Len(t) + 1
  BY <1>a, <1>c, <1>d, AppendPoints DEF Copied
<1>f. \A i \in 1..Len(got["client"]) : i <= m => i <= m + 1
  BY <1>a
<1>1. Received("client", sent["target"], TargetIsOver)'
  BY <1>b, <1>d, <1>f DEF DownInv, Received, SawEof
<1>2. ASSUME DownIsLive'
      PROVE  (HeldDown /\ OnC1Down /\ OnC2Down)'
  <2>1. HeldDown /\ OnC1Down /\ OnC2Down
    BY <1>2, <1>b DEF DownInv, DownIsLive, SawEof
  <2>2. Line(r, 0, Len(got["client"]), m) /\ Open(r, 0)
    BY <2>1 DEF HeldDown
  <2>3. Line(s, Answer, Base, m) /\ (broken = {} => Open(s, Answer))
    BY <1>d, <2>1 DEF OnC1Down
  <2>4. broken = {} => /\ server \notin {"waiting", "done"}
                       /\ Line(t, 0, Copied, m) /\ Copied + Len(t) = m /\ Open(t, 0)
    BY <1>d, <2>1 DEF OnC2Down
  <2> HIDE DEF s, t, m
  <2>5. Line(r, 0, Len(got["client"]), m + 1)
    BY <1>a, <2>2, LineMore
  <2>6. Line(s, Answer, Base, m + 1) /\ (broken = {} => Shut(s, Answer, Base, m + 1))
    BY <1>a, <2>3, LineMore
  <2>7. broken = {} =>
          /\ Line(Append(t, m + 1), 0, Copied, m + 1) /\ Open(Append(t, m + 1), 0)
          /\ Copied + Len(Append(t, m + 1)) = m + 1
    <3>1. HAVE broken = {}
    <3>2. Line(t, 0, Copied, m + 1)
      BY <1>a, <2>4, <3>1, LineMore
    <3>3. m + 1 = Copied + Len(t) + 1 /\ m + 1 # Eof
      <4>1. m + 1 = Copied + Len(t) + 1
        BY <2>4, <3>1
      <4>2. m + 1 # Eof
        BY <1>a DEF Eof
      <4>3. QED
        BY <4>1, <4>2
    <3>4. Line(Append(t, m + 1), 0, Copied, m + 1) /\ Open(Append(t, m + 1), 0)
      BY <1>a, <2>4, <3>1, <3>2, <3>3, LineAppend
    <3>5. QED
      BY <1>a, <1>e, <3>3, <3>4
  <2>8. broken = {} => Shut(Append(t, m + 1), 0, Copied, m + 1)
    BY <2>7 DEF Shut, Open
  <2>9. HeldDown'
    BY <1>b, <2>2, <2>5 DEF HeldDown
  <2>10. OnC1Down'
    BY <1>b, <1>c, <1>d, <2>3, <2>6 DEF OnC1Down
  <2>11. OnC2Down'
    BY <1>b, <1>c, <1>e, <2>4, <2>7, <2>8 DEF OnC2Down
  <2>12. QED
    BY <2>9, <2>10, <2>11
<1>3. QED
  BY <1>1, <1>2 DEF DownInv

(* The target ends its stream.                                             *)
LEMMA DownShut ==
  ASSUME TypeInv, DownInv, TargetEnds
  PROVE  DownInv'
<1> DEFINE t == wire["c2down"]
           m == sent["target"]
<1>a. /\ t \in Seq(Nat) /\ m \in Nat /\ Eof \in Nat /\ Len(t) \in Int /\ Copied \in Int
  BY Numbers, Messages
<1>b. /\ target = "open" /\ target' \in {"quiet", "closed"}
      /\ UNCHANGED <<client, r, server, sent, got, broken>>
  BY DEF TargetEnds
<1>c. /\ wire'["c2down"] = After("c2down", Eof) /\ wire'["c1down"] = wire["c1down"]
      /\ broken = {} => wire'["c2down"] = Append(t, Eof)
  BY EndWires DEF Keep, Wires, After, Lost
<1>d. ~TargetIsOver /\ TargetIsOver' /\ Answer' = Answer /\ Base' = Base /\ Copied' = Copied
  BY <1>b, <1>c DEF TargetIsOver, Answer, Base, Copied
<1>1. Received("client", sent["target"], TargetIsOver)'
  BY <1>b, <1>d DEF DownInv, Received, SawEof
<1>2. ASSUME DownIsLive'
      PROVE  (HeldDown /\ OnC1Down /\ OnC2Down)'
  <2>1. HeldDown /\ OnC1Down /\ OnC2Down
    BY <1>2, <1>b DEF DownInv, DownIsLive, SawEof
  <2>2. HeldDown'
    BY <1>b, <2>1 DEF HeldDown
  <2>3. OnC1Down'
    BY <1>b, <1>c, <1>d, <2>1 DEF OnC1Down
  <2>4. broken = {} => /\ server \notin {"waiting", "done"}
                       /\ Line(t, 0, Copied, m) /\ Shut(t, 0, Copied, m)
                       /\ Copied + Len(t) = m
    BY <1>d, <2>1 DEF OnC2Down
  <2> HIDE DEF t, m
  <2>5. broken = {} => Line(Append(t, Eof), 0, Copied, m) /\ Shut(Append(t, Eof), 0, Copied, m)
    <3>1. Copied + Len(t) = m => Copied + Len(t) + 1 > m
      BY <1>a
    <3>2. QED
      BY <1>a, <2>4, <3>1, LineAppend
  <2>6. OnC2Down'
    BY <1>b, <1>c, <1>d, <2>4, <2>5 DEF OnC2Down, m
  <2>7. QED
    BY <2>2, <2>3, <2>6
<1>3. QED
  BY <1>1, <1>2 DEF DownInv

(* A connection is reset: there are gaps behind it, and nothing comes.     *)
LEMMA DownBreak ==
  ASSUME TypeInv, DownInv, Break
  PROVE  DownInv'
<1>a. /\ Base \in Int /\ Answer \in {0, 1} /\ sent["target"] \in Nat
      /\ UNCHANGED <<client, r, server, target, sent, got>>
  BY Numbers DEF Break, ends
<1>b. broken' # {} /\ (wire'["c1down"] = << >> \/ wire'["c1down"] = wire["c1down"])
  <2>1. broken' # {} /\ \E c \in Conns \ broken :
           /\ \A w \in Of(c) : wire'[w] = << >>
           /\ \A w \in Wires \ Of(c) : wire'[w] = wire[w]
    BY EndWires
  <2>2. "c1down" \in Wires
    BY DEF Wires
  <2>3. QED
    BY <2>1, <2>2
<1>c. Answer' = Answer /\ Base' = Base
  BY <1>a DEF Answer, Base
<1>1. Received("client", sent["target"], TargetIsOver)'
  BY <1>a, <1>b DEF DownInv, Received
<1>2. ASSUME DownIsLive'
      PROVE  (HeldDown /\ OnC1Down /\ OnC2Down)'
  <2>1. HeldDown /\ OnC1Down
    BY <1>2, <1>a DEF DownInv, DownIsLive, SawEof
  <2>2. HeldDown'
    BY <1>a, <2>1 DEF HeldDown
  <2>3. Line(<< >>, Answer, Base, sent["target"])
    BY <1>a, LineEmpty
  <2>4. OnC1Down' /\ OnC2Down'
    BY <1>a, <1>b, <1>c, <2>1, <2>3 DEF OnC1Down, OnC2Down
  <2>5. QED
    BY <2>2, <2>4
<1>3. QED
  BY <1>1, <1>2 DEF DownInv

(* What the client receives is the target's stream, step by step.          *)
LEMMA DownNext ==
  ASSUME TypeInv, ControlInv, DownInv, [Next]_vars
  PROVE  DownInv'
<1>1. CASE Dial
  <2>1. /\ got'["client"] = got["client"] /\ sent'["target"] = sent["target"]
        /\ r' = r /\ broken' = broken /\ (TargetIsOver' <=> TargetIsOver)
    BY <1>1 DEF Dial, TargetIsOver
  <2>2. /\ wire'["c1down"] = wire["c1down"]
        /\ wire'["c2down"] = wire["c2down"]
    BY <1>1, DialerWires DEF Keep, Wires
  <2>3. DownIsLive' => /\ DownIsLive /\ Answer' = Answer /\ server' # "refused"
                       /\ server' \in {"waiting", "done"} <=> server \in {"waiting", "done"}
    BY <1>1, <2>1 DEF Dial, DownIsLive, SawEof, Answer, Answered, ControlInv
  <2>4. QED
    BY <2>1, <2>2, <2>3, DownFrame
<1>2. CASE ReadResponse
  BY <1>2, DownAnswer
<1>3. CASE ValidateProxyRequest
  <2>1. /\ got'["client"] = got["client"] /\ sent'["target"] = sent["target"]
        /\ r' = r /\ broken' = broken /\ (TargetIsOver' <=> TargetIsOver)
    BY <1>3 DEF ValidateProxyRequest, TargetIsOver
  <2>2. server' # "refused" => /\ wire'["c1down"] = wire["c1down"]
                               /\ wire'["c2down"] = wire["c2down"]
    BY <1>3, HandlerWires DEF Keep, Wires
  <2>3. DownIsLive' => /\ DownIsLive /\ Answer' = Answer /\ server' # "refused"
                       /\ server' \in {"waiting", "done"} <=> server \in {"waiting", "done"}
    BY <1>3, <2>1 DEF ValidateProxyRequest, DownIsLive, SawEof, Answer, Answered
  <2>4. QED
    BY <2>1, <2>2, <2>3, DownFrame
<1>4. CASE DialTarget
  <2>1. /\ got'["client"] = got["client"] /\ sent'["target"] = sent["target"]
        /\ r' = r /\ broken' = broken /\ (TargetIsOver' <=> TargetIsOver)
    BY <1>4 DEF DialTarget, TargetIsOver, ControlInv
  <2>2. server' # "refused" => /\ wire'["c1down"] = wire["c1down"]
                               /\ wire'["c2down"] = wire["c2down"]
    BY <1>4, HandlerWires DEF Keep, Wires
  <2>3. DownIsLive' => /\ DownIsLive /\ Answer' = Answer /\ server' # "refused"
                       /\ server' \in {"waiting", "done"} <=> server \in {"waiting", "done"}
    BY <1>4, <2>1 DEF DialTarget, DownIsLive, SawEof, Answer, Answered
  <2>4. QED
    BY <2>1, <2>2, <2>3, DownFrame
<1>5. CASE WriteHeader
  BY <1>5, DownHeader
<1>6. CASE Hijack
  <2>1. /\ got'["client"] = got["client"] /\ sent'["target"] = sent["target"]
        /\ r' = r /\ broken' = broken /\ (TargetIsOver' <=> TargetIsOver)
    BY <1>6 DEF Hijack, ends, TargetIsOver
  <2>2. wire'["c1down"] = wire["c1down"] /\ wire'["c2down"] = wire["c2down"]
    BY <1>6 DEF Hijack, ends
  <2>3. DownIsLive' => /\ DownIsLive /\ Answer' = Answer /\ server' # "refused"
                       /\ server' \in {"waiting", "done"} <=> server \in {"waiting", "done"}
    BY <1>6, <2>1 DEF Hijack, ends, DownIsLive, SawEof, Answer, Answered
  <2>4. QED
    BY <2>1, <2>2, <2>3, DownFrame
<1>7. CASE CopyDown
  BY <1>7, DownCopy
<1>8. CASE CopyDownEnds
  BY <1>8, DownEnd
<1>9. CASE Return
  BY <1>9, DownEnd
<1>10. CASE CopyUp
  <2>1. /\ got'["client"] = got["client"] /\ sent'["target"] = sent["target"]
        /\ r' = r /\ broken' = broken /\ (TargetIsOver' <=> TargetIsOver)
    BY <1>10 DEF CopyUp, ends, TargetIsOver
  <2>2. /\ wire'["c1down"] = wire["c1down"]
        /\ wire'["c2down"] = wire["c2down"]
    BY <1>10, CopyWires DEF Keep, Wires
  <2>3. DownIsLive' => /\ DownIsLive /\ Answer' = Answer /\ server' # "refused"
                       /\ server' \in {"waiting", "done"} <=> server \in {"waiting", "done"}
    BY <1>10, <2>1 DEF CopyUp, ends, DownIsLive, SawEof, Answer, Answered
  <2>4. QED
    BY <2>1, <2>2, <2>3, DownFrame
<1>11. CASE CopyUpEnds
  <2>1. /\ got'["client"] = got["client"] /\ sent'["target"] = sent["target"]
        /\ r' = r /\ broken' = broken /\ (TargetIsOver' <=> TargetIsOver)
    BY <1>11 DEF CopyUpEnds, ends, TargetIsOver
  <2>2. /\ wire'["c1down"] = wire["c1down"]
        /\ wire'["c2down"] = wire["c2down"]
    BY <1>11, CopyWires DEF Keep, Wires
  <2>3. DownIsLive' => /\ DownIsLive /\ Answer' = Answer /\ server' # "refused"
                       /\ server' \in {"waiting", "done"} <=> server \in {"waiting", "done"}
    BY <1>11, <2>1 DEF CopyUpEnds, ends, DownIsLive, SawEof, Answer, Answered
  <2>4. QED
    BY <2>1, <2>2, <2>3, DownFrame
<1>12. CASE BackgroundRead
  <2>1. /\ got'["client"] = got["client"] /\ sent'["target"] = sent["target"]
        /\ r' = r /\ broken' = broken /\ (TargetIsOver' <=> TargetIsOver)
    BY <1>12 DEF BackgroundRead, ends, TargetIsOver
  <2>2. /\ wire'["c1down"] = wire["c1down"]
        /\ wire'["c2down"] = wire["c2down"]
    BY <1>12, HandlerWires DEF Keep, Wires
  <2>3. DownIsLive' => /\ DownIsLive /\ Answer' = Answer /\ server' # "refused"
                       /\ server' \in {"waiting", "done"} <=> server \in {"waiting", "done"}
    BY <1>12, <2>1 DEF BackgroundRead, ends, DownIsLive, SawEof, Answer, Answered
  <2>4. QED
    BY <2>1, <2>2, <2>3, DownFrame
<1>13. CASE ClientSends
  <2>1. /\ got'["client"] = got["client"] /\ sent'["target"] = sent["target"]
        /\ r' = r /\ broken' = broken /\ (TargetIsOver' <=> TargetIsOver)
    BY <1>13 DEF ClientSends, TargetIsOver, TypeInv, Ends
  <2>2. /\ wire'["c1down"] = wire["c1down"]
        /\ wire'["c2down"] = wire["c2down"]
    BY <1>13, DialerWires DEF Keep, Wires
  <2>3. DownIsLive' => /\ DownIsLive /\ Answer' = Answer /\ server' # "refused"
                       /\ server' \in {"waiting", "done"} <=> server \in {"waiting", "done"}
    BY <1>13, <2>1 DEF ClientSends, DownIsLive, SawEof, Answer, Answered
  <2>4. QED
    BY <2>1, <2>2, <2>3, DownFrame
<1>14. CASE ClientReads
  BY <1>14, DownRead
<1>15. CASE ClientCloses
  <2>1. /\ got'["client"] = got["client"] /\ sent'["target"] = sent["target"]
        /\ r' = r /\ broken' = broken /\ (TargetIsOver' <=> TargetIsOver)
    BY <1>15 DEF ClientCloses, TargetIsOver
  <2>2. /\ wire'["c1down"] = wire["c1down"]
        /\ wire'["c2down"] = wire["c2down"]
    BY <1>15, DialerWires DEF Keep, Wires
  <2>3. DownIsLive' => /\ DownIsLive /\ Answer' = Answer /\ server' # "refused"
                       /\ server' \in {"waiting", "done"} <=> server \in {"waiting", "done"}
    BY <1>15, <2>1 DEF ClientCloses, DownIsLive, SawEof, Answer, Answered
  <2>4. QED
    BY <2>1, <2>2, <2>3, DownFrame
<1>16. CASE TargetSends
  BY <1>16, DownSend
<1>17. CASE TargetReads
  <2>1. /\ got'["client"] = got["client"] /\ sent'["target"] = sent["target"]
        /\ r' = r /\ broken' = broken /\ (TargetIsOver' <=> TargetIsOver)
    BY <1>17 DEF TargetReads, TargetIsOver, TypeInv, Ends
  <2>2. /\ wire'["c1down"] = wire["c1down"]
        /\ wire'["c2down"] = wire["c2down"]
    BY <1>17, EndWires DEF Keep, Wires
  <2>3. DownIsLive' => /\ DownIsLive /\ Answer' = Answer /\ server' # "refused"
                       /\ server' \in {"waiting", "done"} <=> server \in {"waiting", "done"}
    BY <1>17, <2>1 DEF TargetReads, DownIsLive, SawEof, Answer, Answered
  <2>4. QED
    BY <2>1, <2>2, <2>3, DownFrame
<1>18. CASE TargetEnds
  BY <1>18, DownShut
<1>19. CASE TargetCloses
  <2>1. /\ got'["client"] = got["client"] /\ sent'["target"] = sent["target"]
        /\ r' = r /\ broken' = broken /\ (TargetIsOver' <=> TargetIsOver)
    BY <1>19 DEF TargetCloses, TargetIsOver
  <2>2. wire'["c1down"] = wire["c1down"] /\ wire'["c2down"] = wire["c2down"]
    BY <1>19 DEF TargetCloses
  <2>3. DownIsLive' => /\ DownIsLive /\ Answer' = Answer /\ server' # "refused"
                       /\ server' \in {"waiting", "done"} <=> server \in {"waiting", "done"}
    BY <1>19, <2>1 DEF TargetCloses, DownIsLive, SawEof, Answer, Answered
  <2>4. QED
    BY <2>1, <2>2, <2>3, DownFrame
<1>20. CASE Break
  BY <1>20, DownBreak
<1>21. CASE UNCHANGED vars
  <2>1. /\ got'["client"] = got["client"] /\ sent'["target"] = sent["target"]
        /\ r' = r /\ broken' = broken /\ (TargetIsOver' <=> TargetIsOver)
    BY <1>21 DEF vars, TargetIsOver
  <2>2. wire'["c1down"] = wire["c1down"] /\ wire'["c2down"] = wire["c2down"]
    BY <1>21 DEF vars
  <2>3. DownIsLive' => /\ DownIsLive /\ Answer' = Answer /\ server' # "refused"
                       /\ server' \in {"waiting", "done"} <=> server \in {"waiting", "done"}
    BY <1>21, <2>1 DEF vars, DownIsLive, SawEof, Answer, Answered
  <2>4. QED
    BY <2>1, <2>2, <2>3, DownFrame
<1>22. QED
  BY <1>1, <1>2, <1>3, <1>4, <1>5, <1>6, <1>7, <1>8, <1>9, <1>10,
     <1>11, <1>12, <1>13, <1>14, <1>15, <1>16, <1>17, <1>18, <1>19, <1>20, <1>21
  DEF Next, Handler, Goroutine

-----------------------------------------------------------------------------
(* From the client to the target.                                          *)

(* Steps that leave that way alone.                                        *)
LEMMA UpFrame ==
  ASSUME UpInv, got'["target"] = got["target"], sent'["client"] = sent["client"],
         broken' = broken, client' = "closed" <=> client = "closed",
         UpIsLive' => /\ UpIsLive /\ buf' = buf
                      /\ wire'["c1up"] = wire["c1up"] /\ wire'["c2up"] = wire["c2up"]
                      /\ copier' = "done" <=> copier = "done"
  PROVE  UpInv'
<1>1. Received("target", sent["client"], client = "closed")'
  BY DEF UpInv, Received, SawEof
<1>2. ASSUME UpIsLive'
      PROVE  (OnC2Up /\ HeldUp /\ OnC1Up)'
  <2>1. Arrived' = Arrived
    BY <1>2 DEF Arrived
  <2>2. OnC2Up'
    BY <1>2 DEF UpInv, OnC2Up
  <2>3. HeldUp'
    BY <1>2, <2>1 DEF UpInv, HeldUp
  <2>4. OnC1Up'
    BY <1>2, <2>1 DEF UpInv, OnC1Up
  <2>5. QED
    BY <2>2, <2>3, <2>4
<1>3. QED
  BY <1>1, <1>2 DEF UpInv

(* ReadResponse: a dialer that gives up has sent nothing.                  *)
LEMMA UpAnswer ==
  ASSUME TypeInv, ControlInv, UpInv, ReadResponse
  PROVE  UpInv'
<1>a. /\ client = "awaiting" /\ client' \in {"open", "failed"}
      /\ UNCHANGED <<server, buf, copier, target, sent, got, broken>>
  BY DEF ReadResponse
<1>b. wire'["c2up"] = wire["c2up"]
  BY AnswerWires DEF Keep, Wires
<1>c. UpIsLive' => wire'["c1up"] = wire["c1up"]
  <2>1. CASE client' = "open"
    BY <2>1, AnswerWires DEF Keep, Wires
  <2>2. CASE client' = "failed"
    <3>1. /\ wire'["c1up"] = After("c1up", Eof)
          /\ (wire["c1down"] # << >> /\ wire["c1down"][1] = Rejected) \/ "c1" \in broken
      BY <2>2, AnswerWires
    <3>2. CASE "c1" \in broken
      BY <3>1, <3>2, LostWires DEF After
    <3>3. CASE "c1" \notin broken
      <4>1. server = "refused"
        BY <1>a, <3>1, <3>3, Messages DEF ControlInv, TypeInv
      <4>2. QED
        BY <1>a, <4>1 DEF UpIsLive
    <3>4. QED
      BY <3>2, <3>3
  <2>3. QED
    BY <1>a, <2>1, <2>2
<1>d. UpIsLive' => UpIsLive
  BY <1>a DEF UpIsLive, SawEof
<1>1. QED
  BY <1>a, <1>b, <1>c, <1>d, UpFrame

(* The request is read, and nothing has come after it.                     *)
LEMMA UpValidate ==
  ASSUME TypeInv, ControlInv, ControlInv', UpInv, ValidateProxyRequest
  PROVE  UpInv'
<1>a. /\ server = "idle" /\ server' \in {"valid", "refused"}
      /\ UNCHANGED <<client, buf, copier, target, sent, got, broken>>
  BY DEF ValidateProxyRequest
<1>b. wire["c1up"] # << >> /\ wire'["c2up"] = wire["c2up"]
  BY HandlerWires DEF Keep, Wires
<1>c. /\ client = "awaiting" /\ sent["client"] = 0 /\ buf = << >> /\ copier = "none"
      /\ got["target"] = << >> /\ wire["c2up"] = << >>
  BY <1>a, <1>b DEF ControlInv, Answered
<1>d. server' = "valid" => wire'["c1up"] = << >>
  BY DEF ControlInv
<1>1. Received("target", sent["client"], client = "closed")'
  BY <1>a DEF UpInv, Received, SawEof
<1>2. ASSUME UpIsLive'
      PROVE  (OnC2Up /\ HeldUp /\ OnC1Up)'
  <2>1. server' = "valid"
    BY <1>2, <1>a DEF UpIsLive
  <2>2. /\ buf' = << >> /\ wire'["c1up"] = << >> /\ wire'["c2up"] = << >>
        /\ got'["target"] = << >> /\ sent'["client"] = 0 /\ copier' = "none"
    BY <1>a, <1>b, <1>c, <1>d, <2>1
  <2>3. Len(<< >>) = 0 /\ Arrived' = 0
    <3>1. Len(<< >>) = 0
      BY EmptySeq
    <3>2. Arrived' = 0 + 0
      BY <2>2, <3>1 DEF Arrived
    <3>3. QED
      BY <3>1, <3>2
  <2>4. Line(<< >>, 0, 0, 0) /\ Shut(<< >>, 0, 0, 0) /\ Open(<< >>, 0)
    BY LineEmpty
  <2>5. OnC2Up'
    BY <2>2, <2>3, <2>4 DEF OnC2Up
  <2>6. HeldUp'
    BY <2>2, <2>3, <2>4 DEF HeldUp
  <2>7. OnC1Up'
    BY <2>2, <2>3, <2>4 DEF OnC1Up
  <2>8. QED
    BY <2>5, <2>6, <2>7
<1>3. QED
  BY <1>1, <1>2 DEF UpInv

(* net/http's reader takes a byte.                                         *)
LEMMA UpBackground ==
  ASSUME TypeInv, ControlInv, UpInv, BackgroundRead
  PROVE  UpInv'
<1> DEFINE s == wire["c1up"]
           m == sent["client"]
           x == s[1]
<1>a. s \in Seq(Nat) /\ Len(s) \in Nat /\ m \in Nat /\ Arrived \in Int
  BY Numbers
<1>b. /\ server = "flushed" /\ buf = << >>
      /\ UNCHANGED <<client, server, copier, target, sent, got, broken>>
  BY DEF BackgroundRead, ends
<1>c. /\ s # << >> /\ x # Eof /\ x \in Nat /\ buf' = <<x>>
      /\ wire'["c1up"] = Tail(s) /\ wire'["c2up"] = wire["c2up"]
  BY HandlerWires DEF Keep, Wires
<1>d. copier = "none"
  BY <1>b DEF ControlInv, Answered
<1>e. /\ Arrived' = Arrived /\ Len(buf) = 0 /\ Len(buf') = 1 /\ Len(Tail(s)) = Len(s) - 1
  BY <1>a, <1>b, <1>c, EmptySeq, TailPoints DEF Arrived
<1>1. Received("target", sent["client"], client = "closed")'
  BY <1>b DEF UpInv, Received, SawEof
<1>2. ASSUME UpIsLive'
      PROVE  (OnC2Up /\ HeldUp /\ OnC1Up)'
  <2>1. OnC2Up /\ HeldUp /\ OnC1Up
    BY <1>2, <1>b DEF UpInv, UpIsLive, SawEof
  <2>2. OnC2Up'
    BY <1>b, <1>c, <2>1 DEF OnC2Up
  <2>3. Arrived + 0 = Arrived
    BY <1>a
  <2>4. "c2" \notin broken => Line(s, 0, Arrived, m)
    BY <1>b, <1>d, <1>e, <2>1, <2>3 DEF HeldUp
  <2>5. broken = {} => /\ Shut(s, 0, Arrived, m)
                       /\ client = "closed" \/ (Arrived + Len(s) = m /\ Open(s, 0))
    BY <1>b, <1>d, <1>e, <2>1, <2>3 DEF OnC1Up
  <2> HIDE DEF s, m, x
  <2>6. "c2" \notin broken => x = Arrived + 1 /\ Arrived + 1 <= m /\ Line(Tail(s), 0, Arrived + 1, m)
    BY <1>a, <1>c, <2>4, LineTail DEF x
  <2>7. broken = {} => /\ Shut(Tail(s), 0, Arrived + 1, m)
                       /\ client = "closed" \/ ((Arrived + 1) + (Len(s) - 1) = m /\ Open(Tail(s), 0))
    <3>1. (Arrived + 1) + (Len(s) - 1) = Arrived + Len(s)
      BY <1>a, Shift
    <3>2. broken = {} => Shut(Tail(s), 0, Arrived + 1, m)
      BY <1>a, <1>c, <2>5, LineTail
    <3>3. Open(s, 0) => Open(Tail(s), 0)
      BY <1>a, <1>c, LineTail
    <3>4. QED
      BY <2>5, <3>1, <3>2, <3>3
  <2>8. "c2" \notin broken => Line(buf', 0, Arrived, m) /\ Open(buf', 0)
    <3>1. \A i \in (0 + 1)..1 : i = 1
      OBVIOUS
    <3>2. <<x>>[1] = x
      OBVIOUS
    <3>3. QED
      BY <1>c, <1>e, <2>6, <3>1, <3>2 DEF Line, Open
  <2>9. HeldUp'
    BY <1>b, <1>c, <1>e, <2>6, <2>8 DEF HeldUp, m
  <2>10. OnC1Up'
    BY <1>b, <1>c, <1>d, <1>e, <2>7 DEF OnC1Up, m
  <2>11. QED
    BY <2>2, <2>9, <2>10
<1>3. QED
  BY <1>1, <1>2 DEF UpInv

(* A byte moves to c2, from net/http's reader as long as it holds any.     *)
LEMMA UpCopy ==
  ASSUME TypeInv, UpInv, CopyUp
  PROVE  UpInv'
<1> DEFINE s == wire["c1up"]
           t == wire["c2up"]
           g == Len(got["target"])
           m == sent["client"]
<1>a. /\ s \in Seq(Nat) /\ t \in Seq(Nat) /\ buf \in Seq(Nat) /\ m \in Nat /\ g \in Int
      /\ Len(s) \in Int /\ Len(t) \in Int /\ Len(buf) \in Int /\ Arrived \in Int
  BY Numbers
<1>b. /\ copier = "copying" /\ "c2" \notin broken
      /\ UNCHANGED <<client, server, copier, target, sent, got, broken>>
  BY DEF CopyUp, ends
<1>c. ~Lost("c2up")
  BY <1>b, LostWires
<1>d. Arrived = g + Len(t)
  BY DEF Arrived
<1>1. Received("target", sent["client"], client = "closed")'
  BY <1>b DEF UpInv, Received, SawEof
<1>2. ASSUME UpIsLive'
      PROVE  (OnC2Up /\ HeldUp /\ OnC1Up)'
  <2>1. OnC2Up /\ HeldUp /\ OnC1Up
    BY <1>2, <1>b DEF UpInv, UpIsLive, SawEof
  <2>2. /\ Line(t, 0, g, m)
        /\ broken = {} => Shut(t, 0, g, m) /\ (client = "closed" \/ Open(t, 0))
    BY <2>1 DEF OnC2Up
  <2>3. /\ Line(buf, 0, Arrived, m) /\ Open(buf, 0)
        /\ Line(s, 0, Arrived + Len(buf), m)
    BY <1>b, <2>1 DEF HeldUp
  <2>4. broken = {} =>
          /\ Shut(s, 0, Arrived + Len(buf), m)
          /\ client = "closed" \/ (Arrived + Len(buf) + Len(s) = m /\ Open(s, 0))
    BY <1>b, <2>1 DEF OnC1Up
  <2>5. ASSUME NEW x \in Nat, x # Eof, x = Arrived + 1, x <= m, wire'["c2up"] = Append(t, x)
        PROVE  OnC2Up' /\ Arrived' = Arrived + 1
    <3>1. x = g + Len(t) + 1
      BY <1>d, <2>5
    <3> HIDE DEF t, g, m
    <3>2. /\ Line(Append(t, x), 0, g, m)
          /\ broken = {} => /\ Shut(Append(t, x), 0, g, m)
                            /\ client = "closed" \/ Open(Append(t, x), 0)
      BY <1>a, <2>2, <2>5, <3>1, LineAppend
    <3>3. OnC2Up'
      BY <1>b, <2>5, <3>2 DEF OnC2Up, g, m
    <3>4. Len(Append(t, x)) = Len(t) + 1
      BY <1>a, AppendPoints
    <3>5. Arrived' = g + (Len(t) + 1)
      BY <1>b, <2>5, <3>4 DEF Arrived, g
    <3>6. QED
      BY <1>a, <1>d, <3>3, <3>5
  <2>6. CASE /\ buf # << >> /\ buf[1] # Eof /\ buf' = Tail(buf)
             /\ Keep({"c2up"}) /\ wire'["c2up"] = After("c2up", buf[1])
    <3>1. wire'["c2up"] = Append(t, buf[1]) /\ wire'["c1up"] = s
      BY <1>c, <2>6 DEF After, Keep, Wires
    <3>2. /\ buf[1] = Arrived + 1 /\ buf[1] <= m /\ buf[1] \in Nat
          /\ Line(Tail(buf), 0, Arrived + 1, m) /\ Open(Tail(buf), 0)
      BY <1>a, <2>3, <2>6, LineTail, TailPoints
    <3>3. OnC2Up' /\ Arrived' = Arrived + 1
      BY <2>5, <2>6, <3>1, <3>2
    <3>4. Arrived' + Len(buf') = Arrived + Len(buf)
      <4>1. Arrived' + Len(buf') = (Arrived + 1) + (Len(buf) - 1)
        BY <1>a, <2>6, <3>3, TailPoints
      <4>2. QED
        BY <1>a, <4>1, Shift
    <3>5. HeldUp'
      BY <1>b, <2>3, <2>6, <3>1, <3>2, <3>3, <3>4 DEF HeldUp
    <3>6. OnC1Up'
      BY <1>b, <2>4, <3>1, <3>4 DEF OnC1Up
    <3>7. QED
      BY <3>3, <3>5, <3>6
  <2>7. CASE /\ buf = << >> /\ buf' = buf
             /\ s # << >> /\ s[1] # Eof
             /\ Keep({"c1up", "c2up"}) /\ wire'["c1up"] = Tail(s)
             /\ wire'["c2up"] = After("c2up", s[1])
    <3>1. wire'["c2up"] = Append(t, s[1]) /\ Len(buf) = 0 /\ Len(buf') = 0
      BY <1>c, <2>7, EmptySeq DEF After
    <3>2. Arrived + Len(buf) = Arrived
      BY <1>a, <3>1
    <3>3. /\ s[1] = Arrived + 1 /\ s[1] <= m /\ s[1] \in Nat
          /\ Line(Tail(s), 0, Arrived + 1, m)
          /\ broken = {} => /\ Shut(Tail(s), 0, Arrived + 1, m)
                            /\ client = "closed" \/ Open(Tail(s), 0)
      BY <1>a, <2>3, <2>4, <2>7, <3>2, LineTail, TailPoints
    <3>4. OnC2Up' /\ Arrived' = Arrived + 1
      BY <2>5, <2>7, <3>1, <3>3
    <3>5. Arrived' + Len(buf') = Arrived + 1
      BY <1>a, <3>1, <3>4
    <3>6. HeldUp'
      <4>1. Line(<< >>, 0, Arrived + 1, m) /\ Open(<< >>, 0)
        BY <1>a, LineEmpty
      <4>2. QED
        BY <1>b, <2>7, <3>3, <3>4, <3>5, <4>1 DEF HeldUp
    <3>7. (Arrived + 1) + Len(Tail(s)) = Arrived + Len(s)
      <4>1. Len(Tail(s)) = Len(s) - 1
        BY <1>a, <2>7, TailPoints
      <4>2. QED
        BY <1>a, <4>1, Shift, ZenonT(60)
    <3>8. OnC1Up'
      BY <1>b, <2>4, <2>7, <3>2, <3>3, <3>5, <3>7 DEF OnC1Up
    <3>9. QED
      BY <3>4, <3>6, <3>8
  <2>8. QED
    BY <2>6, <2>7, CopyWires
<1>3. QED
  BY <1>1, <1>2 DEF UpInv

(* That copy ends, or the handler closes what is left of it: after the     *)
(* last byte, unless a connection was reset.                               *)
LEMMA UpEnd ==
  ASSUME TypeInv, UpInv, CopyUpEnds \/ Return
  PROVE  UpInv'
<1> DEFINE s == wire["c1up"]
           t == wire["c2up"]
           g == Len(got["target"])
           m == sent["client"]
<1>a. /\ s \in Seq(Nat) /\ t \in Seq(Nat) /\ m \in Nat /\ g \in Int
      /\ Len(t) \in Int /\ Len(buf) \in Int /\ Arrived \in Int
  BY Numbers
<1>b. /\ copier \in {"copying", "done"} /\ copier' = "done"
      /\ server' = server \/ server = "waiting"
      /\ UNCHANGED <<client, target, sent, got, broken>>
  BY DEF CopyUpEnds, Return, BothEnded, ends
<1>c. wire'["c2up"] = After("c2up", Eof)
  BY CopyWires
<1>d. \/ copier = "done"
      \/ buf = << >> /\ s # << >> /\ s[1] = Eof
      \/ target = "closed" \/ broken # {}
  BY CopyWires DEF Return, BothEnded
<1>e. Eof \in Nat /\ Len(Append(t, Eof)) = Len(t) + 1
  BY <1>a, Messages, AppendPoints
<1>f. Arrived = g + Len(t)
  BY DEF Arrived
<1>1. Received("target", sent["client"], client = "closed")'
  BY <1>b DEF UpInv, Received, SawEof
<1>2. ASSUME UpIsLive'
      PROVE  (OnC2Up /\ HeldUp /\ OnC1Up)'
  <2>1. OnC2Up /\ HeldUp /\ OnC1Up /\ target # "closed"
    BY <1>2, <1>b DEF UpInv, UpIsLive, SawEof
  <2>2. HeldUp'
    BY <1>b DEF HeldUp
  <2>3. Line(t, 0, g, m)
    BY <2>1 DEF OnC2Up
  <2> HIDE DEF s, t, g, m
  <2>4. Line(Append(t, Eof), 0, g, m)
    BY <1>a, <1>e, <2>3, LineAppend
  <2>5. CASE broken # {}
    <3>1. Line(wire'["c2up"], 0, g, m)
      BY <1>c, <2>3, <2>4 DEF After, t
    <3>2. OnC2Up' /\ OnC1Up'
      BY <1>b, <2>5, <3>1 DEF OnC2Up, OnC1Up, g, m
    <3>3. QED
      BY <2>2, <3>2
  <2>6. CASE broken = {}
    <3>1. wire'["c2up"] = Append(t, Eof)
      BY <1>c, <2>6 DEF After, Lost, t
    <3>2. Arrived' = Arrived + 1
      <4>1. Arrived' = g + (Len(t) + 1)
        BY <1>b, <1>e, <3>1 DEF Arrived, g
      <4>2. QED
        BY <1>a, <1>f, <4>1
    <3>3. client = "closed" /\ Arrived + 1 > m
      <4>1. CASE copier = "done"
        <5>1. client = "closed" /\ Arrived > m
          BY <2>1, <2>6, <4>1 DEF OnC1Up, m
        <5>2. QED
          BY <1>a, <5>1
      <4>2. CASE copier = "copying"
        <5>1. buf = << >> /\ s # << >> /\ s[1] = Eof
          BY <1>d, <2>1, <2>6, <4>2
        <5>2. Arrived + Len(buf) = Arrived
          <6>1. Len(buf) = 0
            BY <5>1, EmptySeq
          <6>2. QED
            BY <1>a, <6>1
        <5>3. Shut(s, 0, Arrived, m) /\ (client = "closed" \/ Open(s, 0))
          BY <2>1, <2>6, <4>2, <5>2 DEF OnC1Up, s, m
        <5>4. QED
          BY <1>a, <5>1, <5>3, LineTail
      <4>3. QED
        BY <1>b, <4>1, <4>2
    <3>4. Shut(t, 0, g, m)
      BY <2>1, <2>6 DEF OnC2Up, t, g, m
    <3>5. Shut(Append(t, Eof), 0, g, m)
      <4>1. g + Len(t) + 1 > m
        BY <1>f, <3>3
      <4>2. QED
        BY <1>a, <1>e, <3>4, <4>1, LineAppend
    <3>6. OnC2Up'
      BY <1>b, <2>4, <3>1, <3>3, <3>5 DEF OnC2Up, g, m
    <3>7. OnC1Up'
      BY <1>b, <3>2, <3>3 DEF OnC1Up, m
    <3>8. QED
      BY <2>2, <3>6, <3>7
  <2>7. QED
    BY <2>5, <2>6
<1>3. QED
  BY <1>1, <1>2 DEF UpInv

(* The client sends a byte.                                                *)
LEMMA UpSend ==
  ASSUME TypeInv, UpInv, ClientSends
  PROVE  UpInv'
<1> DEFINE s == wire["c1up"]
           t == wire["c2up"]
           g == Len(got["target"])
           b == Arrived + Len(buf)
           m == sent["client"]
<1>a. /\ s \in Seq(Nat) /\ t \in Seq(Nat) /\ buf \in Seq(Nat) /\ m \in Nat /\ m + 1 \in Nat
      /\ g \in Int /\ Len(s) \in Int /\ Arrived \in Int /\ b \in Int
  <2>1. /\ s \in Seq(Nat) /\ t \in Seq(Nat) /\ buf \in Seq(Nat) /\ m \in Nat
        /\ g \in Int /\ Len(s) \in Int /\ Arrived \in Int /\ Len(buf) \in Int
    BY Numbers
  <2> HIDE DEF s, t, g, m
  <2>2. QED
    BY <2>1
<1>b. /\ client = "open" /\ "c1" \notin broken /\ sent'["client"] = m + 1
      /\ UNCHANGED <<client, server, buf, copier, target, got, broken>>
  BY DEF ClientSends, TypeInv, Ends
<1>c. wire'["c1up"] = Append(s, m + 1) /\ wire'["c2up"] = t
  BY <1>b, DialerWires, LostWires DEF Keep, Wires, After
<1>d. Arrived' = Arrived /\ (Arrived + Len(buf))' = b
  BY <1>b, <1>c DEF Arrived
<1>e. \A i \in 1..Len(got["target"]) : i <= m => i <= m + 1
  BY <1>a
<1>f. Len(Append(s, m + 1)) = Len(s) + 1
  BY <1>a, AppendPoints
<1>1. Received("target", sent["client"], client = "closed")'
  BY <1>b, <1>e DEF UpInv, Received, SawEof
<1>2. ASSUME UpIsLive'
      PROVE  (OnC2Up /\ HeldUp /\ OnC1Up)'
  <2>1. OnC2Up /\ HeldUp /\ OnC1Up
    BY <1>2, <1>b DEF UpInv, UpIsLive, SawEof
  <2>2. Line(t, 0, g, m) /\ (broken = {} => Open(t, 0))
    BY <1>b, <2>1 DEF OnC2Up
  <2>3. "c2" \notin broken => broken = {}
    BY <1>b DEF TypeInv, Conns
  <2>4. broken = {} => copier # "done"
    BY <1>b, <2>1 DEF OnC1Up
  <2>5. broken = {} => /\ Line(buf, 0, Arrived, m) /\ Open(buf, 0) /\ Line(s, 0, b, m)
                       /\ b + Len(s) = m /\ Open(s, 0)
    BY <1>b, <2>1, <2>4 DEF HeldUp, OnC1Up
  <2> HIDE DEF s, t, g, b, m
  <2>6. Line(t, 0, g, m + 1) /\ (broken = {} => Shut(t, 0, g, m + 1))
    BY <1>a, <2>2, LineMore
  <2>7. broken = {} =>
          /\ Line(buf, 0, Arrived, m + 1)
          /\ Line(Append(s, m + 1), 0, b, m + 1) /\ Open(Append(s, m + 1), 0)
          /\ b + Len(Append(s, m + 1)) = m + 1
    <3>1. HAVE broken = {}
    <3>2. Line(s, 0, b, m + 1) /\ Line(buf, 0, Arrived, m + 1)
      BY <1>a, <2>5, <3>1, LineMore
    <3>3. m + 1 = b + Len(s) + 1
      BY <2>5, <3>1
    <3>4. m + 1 # Eof
      BY <1>a DEF Eof
    <3>5. Line(Append(s, m + 1), 0, b, m + 1) /\ Open(Append(s, m + 1), 0)
      BY <1>a, <2>5, <3>1, <3>2, <3>3, <3>4, LineAppend
    <3>6. QED
      BY <1>a, <1>f, <3>2, <3>3, <3>5
  <2>8. broken = {} => Shut(Append(s, m + 1), 0, b, m + 1)
    BY <2>7 DEF Shut, Open
  <2>9. OnC2Up'
    BY <1>b, <1>c, <2>2, <2>6 DEF OnC2Up, g
  <2>10. HeldUp'
    BY <1>b, <1>c, <1>d, <2>3, <2>5, <2>7 DEF HeldUp
  <2>11. OnC1Up'
    BY <1>b, <1>c, <1>d, <2>4, <2>7, <2>8 DEF OnC1Up
  <2>12. QED
    BY <2>9, <2>10, <2>11
<1>3. QED
  BY <1>1, <1>2 DEF UpInv

(* The client closes the connection.                                       *)
LEMMA UpShut ==
  ASSUME TypeInv, UpInv, ClientCloses
  PROVE  UpInv'
<1> DEFINE s == wire["c1up"]
           b == Arrived + Len(buf)
           m == sent["client"]
<1>a. /\ s \in Seq(Nat) /\ m \in Nat /\ Eof \in Nat /\ Len(s) \in Int /\ b \in Int
  <2>1. /\ s \in Seq(Nat) /\ m \in Nat /\ Len(s) \in Int /\ Arrived \in Int /\ Len(buf) \in Int
    BY Numbers
  <2> HIDE DEF s, m
  <2>2. QED
    BY <2>1, Messages
<1>b. /\ client = "open" /\ client' = "closed"
      /\ UNCHANGED <<server, buf, copier, target, sent, got, broken>>
  BY DEF ClientCloses
<1>c. /\ wire'["c1up"] = s \/ wire'["c1up"] = Append(s, Eof)
      /\ wire'["c2up"] = wire["c2up"]
      /\ broken = {} => wire'["c1up"] = Append(s, Eof)
  BY DialerWires DEF Keep, Wires, After, Lost
<1>d. Arrived' = Arrived /\ (Arrived + Len(buf))' = b
  BY <1>b, <1>c DEF Arrived
<1>1. Received("target", sent["client"], client = "closed")'
  BY <1>b DEF UpInv, Received, SawEof
<1>2. ASSUME UpIsLive'
      PROVE  (OnC2Up /\ HeldUp /\ OnC1Up)'
  <2>1. OnC2Up /\ HeldUp /\ OnC1Up
    BY <1>2, <1>b DEF UpInv, UpIsLive, SawEof
  <2>2. OnC2Up'
    BY <1>b, <1>c, <2>1 DEF OnC2Up
  <2>3. "c2" \notin broken /\ copier # "done" =>
           Line(buf, 0, Arrived, m) /\ Open(buf, 0) /\ Line(s, 0, b, m)
    BY <2>1 DEF HeldUp
  <2>4. broken = {} => copier # "done" /\ Shut(s, 0, b, m) /\ b + Len(s) = m
    BY <1>b, <2>1 DEF OnC1Up
  <2> HIDE DEF s, b, m
  <2>5. Line(s, 0, b, m) => Line(Append(s, Eof), 0, b, m)
    BY <1>a, LineAppend
  <2>6. broken = {} => Shut(Append(s, Eof), 0, b, m)
    <3>1. b + Len(s) = m => b + Len(s) + 1 > m
      BY <1>a
    <3>2. QED
      BY <1>a, <2>4, <3>1, LineAppend
  <2>7. HeldUp'
    BY <1>b, <1>c, <1>d, <2>3, <2>5 DEF HeldUp, m
  <2>8. OnC1Up'
    BY <1>b, <1>c, <1>d, <2>4, <2>6 DEF OnC1Up, m
  <2>9. QED
    BY <2>2, <2>7, <2>8
<1>3. QED
  BY <1>1, <1>2 DEF UpInv

(* The target reads from c2.                                               *)
LEMMA UpRead ==
  ASSUME TypeInv, ControlInv, UpInv, TargetReads
  PROVE  UpInv'
<1> DEFINE t == wire["c2up"]
           g == got["target"]
           m == sent["client"]
<1>a. /\ t \in Seq(Nat) /\ m \in Nat /\ "target" \in Ends /\ Len(t) \in Int /\ Len(g) \in Nat
  BY Numbers
<1>b. /\ target \in {"open", "quiet"} /\ ~SawEof("target")
      /\ UNCHANGED <<client, target, sent, server, buf, copier, broken>>
  BY DEF TargetReads
<1>c. /\ t # << >> /\ t[1] \in Nat /\ wire'["c2up"] = Tail(t) /\ wire'["c1up"] = wire["c1up"]
      /\ got' = [got EXCEPT !["target"] = Append(@, t[1])]
  BY EndWires DEF Keep, Wires
<1>d. UpIsLive
  BY <1>b DEF UpIsLive, ControlInv
<1>e. OnC2Up /\ HeldUp /\ OnC1Up
  BY <1>d DEF UpInv
<1>f. \A i \in 1..Len(g) : (g[i] = i /\ i <= m) \/ (i = Len(g) /\ g[i] = Eof)
  BY DEF UpInv, Received
<1>1. /\ Line(t, 0, Len(g), m)
      /\ broken = {} => Shut(t, 0, Len(g), m) /\ (client = "closed" \/ Open(t, 0))
  BY <1>e DEF OnC2Up
<1>2. /\ t[1] = Eof \/ (t[1] = Len(g) + 1 /\ t[1] <= m)
      /\ Line(Tail(t), 0, Len(g) + 1, m)
      /\ broken = {} => /\ t[1] = Eof => Len(g) + 1 > m
                        /\ Shut(Tail(t), 0, Len(g) + 1, m)
                        /\ client = "closed" \/ (t[1] # Eof /\ Open(Tail(t), 0))
  BY <1>a, <1>c, <1>1, LineTail
<1>3. /\ \A i \in 1..Len(got'["target"]) :
           \/ got'["target"][i] = i /\ i <= m
           \/ i = Len(got'["target"]) /\ got'["target"][i] = Eof
      /\ Len(got'["target"]) = Len(g) + 1 /\ Len(g) <= m
      /\ SawEof("target")' <=> t[1] = Eof
  BY <1>a, <1>b, <1>c, <1>f, <1>2, Reading, ZenonT(60)
<1>4. SawEof("target")' /\ broken = {} => Len(got'["target"]) = m + 1 /\ client = "closed"
  BY <1>a, <1>2, <1>3
<1>5. Received("target", sent["client"], client = "closed")'
  BY <1>b, <1>3, <1>4 DEF Received
<1>6. Arrived' = Arrived
  <2>1. Len(Tail(t)) = Len(t) - 1
    BY <1>a, <1>c, TailPoints
  <2>2. Arrived' = (Len(g) + 1) + (Len(t) - 1)
    BY <1>c, <1>3, <2>1 DEF Arrived
  <2> HIDE DEF t, g
  <2>3. (Len(g) + 1) + (Len(t) - 1) = Len(g) + Len(t)
    BY <1>a, Shift
  <2>4. QED
    BY <2>2, <2>3 DEF Arrived, g, t
<1>7. OnC2Up'
  BY <1>b, <1>c, <1>2, <1>3 DEF OnC2Up
<1>8. HeldUp'
  BY <1>b, <1>c, <1>e, <1>6 DEF HeldUp
<1>9. OnC1Up'
  BY <1>b, <1>c, <1>e, <1>6 DEF OnC1Up
<1>10. QED
  BY <1>5, <1>7, <1>8, <1>9 DEF UpInv

(* A connection is reset.                                                  *)
LEMMA UpBreak ==
  ASSUME TypeInv, UpInv, Break
  PROVE  UpInv'
<1> DEFINE g == Len(got["target"])
           b == Arrived + Len(buf)
           m == sent["client"]
<1>a. g \in Int /\ m \in Nat /\ b \in Int
  <2>1. g \in Int /\ m \in Nat /\ Arrived \in Int /\ Len(buf) \in Int
    BY Numbers
  <2> HIDE DEF g, m
  <2>2. QED
    BY <2>1
<1>b. UNCHANGED <<client, server, buf, copier, target, sent, got>>
  BY DEF Break, ends
<1>c. /\ broken' # {} /\ broken \subseteq broken'
      /\ wire'["c1up"] = << >> \/ wire'["c1up"] = wire["c1up"]
      /\ wire'["c2up"] = << >> \/ wire'["c2up"] = wire["c2up"]
      /\ "c2" \notin broken' => wire'["c2up"] = wire["c2up"]
  <2>1. PICK c \in Conns \ broken :
           /\ broken' = broken \cup {c}
           /\ \A w \in Of(c) : wire'[w] = << >>
           /\ \A w \in Wires \ Of(c) : wire'[w] = wire[w]
    BY EndWires
  <2>2. "c1up" \in Wires /\ "c2up" \in Wires
    BY DEF Wires
  <2>3. c # "c2" => "c2up" \notin Of(c)
    BY DEF Of, Conns
  <2>4. QED
    BY <2>1, <2>2, <2>3
<1>1. Received("target", sent["client"], client = "closed")'
  BY <1>b, <1>c DEF UpInv, Received
<1>2. ASSUME UpIsLive'
      PROVE  (OnC2Up /\ HeldUp /\ OnC1Up)'
  <2>1. OnC2Up /\ HeldUp
    BY <1>2, <1>b DEF UpInv, UpIsLive, SawEof
  <2>2. Line(<< >>, 0, g, m) /\ Line(<< >>, 0, b, m)
    BY <1>a, LineEmpty
  <2>3. OnC2Up'
    BY <1>b, <1>c, <2>1, <2>2 DEF OnC2Up
  <2>4. "c2" \notin broken' => (Arrived' = Arrived /\ (Arrived + Len(buf))' = b)
    BY <1>b, <1>c DEF Arrived
  <2>5. HeldUp'
    BY <1>b, <1>c, <2>1, <2>2, <2>4 DEF HeldUp
  <2>6. OnC1Up'
    BY <1>c DEF OnC1Up
  <2>7. QED
    BY <2>3, <2>5, <2>6
<1>3. QED
  BY <1>1, <1>2 DEF UpInv

(* What the target receives is the client's stream, step by step.          *)
LEMMA UpNext ==
  ASSUME TypeInv, ControlInv, ControlInv', UpInv, [Next]_vars
  PROVE  UpInv'
<1>1. CASE Dial
  <2>1. /\ got'["target"] = got["target"] /\ sent'["client"] = sent["client"]
        /\ broken' = broken /\ (client' = "closed" <=> client = "closed")
    BY <1>1 DEF Dial
  <2>2. ~UpIsLive'
    BY <1>1 DEF Dial, UpIsLive, ControlInv
  <2>3. QED
    BY <2>1, <2>2, UpFrame
<1>2. CASE ReadResponse
  BY <1>2, UpAnswer
<1>3. CASE ValidateProxyRequest
  BY <1>3, UpValidate
<1>4. CASE DialTarget
  <2>1. /\ got'["target"] = got["target"] /\ sent'["client"] = sent["client"]
        /\ buf' = buf /\ broken' = broken /\ (client' = "closed" <=> client = "closed")
    BY <1>4 DEF DialTarget
  <2>2. wire'["c1up"] = wire["c1up"] /\ wire'["c2up"] = wire["c2up"]
    BY <1>4, HandlerWires DEF Keep, Wires
  <2>3. UpIsLive' => UpIsLive /\ (copier' = "done" <=> copier = "done")
    BY <1>4, <2>1 DEF DialTarget, UpIsLive, SawEof, ControlInv
  <2>4. QED
    BY <2>1, <2>2, <2>3, UpFrame
<1>5. CASE WriteHeader
  <2>1. /\ got'["target"] = got["target"] /\ sent'["client"] = sent["client"]
        /\ buf' = buf /\ broken' = broken /\ (client' = "closed" <=> client = "closed")
    BY <1>5 DEF WriteHeader, ends
  <2>2. wire'["c1up"] = wire["c1up"] /\ wire'["c2up"] = wire["c2up"]
    BY <1>5, HandlerWires DEF Keep, Wires
  <2>3. UpIsLive' => UpIsLive /\ (copier' = "done" <=> copier = "done")
    BY <1>5, <2>1 DEF WriteHeader, ends, UpIsLive, SawEof
  <2>4. QED
    BY <2>1, <2>2, <2>3, UpFrame
<1>6. CASE Hijack
  <2>1. /\ got'["target"] = got["target"] /\ sent'["client"] = sent["client"]
        /\ buf' = buf /\ broken' = broken /\ (client' = "closed" <=> client = "closed")
    BY <1>6 DEF Hijack, ends, FromBuf
  <2>2. wire'["c1up"] = wire["c1up"] /\ wire'["c2up"] = wire["c2up"]
    BY <1>6 DEF Hijack, ends, FromBuf
  <2>3. UpIsLive' => UpIsLive /\ (copier' = "done" <=> copier = "done")
    BY <1>6, <2>1 DEF Hijack, ends, FromBuf, UpIsLive, SawEof, ControlInv, Answered
  <2>4. QED
    BY <2>1, <2>2, <2>3, UpFrame
<1>7. CASE CopyDown
  <2>1. /\ got'["target"] = got["target"] /\ sent'["client"] = sent["client"]
        /\ buf' = buf /\ broken' = broken /\ (client' = "closed" <=> client = "closed")
    BY <1>7 DEF CopyDown, ends
  <2>2. wire'["c1up"] = wire["c1up"] /\ wire'["c2up"] = wire["c2up"]
    BY <1>7, CopyWires DEF Keep, Wires
  <2>3. UpIsLive' => UpIsLive /\ (copier' = "done" <=> copier = "done")
    BY <1>7, <2>1 DEF CopyDown, ends, UpIsLive, SawEof
  <2>4. QED
    BY <2>1, <2>2, <2>3, UpFrame
<1>8. CASE CopyDownEnds
  <2>1. /\ got'["target"] = got["target"] /\ sent'["client"] = sent["client"]
        /\ buf' = buf /\ broken' = broken /\ (client' = "closed" <=> client = "closed")
    BY <1>8 DEF CopyDownEnds, ends
  <2>2. wire'["c1up"] = wire["c1up"] /\ wire'["c2up"] = wire["c2up"]
    BY <1>8, CopyWires DEF Keep, Wires
  <2>3. UpIsLive' => UpIsLive /\ (copier' = "done" <=> copier = "done")
    BY <1>8, <2>1 DEF CopyDownEnds, ends, UpIsLive, SawEof
  <2>4. QED
    BY <2>1, <2>2, <2>3, UpFrame
<1>9. CASE Return
  BY <1>9, UpEnd
<1>10. CASE CopyUp
  BY <1>10, UpCopy
<1>11. CASE CopyUpEnds
  BY <1>11, UpEnd
<1>12. CASE BackgroundRead
  BY <1>12, UpBackground
<1>13. CASE ClientSends
  BY <1>13, UpSend
<1>14. CASE ClientReads
  <2>1. /\ got'["target"] = got["target"] /\ sent'["client"] = sent["client"]
        /\ buf' = buf /\ broken' = broken /\ (client' = "closed" <=> client = "closed")
    BY <1>14 DEF ClientReads, TypeInv, Ends
  <2>2. wire'["c1up"] = wire["c1up"] /\ wire'["c2up"] = wire["c2up"]
    BY <1>14, EndWires DEF Keep, Wires
  <2>3. UpIsLive' => UpIsLive /\ (copier' = "done" <=> copier = "done")
    BY <1>14, <2>1 DEF ClientReads, UpIsLive, SawEof
  <2>4. QED
    BY <2>1, <2>2, <2>3, UpFrame
<1>15. CASE ClientCloses
  BY <1>15, UpShut
<1>16. CASE TargetSends
  <2>1. /\ got'["target"] = got["target"] /\ sent'["client"] = sent["client"]
        /\ buf' = buf /\ broken' = broken /\ (client' = "closed" <=> client = "closed")
    BY <1>16 DEF TargetSends, TypeInv, Ends
  <2>2. wire'["c1up"] = wire["c1up"] /\ wire'["c2up"] = wire["c2up"]
    BY <1>16, EndWires DEF Keep, Wires
  <2>3. UpIsLive' => UpIsLive /\ (copier' = "done" <=> copier = "done")
    BY <1>16, <2>1 DEF TargetSends, UpIsLive, SawEof
  <2>4. QED
    BY <2>1, <2>2, <2>3, UpFrame
<1>17. CASE TargetReads
  BY <1>17, UpRead
<1>18. CASE TargetEnds
  <2>1. /\ got'["target"] = got["target"] /\ sent'["client"] = sent["client"]
        /\ buf' = buf /\ broken' = broken /\ (client' = "closed" <=> client = "closed")
    BY <1>18 DEF TargetEnds
  <2>2. wire'["c1up"] = wire["c1up"] /\ wire'["c2up"] = wire["c2up"]
    BY <1>18, EndWires DEF Keep, Wires
  <2>3. UpIsLive' => UpIsLive /\ (copier' = "done" <=> copier = "done")
    BY <1>18, <2>1 DEF TargetEnds, UpIsLive, SawEof
  <2>4. QED
    BY <2>1, <2>2, <2>3, UpFrame
<1>19. CASE TargetCloses
  <2>1. /\ got'["target"] = got["target"] /\ sent'["client"] = sent["client"]
        /\ buf' = buf /\ broken' = broken /\ (client' = "closed" <=> client = "closed")
    BY <1>19 DEF TargetCloses
  <2>2. wire'["c1up"] = wire["c1up"] /\ wire'["c2up"] = wire["c2up"]
    BY <1>19 DEF TargetCloses
  <2>3. UpIsLive' => UpIsLive /\ (copier' = "done" <=> copier = "done")
    BY <1>19, <2>1 DEF TargetCloses, UpIsLive, SawEof
  <2>4. QED
    BY <2>1, <2>2, <2>3, UpFrame
<1>20. CASE Break
  BY <1>20, UpBreak
<1>21. CASE UNCHANGED vars
  <2>1. /\ got'["target"] = got["target"] /\ sent'["client"] = sent["client"]
        /\ buf' = buf /\ broken' = broken /\ (client' = "closed" <=> client = "closed")
    BY <1>21 DEF vars
  <2>2. wire'["c1up"] = wire["c1up"] /\ wire'["c2up"] = wire["c2up"]
    BY <1>21 DEF vars
  <2>3. UpIsLive' => UpIsLive /\ (copier' = "done" <=> copier = "done")
    BY <1>21, <2>1 DEF vars, UpIsLive, SawEof
  <2>4. QED
    BY <2>1, <2>2, <2>3, UpFrame
<1>22. QED
  BY <1>1, <1>2, <1>3, <1>4, <1>5, <1>6, <1>7, <1>8, <1>9, <1>10,
     <1>11, <1>12, <1>13, <1>14, <1>15, <1>16, <1>17, <1>18, <1>19, <1>20, <1>21
  DEF Next, Handler, Goroutine

-----------------------------------------------------------------------------
(* The theorem.                                                            *)

(* The invariant holds at first.                                           *)
LEMMA ProxyInvInit == Init => ProxyInv
<1> SUFFICES ASSUME Init
             PROVE  ProxyInv
  OBVIOUS
<1>1. << >> \in Seq(Nat) /\ Len(<< >>) = 0
  BY EmptySeq
<1>2. /\ wire["c1up"] = << >> /\ wire["c1down"] = << >>
      /\ wire["c2up"] = << >> /\ wire["c2down"] = << >>
      /\ got["client"] = << >> /\ got["target"] = << >>
      /\ sent["client"] = 0 /\ sent["target"] = 0
  BY DEF Init, Wires
<1>3. TypeInv
  BY <1>1 DEF Init, TypeInv, Ends, Conns
<1>4. ControlInv
  BY <1>2 DEF Init, ControlInv, Answered
<1>5. ~SawEof("client") /\ ~SawEof("target")
  BY <1>2 DEF SawEof
<1>6. DownInv
  <2>1. Received("client", sent["target"], TargetIsOver)
    BY <1>1, <1>2, <1>5 DEF Received
  <2>2. Answer = 0
    BY DEF Init, Answer
  <2>3. Base = 0 + 0 - 0
    BY <1>1, <1>2, <2>2 DEF Base, Init
  <2>4. Base = 0
    BY <2>3
  <2>5. Copied = 0 + 0
    BY <1>1, <1>2, <2>4 DEF Copied
  <2>6. Copied = 0 /\ 0 + 0 = 0
    BY <2>5
  <2>7. Line(<< >>, 0, 0, 0) /\ Shut(<< >>, 0, 0, 0) /\ Open(<< >>, 0)
    BY LineEmpty
  <2>8. HeldDown
    BY <1>1, <1>2, <2>7 DEF HeldDown, Init
  <2>9. OnC1Down
    BY <1>2, <2>2, <2>4, <2>7 DEF OnC1Down
  <2>10. OnC2Down
    BY <1>1, <1>2, <2>6, <2>7 DEF OnC2Down, Init
  <2>11. QED
    BY <2>1, <2>8, <2>9, <2>10 DEF DownInv
<1>7. UpInv
  <2>1. Received("target", sent["client"], client = "closed")
    BY <1>1, <1>2, <1>5 DEF Received
  <2>2. ~UpIsLive
    BY DEF UpIsLive, Init
  <2>3. QED
    BY <2>1, <2>2 DEF UpInv
<1>8. QED
  BY <1>3, <1>4, <1>6, <1>7 DEF ProxyInv

(* The invariant is inductive.                                             *)
LEMMA Invariance == Spec => []ProxyInv
<1>1. ProxyInv /\ [Next]_vars => ProxyInv'
  <2> SUFFICES ASSUME ProxyInv, [Next]_vars
               PROVE  ProxyInv'
    OBVIOUS
  <2>1. TypeInv' /\ ControlInv'
    BY TypeNext, ControlNext DEF ProxyInv
  <2>2. DownInv'
    BY DownNext DEF ProxyInv
  <2>3. UpInv'
    BY <2>1, UpNext DEF ProxyInv
  <2>4. QED
    BY <2>1, <2>2, <2>3 DEF ProxyInv
<1>2. QED
  BY ProxyInvInit, <1>1, PTL DEF Spec

(* Bytes with their numbers, up to m, are the beginning of the stream, and *)
(* m of them are all of it.                                                *)
LEMMA Beginning ==
  ASSUME NEW d \in Seq(Nat), NEW m \in Nat, Len(d) <= m, \A i \in 1..Len(d) : d[i] = i
  PROVE  IsPrefix(d, Stream(m)) /\ (Len(d) = m => d = Stream(m))
<1> DEFINE t == Stream(m)
           k == Len(d)
<1>1. t \in Seq(Nat) /\ Len(t) = m /\ \A i \in 1..m : t[i] = i
  BY DEF Stream
<1>2. k \in Nat /\ k <= m /\ \A i \in 1..k : i \in 1..m
  BY LenProperties
<1> HIDE DEF t, k
<1>3. k = m => d = t
  BY <1>1, <1>2, SeqEqual DEF k
<1>4. 1 \in Int /\ k \in Int /\ k - 1 + 1 = k /\ (IF 1 <= k THEN k - 1 + 1 ELSE 0) = k
  BY <1>2
<1>5. (\A i \in 1..k : d[i] \in Nat) /\ (\A i \in 1..k : t[i] \in Nat)
  BY <1>1, <1>2, ElementOfSeq DEF k
<1>6. /\ SubSeq(d, 1, k) \in Seq(Nat) /\ Len(SubSeq(d, 1, k)) = k
      /\ \A i \in 1..k : SubSeq(d, 1, k)[i] = d[1 + i - 1]
  BY <1>4, <1>5, SubSeqProperties
<1>7. /\ SubSeq(t, 1, k) \in Seq(Nat) /\ Len(SubSeq(t, 1, k)) = k
      /\ \A i \in 1..k : SubSeq(t, 1, k)[i] = t[1 + i - 1]
  BY <1>4, <1>5, SubSeqProperties
<1>8. \A i \in 1..k : 1 + i - 1 = i /\ d[i] = t[i]
  BY <1>1, <1>2 DEF k
<1>9. SubSeq(d, 1, k) = SubSeq(t, 1, k)
  BY <1>6, <1>7, <1>8, SeqEqual
<1>10. IsPrefix(d, t)
  BY <1>1, <1>2, <1>9 DEF IsPrefix, k
<1>11. QED
  BY <1>3, <1>10 DEF t, k

(* What an end has received is as the invariant says.                      *)
LEMMA ReceivedIsWhole ==
  ASSUME NEW e \in Ends, NEW m \in Nat, got[e] \in Seq(Nat), NEW over, Received(e, m, over)
  PROVE  /\ IsPrefix(Data(e), Stream(m))
         /\ SawEof(e) /\ broken = {} => Data(e) = Stream(m)
<1> DEFINE g == got[e]
           L == Len(g)
<1>1. /\ g \in Seq(Nat) /\ L \in Nat /\ (g # << >> <=> L >= 1)
      /\ \A i \in 1..L : g[i] \in Nat
  BY EmptySeq, LenProperties, ElementOfSeq
<1>2. /\ \A i \in 1..L : (g[i] = i /\ i <= m) \/ (i = L /\ g[i] = Eof)
      /\ SawEof(e) /\ broken = {} => L = m + 1
  BY DEF Received
<1>3. SawEof(e) <=> L >= 1 /\ g[L] = Eof
  BY <1>1 DEF SawEof, Last
<1> HIDE DEF g, L
<1>4. CASE SawEof(e)
  <2> DEFINE d == SubSeq(g, 1, L - 1)
  <2>1. /\ 1 \in Int /\ L - 1 \in Nat /\ (L - 1) - 1 + 1 = L - 1
        /\ (IF 1 <= L - 1 THEN (L - 1) - 1 + 1 ELSE 0) = L - 1
        /\ \A i \in 1..(L - 1) : i \in 1..L /\ i # L /\ 1 + i - 1 = i /\ i \in Nat
    BY <1>1, <1>3, <1>4
  <2>2. \A i \in 1..(L - 1) : g[i] \in Nat
    BY <1>1, <2>1
  <2>3. /\ d \in Seq(Nat) /\ Len(d) = L - 1
        /\ \A i \in 1..(L - 1) : d[i] = g[1 + i - 1]
    BY <2>1, <2>2, SubSeqProperties
  <2> HIDE DEF d
  <2>4. \A i \in 1..(L - 1) : d[i] = i /\ i <= m
    BY <1>2, <2>1, <2>3
  <2>5. L - 1 <= m
    <3>1. L - 1 = 0 \/ L - 1 \in 1..(L - 1)
      BY <1>1, <1>3, <1>4
    <3>2. QED
      BY <2>1, <2>4, <3>1
  <2>6. broken = {} => L - 1 = m
    BY <1>1, <1>2, <1>4
  <2>7. IsPrefix(d, Stream(m)) /\ (Len(d) = m => d = Stream(m))
    BY <2>3, <2>4, <2>5, Beginning
  <2>8. Data(e) = d
    BY <1>4 DEF Data, Front, d, g, L
  <2>9. QED
    BY <2>3, <2>6, <2>7, <2>8
<1>5. CASE ~SawEof(e)
  <2>1. \A i \in 1..L : g[i] = i /\ i <= m
    BY <1>1, <1>2, <1>3, <1>5
  <2>2. L <= m
    <3>1. L = 0 \/ L \in 1..L
      BY <1>1
    <3>2. QED
      BY <1>1, <2>1, <3>1
  <2>3. IsPrefix(g, Stream(m))
    BY <1>1, <2>1, <2>2, Beginning DEF L
  <2>4. QED
    BY <1>5, <2>3 DEF Data, g
<1>6. QED
  BY <1>4, <1>5

(* A connection through the proxy carries both streams whole and in order: *)
(* neither the reader of conn.Read nor the one Hijack hands over loses or  *)
(* repeats a byte, and an end that sees the end of the other's stream on   *)
(* connections that were not reset has received all of it.                 *)
THEOREM StreamsStayWhole == Spec => []StreamsAreWhole
<1>1. ProxyInv => StreamsAreWhole
  <2> SUFFICES ASSUME ProxyInv
               PROVE  StreamsAreWhole
    OBVIOUS
  <2>1. /\ "client" \in Ends /\ "target" \in Ends
        /\ got["client"] \in Seq(Nat) /\ got["target"] \in Seq(Nat)
        /\ sent["client"] \in Nat /\ sent["target"] \in Nat
    BY DEF ProxyInv, TypeInv, Ends
  <2>2. /\ Received("client", sent["target"], TargetIsOver)
        /\ Received("target", sent["client"], client = "closed")
    BY DEF ProxyInv, DownInv, UpInv
  <2>3. /\ IsPrefix(Data("client"), Stream(sent["target"]))
        /\ SawEof("client") /\ broken = {} => Data("client") = Stream(sent["target"])
    BY <2>1, <2>2, ReceivedIsWhole
  <2>4. /\ IsPrefix(Data("target"), Stream(sent["client"]))
        /\ SawEof("target") /\ broken = {} => Data("target") = Stream(sent["client"])
    BY <2>1, <2>2, ReceivedIsWhole
  <2>5. QED
    BY <2>3, <2>4 DEF StreamsAreWhole
<1>2. QED
  BY Invariance, <1>1, PTL

================================================================================
