--------------------------- MODULE RelaySocketsProofs ---------------------------
EXTENDS RelaySockets, SequenceTheorems, TLAPS

-----------------------------------------------------------------------------
(* The invariant *)

Nears == {"free", "opening", "open", "closing", "closed"}
Fars == {"none", "open", "closing", "gone"}
Lines == [near: Nears, far: Fars, silent: BOOLEAN, up: Seq(Frames), down: Seq(Frames)]
Carries(q, op) == \E i \in DOMAIN q : q[i].op = op

\* An end that its peer has left has a close on its way, unless the socket fell silent.
Told(l) ==
    /\ l.near = "open" /\ ~l.silent /\ l.far # "open" => Carries(l.down, "close")
    /\ l.far \in {"open", "closing"} /\ ~l.silent /\ l.near # "open" => Carries(l.up, "close")

\* What holds of every socket by itself.
Sound(l) ==
    /\ Told(l)
    /\ l.near \in {"free", "opening"} => l.far = "none" /\ l.down = <<>>
    /\ l.near \in {"open", "closing"} => l.far # "none"
    /\ l.far \in {"none", "gone"} => l.up = <<>>
    /\ l.near = "open" /\ (l.far = "gone" \/ Carries(l.up, "close"))
         => l.down # <<>> /\ Head(l.down).op = "close"
    /\ l.silent => l.up = <<>> /\ l.down = <<>>

Wired ==
    /\ line \in [Sockets -> Lines]
    /\ \A x \in Sockets : Sound(line[x]) /\ (line[x].silent => x \in Controls)

Types ==
    /\ pending \in [Clients -> Seq({Hello, Data})]
    /\ \A c \in Clients : Len(pending[c]) <= BufferLimit
    /\ nudge \in [Clients -> {"none", "first", "second"}]
    /\ current \in Controls \cup {None} /\ retry \in BOOLEAN
    /\ dataOf \in [Clients -> {0} \cup Slots]
    /\ channel \in [Datas -> {"none", "waits", "open"}]
    /\ shake \in [Clients -> {"none", "shaking", "open"}]
    /\ faults \in 0..MaxFaults

\* The daemon has an open control socket, or the timer that opens one.
Dials ==
    /\ retry <=> current = None
    /\ current # None => line[current].near = "open"

\* The daemon's map holds the one live data socket of a client.
Held ==
    /\ \A d \in Datas : line[d].near \in {"opening", "open"} => dataOf[d[1]] = d[2]
    /\ \A c \in Clients : dataOf[c] # 0 => line[<<c, dataOf[c]>>].near \in {"opening", "open", "closing"}
    /\ \A d \in Datas : channel[d] # "none" => line[d].near \in {"open", "closing"}

\* The relay keeps frames for clients it lists, and for no other.
Freed == \A c \in Clients : ~Listed(c) => pending[c] = <<>>

\* The other end of the channel that a client has, or is about to have, is there, or
\* the client or the relay has the news that it is gone on its way.
Doomed(c) == line[c].near # "open" \/ Carries(line[c].down, "close")
Answering(d) == Listed(d) /\ (channel[d] = "open" \/ Carries(line[d].up, "close"))
Answered ==
    /\ \A c \in Clients : shake[c] = "open" \/ Carries(line[c].down, "ready") =>
         Doomed(c) \/ \E d \in DatasOf(c) : Answering(d)
    /\ \A d \in Datas : Carries(line[d].up, "ready") => Answering(d)

\* What the relay does to a socket that it sends something or closes.
Hears(l, m) ==
    /\ m \in Lines /\ (Sound(l) => Sound(m))
    /\ m.near = l.near /\ m.silent = l.silent /\ m.up = l.up
    /\ m.far = l.far \/ (l.far = "open" /\ m.far = "closing")
    /\ Carries(l.down, "close") => Carries(m.down, "close")
    /\ Carries(m.down, "ready") => Carries(l.down, "ready")

\* A step that leaves all sockets but some to what they hear.
Touches(some) ==
    /\ line' \in [Sockets -> Lines]
    /\ \A x \in Sockets \ some : Hears(line[x], line'[x])

-----------------------------------------------------------------------------
(* Frames and sequences of frames *)

LEMMA FrameFacts ==
    /\ Hello \in Frames /\ Ready \in Frames /\ Data \in Frames /\ CloseFrame \in Frames
    /\ Hello.op = "hello" /\ Ready.op = "ready" /\ Data.op = "data" /\ CloseFrame.op = "close"
    /\ \A ids \in SUBSET Clients : Sync(ids) \in Frames /\ Sync(ids).op = "sync"
    /\ \A c \in Clients : Disconnected(c) \in Frames /\ Disconnected(c).op = "disconnected"
    /\ \A f \in Frames : f.ids \subseteq Clients
  BY DEF Hello, Ready, Data, CloseFrame, Frame, Sync, Disconnected, Frames

LEMMA CarriesNone == ASSUME NEW op PROVE ~Carries(<<>>, op)
  BY DEF Carries

LEMMA CarriesOne ==
    ASSUME NEW f \in Frames, NEW op PROVE Carries(<<f>>, op) <=> f.op = op
  BY DEF Carries

LEMMA CarriesAppend ==
    ASSUME NEW q \in Seq(Frames), NEW f \in Frames, NEW op
    PROVE  /\ Append(q, f) \in Seq(Frames) /\ Append(q, f) # <<>>
           /\ q # <<>> => Head(Append(q, f)) = Head(q)
           /\ Carries(Append(q, f), op) <=> Carries(q, op) \/ f.op = op
<1> DEFINE p == Append(q, f)
<1>1. /\ p \in Seq(Frames) /\ Len(p) = Len(q) + 1 /\ p[Len(q) + 1] = f
      /\ \A i \in 1..Len(q) : p[i] = q[i]
  OBVIOUS
<1>2. DOMAIN p = 1..(Len(q) + 1) /\ DOMAIN q = 1..Len(q) /\ Len(q) \in Nat
  BY <1>1
<1>3. ASSUME Carries(p, op) PROVE Carries(q, op) \/ f.op = op
  <2>1. PICK i \in 1..(Len(q) + 1) : p[i].op = op
    BY <1>3, <1>2 DEF Carries
  <2>2. CASE i = Len(q) + 1
    BY <2>1, <2>2, <1>1
  <2>3. CASE i # Len(q) + 1
    <3>1. i \in 1..Len(q)
      BY <2>3, <1>2
    <3> QED BY <3>1, <2>1, <1>1, <1>2 DEF Carries
  <2> QED BY <2>2, <2>3
<1>4. ASSUME Carries(q, op) PROVE Carries(p, op)
  <2>1. PICK i \in 1..Len(q) : q[i].op = op
    BY <1>4, <1>2 DEF Carries
  <2>2. i \in DOMAIN p /\ p[i].op = op
    BY <2>1, <1>1, <1>2
  <2> QED BY <2>2 DEF Carries
<1>5. ASSUME f.op = op PROVE Carries(p, op)
  <2>1. Len(q) + 1 \in DOMAIN p /\ p[Len(q) + 1].op = op
    BY <1>5, <1>1, <1>2
  <2> QED BY <2>1 DEF Carries
<1>6. q # <<>> => Head(p) = Head(q)
  OBVIOUS
<1>7. p # <<>>
  BY <1>1
<1> QED BY <1>1, <1>3, <1>4, <1>5, <1>6, <1>7

LEMMA CarriesTail ==
    ASSUME NEW q \in Seq(Frames), q # <<>>, NEW op
    PROVE  /\ Head(q) \in Frames /\ Tail(q) \in Seq(Frames)
           /\ Carries(q, op) <=> Head(q).op = op \/ Carries(Tail(q), op)
<1> DEFINE p == Tail(q)
<1>1. /\ p \in Seq(Frames) /\ Len(p) = Len(q) - 1 /\ Head(q) = q[1] /\ Head(q) \in Frames
      /\ \A i \in 1..(Len(q) - 1) : p[i] = q[i + 1]
  OBVIOUS
<1>2. DOMAIN p = 1..(Len(q) - 1) /\ DOMAIN q = 1..Len(q) /\ Len(q) \in Nat \ {0}
  BY <1>1
<1>3. ASSUME Carries(q, op), Head(q).op # op PROVE Carries(p, op)
  <2>1. PICK i \in 1..Len(q) : q[i].op = op
    BY <1>3, <1>2 DEF Carries
  <2>2. i # 1
    BY <2>1, <1>3, <1>1
  <2>3. i - 1 \in 1..(Len(q) - 1) /\ (i - 1) + 1 = i
    BY <2>2, <1>2
  <2>4. p[i - 1].op = op
    BY <2>3, <1>1, <2>1
  <2> QED BY <2>3, <2>4, <1>2 DEF Carries
<1>4. ASSUME Carries(p, op) PROVE Carries(q, op)
  <2>1. PICK i \in 1..(Len(q) - 1) : p[i].op = op
    BY <1>4, <1>2 DEF Carries
  <2>2. i + 1 \in DOMAIN q /\ q[i + 1].op = op
    BY <2>1, <1>1, <1>2
  <2> QED BY <2>2 DEF Carries
<1>5. ASSUME Head(q).op = op PROVE Carries(q, op)
  <2>1. 1 \in DOMAIN q /\ q[1].op = op
    BY <1>5, <1>1, <1>2
  <2> QED BY <2>1 DEF Carries
<1> QED BY <1>1, <1>3, <1>4, <1>5

-----------------------------------------------------------------------------
(* What the operators on sockets do *)

LEMMA NoLineSound ==
    /\ NoLine \in Lines /\ Sound(NoLine)
    /\ NoLine.near = "free" /\ NoLine.far = "none" /\ ~NoLine.silent
    /\ NoLine.up = <<>> /\ NoLine.down = <<>>
<1>1. NoLine \in Lines
  BY DEF NoLine, Lines, Nears, Fars
<1> QED BY <1>1 DEF NoLine, Sound, Told

LEMMA HearsItself == ASSUME NEW l \in Lines PROVE Hears(l, l)
  BY DEF Hears

\* The relay sends a frame, which is no answer to a handshake, on a socket.
LEMMA SendsToHears ==
    ASSUME NEW l \in Lines, NEW f \in Frames, f.op # "ready"
    PROVE  Hears(l, SendsTo(l, f))
<1> DEFINE m == [l EXCEPT !.down = Append(@, f)]
<1>1. CASE ~(l.far = "open" /\ l.near # "closed" /\ ~l.silent)
  <2>1. SendsTo(l, f) = l
    BY <1>1 DEF SendsTo
  <2> QED BY <2>1, HearsItself
<1>2. CASE l.far = "open" /\ l.near # "closed" /\ ~l.silent
  <2>1. SendsTo(l, f) = m
    BY <1>2 DEF SendsTo
  <2>2. l.down \in Seq(Frames) /\ l.up \in Seq(Frames)
    BY DEF Lines
  <2>3. /\ m.near = l.near /\ m.far = l.far /\ m.silent = l.silent /\ m.up = l.up
        /\ m.down = Append(l.down, f)
    BY DEF Lines
  <2>4. /\ m.down \in Seq(Frames) /\ m.down # <<>>
        /\ l.down # <<>> => Head(m.down) = Head(l.down)
        /\ Carries(m.down, "close") <=> Carries(l.down, "close") \/ f.op = "close"
        /\ Carries(m.down, "ready") <=> Carries(l.down, "ready")
    BY <2>2, <2>3, CarriesAppend
  <2>5. m \in Lines
    BY <2>4 DEF Lines
  <2> HIDE DEF m
  <2>6. Sound(l) => Sound(m)
    BY <2>3, <2>4, <1>2 DEF Sound, Told
  <2> QED BY <2>1, <2>3, <2>4, <2>5, <2>6 DEF Hears
<1> QED BY <1>1, <1>2

\* The relay answers a handshake.
LEMMA SendsReady ==
    ASSUME NEW l \in Lines
    PROVE  LET m == SendsTo(l, Ready)
           IN  /\ m \in Lines /\ (Sound(l) => Sound(m))
               /\ m.near = l.near /\ m.far = l.far /\ m.silent = l.silent /\ m.up = l.up
               /\ Carries(l.down, "close") => Carries(m.down, "close")
<1> DEFINE m == [l EXCEPT !.down = Append(@, Ready)]
<1>1. CASE ~(l.far = "open" /\ l.near # "closed" /\ ~l.silent)
  <2>1. SendsTo(l, Ready) = l
    BY <1>1 DEF SendsTo
  <2> QED BY <2>1
<1>2. CASE l.far = "open" /\ l.near # "closed" /\ ~l.silent
  <2>1. SendsTo(l, Ready) = m
    BY <1>2 DEF SendsTo
  <2>2. l.down \in Seq(Frames) /\ l.up \in Seq(Frames) /\ Ready \in Frames
    BY FrameFacts DEF Lines
  <2>3. /\ m.near = l.near /\ m.far = l.far /\ m.silent = l.silent /\ m.up = l.up
        /\ m.down = Append(l.down, Ready)
    BY DEF Lines
  <2>4. /\ m.down \in Seq(Frames) /\ m.down # <<>>
        /\ l.down # <<>> => Head(m.down) = Head(l.down)
        /\ Carries(l.down, "close") => Carries(m.down, "close")
    BY <2>2, <2>3, CarriesAppend
  <2>5. m \in Lines
    BY <2>4 DEF Lines
  <2> HIDE DEF m
  <2>6. Sound(l) => Sound(m)
    BY <2>3, <2>4, <1>2 DEF Sound, Told
  <2> QED BY <2>1, <2>3, <2>4, <2>5, <2>6
<1> QED BY <1>1, <1>2

\* The relay closes a socket, and its other end hears of it.
LEMMA ShutHears ==
    ASSUME NEW l \in Lines
    PROVE  LET m == Shut(l)
           IN  /\ Hears(l, m) /\ m.far # "open"
               /\ m.far \in {"open", "closing"} <=> l.far \in {"open", "closing"}
<1> DEFINE s == SendsTo(l, CloseFrame)
<1> DEFINE m == Shut(l)
<1>1. Hears(l, s) /\ s \in Lines /\ s.far = l.far
  <2>1. Hears(l, s)
    BY SendsToHears, FrameFacts
  <2>2. s.far = l.far
    BY DEF SendsTo, Lines
  <2> QED BY <2>1, <2>2 DEF Hears
<1>2. s.near = l.near /\ s.silent = l.silent /\ s.up = l.up
  BY <1>1 DEF Hears
<1>3. l.far = "open" /\ l.near = "open" /\ ~l.silent => Carries(s.down, "close")
  <2>1. SUFFICES ASSUME l.far = "open" /\ l.near = "open" /\ ~l.silent PROVE Carries(s.down, "close")
    OBVIOUS
  <2>2. s.down = Append(l.down, CloseFrame)
    BY <2>1 DEF SendsTo, Lines
  <2>3. l.down \in Seq(Frames)
    BY DEF Lines
  <2> QED BY <2>2, <2>3, CarriesAppend, FrameFacts
<1>4. /\ m \in Lines /\ m.near = s.near /\ m.silent = s.silent /\ m.up = s.up /\ m.down = s.down
      /\ m.far = IF s.far = "open" THEN "closing" ELSE s.far
  <2> HIDE DEF s
  <2>1. Shut(l) = [s EXCEPT !.far = IF @ = "open" THEN "closing" ELSE @]
    BY DEF Shut, s
  <2> QED BY <2>1, <1>1 DEF Lines, Fars
<1> HIDE DEF s, m
<1>5. ASSUME Sound(l) PROVE Sound(m)
  <2>1. Sound(s)
    BY <1>1, <1>5 DEF Hears
  <2>2. m.near = "open" /\ ~m.silent /\ m.far # "open" => Carries(m.down, "close")
    BY <2>1, <1>1, <1>2, <1>3, <1>4 DEF Sound, Told
  <2> QED BY <2>1, <2>2, <1>4 DEF Sound, Told
<1>6. Hears(l, m)
  BY <1>1, <1>2, <1>4, <1>5 DEF Hears
<1>7. m.far # "open" /\ (m.far \in {"open", "closing"} <=> l.far \in {"open", "closing"})
  BY <1>4, <1>1
<1> QED BY <1>6, <1>7 DEF m

LEMMA TidySound ==
    ASSUME NEW l \in Lines
    PROVE  LET m == Tidy(l)
           IN  /\ m \in Lines /\ (Sound(l) => Sound(m)) /\ (m = l \/ m = NoLine)
               /\ m # l => l.near = "closed" /\ l.far \in {"none", "gone"}
               /\ l.near = "closed" /\ l.far \in {"none", "gone"} => m = NoLine
  BY NoLineSound DEF Tidy

\* The client or the daemon closes its end.
LEMMA LeavesSound ==
    ASSUME NEW l \in Lines, Sound(l), NEW near \in {"closing", "closed"},
           l.near \in {"opening", "open"}
    PROVE  LET m == Leaves(l, near)
           IN  /\ m \in Lines /\ Sound(m)
               /\ l.near = "opening" => m = NoLine
               /\ l.near = "open" => m.near = near /\ m.far = l.far /\ m.silent = l.silent
               /\ Carries(m.up, "ready") => Carries(l.up, "ready")
<1> DEFINE m == Leaves(l, near)
<1>1. CASE l.near = "opening"
  <2>1. m = NoLine
    BY <1>1 DEF Leaves
  <2> QED BY <2>1, <1>1, NoLineSound, CarriesNone
<1>2. CASE l.near = "open"
  <2> DEFINE told == Append(l.up, CloseFrame)
  <2>1. l.up \in Seq(Frames) /\ l.down \in Seq(Frames) /\ CloseFrame \in Frames /\ <<>> \in Seq(Frames)
    BY FrameFacts DEF Lines
  <2>2. /\ told \in Seq(Frames) /\ Carries(told, "close")
        /\ Carries(told, "ready") => Carries(l.up, "ready")
    BY <2>1, FrameFacts, CarriesAppend
  <2>3. m = [l EXCEPT !.near = near, !.up = IF l.silent \/ l.far = "gone" THEN @ ELSE told,
                      !.down = IF near = "closed" THEN <<>> ELSE @]
    BY <1>2 DEF Leaves
  <2> HIDE DEF told, m
  <2>4. /\ m \in Lines /\ m.near = near /\ m.far = l.far /\ m.silent = l.silent
        /\ m.up = IF l.silent \/ l.far = "gone" THEN l.up ELSE told
        /\ m.down = IF near = "closed" THEN <<>> ELSE l.down
    BY <2>1, <2>2, <2>3 DEF Lines, Nears
  <2>5. Sound(m)
    BY <2>2, <2>4, <1>2 DEF Sound, Told
  <2> QED BY <2>2, <2>4, <2>5, <1>2 DEF m
<1> QED BY <1>1, <1>2

\* The client or the daemon reads a close.
LEMMA NearClosesSound ==
    ASSUME NEW l \in Lines, Sound(l), ~l.silent
    PROVE  LET m == NearCloses(l)
           IN  /\ m \in Lines /\ Sound(m) /\ ~m.silent
               /\ m.near \in {"free", "closed"} /\ m.down = <<>>
               /\ l.far \in {"open", "closing"} => m.far = l.far
               /\ Carries(m.up, "ready") => Carries(l.up, "ready")
<1> DEFINE told == Append(l.up, CloseFrame)
<1> DEFINE r == [l EXCEPT !.near = "closed", !.down = <<>>,
                          !.up = IF l.near = "open" THEN told ELSE @]
<1> DEFINE m == NearCloses(l)
<1>1. l.up \in Seq(Frames) /\ l.down \in Seq(Frames) /\ CloseFrame \in Frames /\ <<>> \in Seq(Frames)
  BY FrameFacts DEF Lines
<1>2. /\ told \in Seq(Frames) /\ Carries(told, "close")
      /\ Carries(told, "ready") => Carries(l.up, "ready")
  BY <1>1, FrameFacts, CarriesAppend
<1>3. m = Tidy(r)
  BY DEF NearCloses
<1> HIDE DEF told, m
<1>4. /\ r \in Lines /\ r.near = "closed" /\ r.far = l.far /\ r.silent = l.silent
      /\ r.up = IF l.near = "open" THEN told ELSE l.up
      /\ r.down = <<>>
  BY <1>1, <1>2 DEF Lines, Nears
<1> HIDE DEF r
<1>5. CASE l.far \in {"none", "gone"}
  <2>1. m = NoLine
    BY <1>3, <1>4, <1>5, TidySound
  <2> QED BY <2>1, <1>5, NoLineSound, CarriesNone DEF m
<1>6. CASE l.far \in {"open", "closing"}
  <2>1. m = r
    BY <1>3, <1>4, <1>6, TidySound
  <2>2. Sound(r)
    BY <1>2, <1>4, <1>6 DEF Sound, Told
  <2> QED BY <2>1, <2>2, <1>2, <1>4, <1>6 DEF m
<1>7. l.far \in {"none", "gone", "open", "closing"}
  BY DEF Lines, Fars
<1> QED BY <1>5, <1>6, <1>7

\* The relay reads a close.
LEMMA FarClosesSound ==
    ASSUME NEW l \in Lines, Sound(l), l.up # <<>>, Carries(l.up, "close")
    PROVE  LET m == FarCloses(l)
           IN  /\ m \in Lines /\ Sound(m) /\ ~m.silent /\ m.up = <<>>
               /\ m.near = l.near \/ (l.near = "closed" /\ m.near = "free")
               /\ m.near = "open" => Carries(m.down, "close")
               /\ m.far \notin {"open", "closing"}
<1> DEFINE told == Append(l.down, CloseFrame)
<1> DEFINE r == [l EXCEPT !.far = "gone", !.up = <<>>,
                          !.down = IF l.far = "open" /\ l.near # "closed" THEN told ELSE @]
<1> DEFINE m == FarCloses(l)
<1>1. l.up \in Seq(Frames) /\ l.down \in Seq(Frames) /\ CloseFrame \in Frames /\ <<>> \in Seq(Frames)
  BY FrameFacts DEF Lines
<1>2. /\ told \in Seq(Frames) /\ told # <<>> /\ Carries(told, "close")
      /\ l.down # <<>> => Head(told) = Head(l.down)
  BY <1>1, FrameFacts, CarriesAppend
<1>3. m = Tidy(r)
  BY DEF FarCloses
<1> HIDE DEF told, m
<1>4. /\ r \in Lines /\ r.near = l.near /\ r.far = "gone" /\ r.silent = l.silent /\ r.up = <<>>
      /\ r.down = IF l.far = "open" /\ l.near # "closed" THEN told ELSE l.down
  BY <1>1, <1>2 DEF Lines, Fars
<1> HIDE DEF r
<1>5. ~l.silent /\ l.near \notin {"free", "opening"}
  BY DEF Sound
<1>6. l.near = "open" => l.down # <<>> /\ Head(l.down).op = "close" /\ Carries(l.down, "close")
  <2>1. l.near = "open" => l.down # <<>> /\ Head(l.down).op = "close"
    BY DEF Sound
  <2> QED BY <2>1, <1>1, CarriesTail
<1>7. l.near = "open" => r.down # <<>> /\ Head(r.down).op = "close" /\ Carries(r.down, "close")
  BY <1>2, <1>4, <1>6
<1>8. Sound(r)
  BY <1>4, <1>5, <1>7, CarriesNone DEF Sound, Told
<1>9. m = r \/ (m = NoLine /\ l.near = "closed")
  BY <1>3, <1>4, TidySound
<1> QED BY <1>4, <1>5, <1>7, <1>8, <1>9, NoLineSound DEF m

LEMMA ForGoodSound ==
    ASSUME NEW l \in Lines, Sound(l)
    PROVE  LET m == ForGood(l)
           IN  /\ m \in Lines /\ Sound(m) /\ m.far = l.far /\ m.silent = l.silent
               /\ m.up = l.up /\ m.down = l.down
               /\ m.near = IF l.near = "free" THEN "closed" ELSE l.near
<1> DEFINE m == [l EXCEPT !.near = "closed"]
<1>1. CASE l.near # "free"
  BY <1>1 DEF ForGood
<1>2. CASE l.near = "free"
  <2>1. ForGood(l) = m
    BY <1>2 DEF ForGood
  <2>2. /\ m \in Lines /\ m.near = "closed" /\ m.far = l.far /\ m.silent = l.silent
        /\ m.up = l.up /\ m.down = l.down
    BY DEF Lines, Nears
  <2> HIDE DEF m
  <2>3. Sound(m)
    BY <2>2, <1>2 DEF Sound, Told
  <2> QED BY <2>1, <2>2, <2>3, <1>2
<1> QED BY <1>1, <1>2

\* Anything but a close is read.
LEMMA ReadsDown ==
    ASSUME NEW l \in Lines, Sound(l), l.down # <<>>, Head(l.down).op # "close"
    PROVE  LET m == [l EXCEPT !.down = Tail(@)]
           IN  /\ m \in Lines /\ Sound(m) /\ ~l.silent
               /\ m.near = l.near /\ m.far = l.far /\ m.silent = l.silent /\ m.up = l.up
               /\ Carries(m.down, "close") <=> Carries(l.down, "close")
               /\ Carries(m.down, "ready") => Carries(l.down, "ready")
               /\ l.near = "open" => l.far # "gone" /\ ~Carries(l.up, "close")
<1> DEFINE m == [l EXCEPT !.down = Tail(@)]
<1>1. l.down \in Seq(Frames)
  BY DEF Lines
<1>2. /\ Tail(l.down) \in Seq(Frames)
      /\ Carries(l.down, "close") <=> Carries(Tail(l.down), "close")
      /\ Carries(Tail(l.down), "ready") => Carries(l.down, "ready")
  BY <1>1, CarriesTail
<1>3. /\ m \in Lines /\ m.near = l.near /\ m.far = l.far /\ m.silent = l.silent /\ m.up = l.up
      /\ m.down = Tail(l.down)
  BY <1>2 DEF Lines
<1>4. ~l.silent /\ (l.near = "open" => l.far # "gone" /\ ~Carries(l.up, "close"))
  BY DEF Sound
<1> HIDE DEF m
<1>5. Sound(m)
  BY <1>2, <1>3, <1>4 DEF Sound, Told
<1> QED BY <1>2, <1>3, <1>4, <1>5 DEF m

LEMMA ReadsUp ==
    ASSUME NEW l \in Lines, Sound(l), l.up # <<>>, Head(l.up).op # "close"
    PROVE  LET m == [l EXCEPT !.up = Tail(@)]
           IN  /\ m \in Lines /\ Sound(m) /\ ~l.silent /\ l.far \in {"open", "closing"}
               /\ m.near = l.near /\ m.far = l.far /\ m.silent = l.silent /\ m.down = l.down
               /\ Carries(m.up, "close") <=> Carries(l.up, "close")
               /\ Carries(m.up, "ready") => Carries(l.up, "ready")
<1> DEFINE m == [l EXCEPT !.up = Tail(@)]
<1>1. l.up \in Seq(Frames) /\ l.far \in {"none", "open", "closing", "gone"}
  BY DEF Lines, Fars
<1>2. /\ Tail(l.up) \in Seq(Frames)
      /\ Carries(l.up, "close") <=> Carries(Tail(l.up), "close")
      /\ Carries(Tail(l.up), "ready") => Carries(l.up, "ready")
  BY <1>1, CarriesTail
<1>3. /\ m \in Lines /\ m.near = l.near /\ m.far = l.far /\ m.silent = l.silent /\ m.down = l.down
      /\ m.up = Tail(l.up)
  BY <1>2 DEF Lines
<1>4. ~l.silent /\ l.far \in {"open", "closing"}
  BY <1>1 DEF Sound
<1> HIDE DEF m
<1>5. Sound(m)
  BY <1>2, <1>3, <1>4 DEF Sound, Told
<1> QED BY <1>2, <1>3, <1>4, <1>5 DEF m

\* An open end that has no close to read sends a frame.
LEMMA SendsUp ==
    ASSUME NEW l \in Lines, Sound(l), NEW f \in Frames, f.op # "close",
           l.near = "open", ~l.silent, l.far # "gone", ~Carries(l.up, "close")
    PROVE  LET m == [l EXCEPT !.up = Append(@, f)]
           IN  /\ m \in Lines /\ Sound(m) /\ m.far \in {"open", "closing"}
               /\ m.near = l.near /\ m.far = l.far /\ m.silent = l.silent /\ m.down = l.down
               /\ ~Carries(m.up, "close")
               /\ Carries(m.up, "ready") => Carries(l.up, "ready") \/ f.op = "ready"
<1> DEFINE m == [l EXCEPT !.up = Append(@, f)]
<1>1. l.up \in Seq(Frames) /\ l.far \in {"none", "open", "closing", "gone"}
  BY DEF Lines, Fars
<1>2. /\ Append(l.up, f) \in Seq(Frames)
      /\ ~Carries(Append(l.up, f), "close")
      /\ Carries(Append(l.up, f), "ready") => Carries(l.up, "ready") \/ f.op = "ready"
  BY <1>1, CarriesAppend
<1>3. /\ m \in Lines /\ m.near = l.near /\ m.far = l.far /\ m.silent = l.silent /\ m.down = l.down
      /\ m.up = Append(l.up, f)
  BY <1>2 DEF Lines
<1>4. l.far \in {"open", "closing"}
  BY <1>1 DEF Sound
<1> HIDE DEF m
<1>5. Sound(m)
  BY <1>2, <1>3, <1>4 DEF Sound, Told
<1> QED BY <1>2, <1>3, <1>4, <1>5 DEF m

-----------------------------------------------------------------------------
(* What a step does to the sockets *)

LEMMA Kinds ==
    /\ \A c \in Clients : c \in Sockets /\ c \notin Controls /\ c \notin Datas
    /\ \A k \in Controls : k \in Sockets /\ k \notin Clients /\ k \notin Datas
    /\ \A d \in Datas : /\ d \in Sockets /\ d \notin Clients /\ d \notin Controls
                        /\ d[1] \in Clients /\ d[2] \in Slots /\ d = <<d[1], d[2]>>
                        /\ d \in DatasOf(d[1])
    /\ \A c \in Clients, n \in Slots : <<c, n>> \in Datas /\ <<c, n>> \in DatasOf(c)
    /\ \A c \in Clients : DatasOf(c) \subseteq Datas /\ \A d \in DatasOf(c) : d[1] = c
<1>1. Slots = {1, 2} /\ Clients \cap Controls = {} /\ (Clients \cup Controls) \cap Datas = {}
  BY RelayAssumption DEF Slots, Datas
<1>2. \A d \in Datas : d[1] \in Clients /\ d[2] \in Slots /\ d = <<d[1], d[2]>>
  BY DEF Datas
<1>3. \A c \in Clients, n \in Slots : <<c, n>> \in Datas /\ <<c, n>> \in DatasOf(c)
  BY DEF Datas, DatasOf
<1>4. \A c \in Clients : DatasOf(c) \subseteq Datas /\ \A d \in DatasOf(c) : d[1] = c
  BY DEF Datas, DatasOf
<1>5. \A d \in Datas : d \in DatasOf(d[1])
  BY <1>2, <1>3
<1> QED BY <1>1, <1>2, <1>3, <1>4, <1>5 DEF Sockets

LEMMA SocketFacts ==
    ASSUME Wired, NEW x \in Sockets
    PROVE  /\ line[x] \in Lines /\ Sound(line[x]) /\ (line[x].silent => x \in Controls)
           /\ line[x].up \in Seq(Frames) /\ line[x].down \in Seq(Frames)
  BY DEF Wired, Lines

LEMMA WiredTouches ==
    ASSUME Wired, NEW some \in SUBSET Sockets, Touches(some),
           \A x \in some : Sound(line'[x]) /\ (line'[x].silent => x \in Controls)
    PROVE  Wired'
<1>1. line' \in [Sockets -> Lines]
  BY DEF Touches
<1>2. ASSUME NEW x \in Sockets PROVE Sound(line'[x]) /\ (line'[x].silent => x \in Controls)
  <2>1. CASE x \in some
    BY <2>1
  <2>2. CASE x \notin some
    BY <2>2, SocketFacts DEF Touches, Hears
  <2> QED BY <2>1, <2>2
<1> QED BY <1>1, <1>2 DEF Wired

LEMMA OneChanges ==
    ASSUME Wired, NEW x \in Sockets, NEW m \in Lines, Sound(m), m.silent => x \in Controls,
           line' = [line EXCEPT ![x] = m]
    PROVE  Wired' /\ Touches({x}) /\ line'[x] = m
<1>1. line' \in [Sockets -> Lines] /\ line'[x] = m
  BY DEF Wired
<1>2. \A y \in Sockets \ {x} : line'[y] = line[y]
  BY DEF Wired
<1>3. Touches({x})
  BY <1>1, <1>2, SocketFacts, HearsItself DEF Touches
<1> QED BY <1>1, <1>3, WiredTouches

LEMMA ToControlsHears ==
    ASSUME NEW l \in [Sockets -> Lines], NEW f \in Frames, f.op # "ready"
    PROVE  LET g == ToControls(l, f)
           IN  /\ g \in [Sockets -> Lines]
               /\ \A x \in Sockets : Hears(l[x], g[x])
               /\ \A x \in Sockets \ Controls : g[x] = l[x]
<1> DEFINE g == ToControls(l, f)
<1>1. \A x \in Sockets : g[x] = IF x \in Controls THEN SendsTo(l[x], f) ELSE l[x]
  BY DEF ToControls
<1>2. \A x \in Sockets : Hears(l[x], g[x])
  BY <1>1, SendsToHears, HearsItself
<1>3. g = [x \in Sockets |-> g[x]]
  BY DEF ToControls
<1> HIDE DEF g
<1>4. \A x \in Sockets : g[x] \in Lines
  BY <1>2 DEF Hears
<1>5. g \in [Sockets -> Lines]
  BY <1>3, <1>4
<1> QED BY <1>1, <1>2, <1>5 DEF g

LEMMA ShutAllHears ==
    ASSUME NEW l \in [Sockets -> Lines], NEW some
    PROVE  LET g == ShutAll(l, some)
           IN  /\ g \in [Sockets -> Lines]
               /\ \A x \in Sockets : Hears(l[x], g[x])
               /\ \A x \in Sockets \ some : g[x] = l[x]
               /\ \A x \in some \cap Sockets : g[x] = Shut(l[x])
<1> DEFINE g == ShutAll(l, some)
<1>1. \A x \in Sockets : g[x] = IF x \in some THEN Shut(l[x]) ELSE l[x]
  BY DEF ShutAll
<1>2. \A x \in Sockets : Hears(l[x], g[x])
  BY <1>1, ShutHears, HearsItself
<1>3. g = [x \in Sockets |-> g[x]]
  BY DEF ShutAll
<1> HIDE DEF g
<1>4. \A x \in Sockets : g[x] \in Lines
  BY <1>2 DEF Hears
<1>5. g \in [Sockets -> Lines]
  BY <1>3, <1>4
<1> QED BY <1>1, <1>2, <1>5 DEF g

\* The steps of a client.
LEMMA ConnectsEffect ==
    ASSUME Wired, NEW c \in Clients, Connects(c)
    PROVE  /\ Wired' /\ Touches({c})
           /\ line'[c].near = "open" /\ line'[c].far = "open"
           /\ ~Carries(line'[c].down, "ready")
<1> DEFINE m == [NoLine EXCEPT !.near = "open", !.far = "open", !.up = <<Hello>>]
<1> DEFINE l == [line EXCEPT ![c] = m]
<1>1. c \in Sockets /\ c \notin Controls /\ line \in [Sockets -> Lines]
  BY Kinds DEF Wired
<1>2. /\ m \in Lines /\ m.near = "open" /\ m.far = "open" /\ ~m.silent
      /\ m.up = <<Hello>> /\ m.down = <<>>
  <2>1. Hello \in Frames /\ <<Hello>> \in Seq(Frames)
    BY FrameFacts
  <2> QED BY <2>1, NoLineSound DEF Lines, Nears, Fars
<1>3. line' = ToControls(l, Sync({c})) /\ {c} \in SUBSET Clients
  BY DEF Connects
<1> HIDE DEF m
<1>4. Sound(m)
  BY <1>2, FrameFacts, CarriesOne DEF Sound, Told
<1>5. l \in [Sockets -> Lines] /\ l[c] = m /\ \A y \in Sockets \ {c} : l[y] = line[y]
  BY <1>1, <1>2
<1> HIDE DEF l
<1>6. Sync({c}) \in Frames /\ Sync({c}).op = "sync"
  BY FrameFacts
<1>7. /\ line' \in [Sockets -> Lines] /\ line'[c] = m
      /\ \A y \in Sockets \ {c} : Hears(line[y], line'[y])
  BY <1>1, <1>3, <1>5, <1>6, ToControlsHears
<1>8. Touches({c})
  BY <1>7 DEF Touches
<1>9. Wired'
  BY <1>1, <1>2, <1>4, <1>7, <1>8, WiredTouches
<1> QED BY <1>2, <1>7, <1>8, <1>9, CarriesNone

LEMMA SendsEffect ==
    ASSUME Wired, NEW c \in Clients, HelloAgain(c) \/ Says(c)
    PROVE  /\ Wired' /\ Touches({c})
           /\ line'[c].near = line[c].near /\ line'[c].far = line[c].far
           /\ line'[c].down = line[c].down
<1>1. c \in Sockets /\ c \notin Controls /\ line \in [Sockets -> Lines]
  BY Kinds DEF Wired
<1>2. PICK f \in {Hello, Data} : line' = [line EXCEPT ![c].up = Append(@, f)]
  BY DEF HelloAgain, Says
<1>3. line[c].near = "open" /\ line[c].up = <<>> /\ line[c].down = <<>>
  BY DEF HelloAgain, Says, Room
<1>4. /\ line[c] \in Lines /\ Sound(line[c]) /\ ~line[c].silent
      /\ f \in Frames /\ f.op # "close"
  BY <1>1, <1>2, SocketFacts, FrameFacts
<1>5. line[c].far # "gone" /\ ~Carries(line[c].up, "close")
  BY <1>3, <1>4, CarriesNone DEF Sound
<1> DEFINE m == [line[c] EXCEPT !.up = Append(@, f)]
<1>6. /\ m \in Lines /\ Sound(m) /\ ~m.silent
      /\ m.near = line[c].near /\ m.far = line[c].far /\ m.down = line[c].down
  BY <1>3, <1>4, <1>5, SendsUp
<1>7. line' = [line EXCEPT ![c] = m]
  BY <1>1, <1>2
<1> HIDE DEF m
<1>8. Wired' /\ Touches({c}) /\ line'[c] = m
  BY <1>1, <1>6, <1>7, OneChanges
<1> QED BY <1>6, <1>8

LEMMA DisconnectsEffect ==
    ASSUME Wired, NEW c \in Clients, Disconnects(c)
    PROVE  /\ Wired' /\ Touches({c})
           /\ line'[c].near = "closed" /\ line'[c].far = line[c].far
<1>1. c \in Sockets /\ c \notin Controls /\ line \in [Sockets -> Lines]
  BY Kinds DEF Wired
<1>2. line[c] \in Lines /\ Sound(line[c]) /\ ~line[c].silent
  BY <1>1, SocketFacts
<1>3. line[c].near = "open" /\ line' = [line EXCEPT ![c] = Leaves(line[c], "closed")]
  BY <1>1 DEF Disconnects
<1> DEFINE m == Leaves(line[c], "closed")
<1>4. m \in Lines /\ Sound(m) /\ ~m.silent /\ m.near = "closed" /\ m.far = line[c].far
  BY <1>2, <1>3, LeavesSound
<1> HIDE DEF m
<1>5. Wired' /\ Touches({c}) /\ line'[c] = m
  BY <1>1, <1>3, <1>4, OneChanges DEF m
<1> QED BY <1>4, <1>5

LEMMA OnReadyEffect ==
    ASSUME Wired, NEW c \in Clients, OnReady(c)
    PROVE  /\ Wired' /\ Touches({c})
           /\ line'[c].near = line[c].near /\ line'[c].far = line[c].far
           /\ Carries(line[c].down, "ready")
           /\ Carries(line[c].down, "close") => Carries(line'[c].down, "close")
<1>1. c \in Sockets /\ c \notin Controls /\ line \in [Sockets -> Lines]
  BY Kinds DEF Wired
<1>2. line[c] \in Lines /\ Sound(line[c]) /\ ~line[c].silent /\ line[c].down \in Seq(Frames)
  BY <1>1, SocketFacts
<1>3. /\ line[c].down # <<>> /\ Head(line[c].down).op = "ready"
      /\ line' = [line EXCEPT ![c].down = Tail(@)]
  BY DEF OnReady, NearReads, DownRead
<1> DEFINE m == [line[c] EXCEPT !.down = Tail(@)]
<1>4. /\ m \in Lines /\ Sound(m) /\ ~m.silent /\ m.near = line[c].near /\ m.far = line[c].far
      /\ Carries(line[c].down, "close") => Carries(m.down, "close")
  BY <1>2, <1>3, ReadsDown
<1>5. line' = [line EXCEPT ![c] = m]
  BY <1>1, <1>3
<1> HIDE DEF m
<1>6. Wired' /\ Touches({c}) /\ line'[c] = m
  BY <1>1, <1>4, <1>5, OneChanges
<1>7. Carries(line[c].down, "ready")
  BY <1>2, <1>3, CarriesTail
<1> QED BY <1>4, <1>6, <1>7

LEMMA OnClientCloseEffect ==
    ASSUME Wired, NEW c \in Clients, OnClientClose(c)
    PROVE  /\ Wired' /\ Touches({c})
           /\ line'[c].near = "closed"
           /\ line[c].far \in {"open", "closing"} => line'[c].far = line[c].far
<1>1. c \in Sockets /\ c \notin Controls /\ line \in [Sockets -> Lines]
  BY Kinds DEF Wired
<1>2. line[c] \in Lines /\ Sound(line[c]) /\ ~line[c].silent
  BY <1>1, SocketFacts
<1> DEFINE n == NearCloses(line[c])
<1>3. /\ n \in Lines /\ Sound(n) /\ ~n.silent /\ n.near \in {"free", "closed"}
      /\ line[c].far \in {"open", "closing"} => n.far = line[c].far
  BY <1>2, NearClosesSound
<1>4. line' = [line EXCEPT ![c] = ForGood(n)]
  BY <1>1 DEF OnClientClose
<1> HIDE DEF n
<1> DEFINE m == ForGood(n)
<1>5. m \in Lines /\ Sound(m) /\ ~m.silent /\ m.far = n.far /\ m.near = "closed"
  BY <1>3, ForGoodSound
<1> HIDE DEF m
<1>6. Wired' /\ Touches({c}) /\ line'[c] = m
  BY <1>1, <1>4, <1>5, OneChanges DEF m
<1> QED BY <1>3, <1>5, <1>6

\* The steps of the relay.
LEMMA FarReadsFacts ==
    ASSUME Wired, NEW x \in Sockets, NEW op, FarReads(x, op)
    PROVE  /\ line[x].up # <<>> /\ Head(line[x].up).op = op /\ Carries(line[x].up, op)
           /\ line[x].far \in {"open", "closing"} /\ ~line[x].silent
<1>1. line[x] \in Lines /\ Sound(line[x]) /\ line[x].up \in Seq(Frames)
  BY SocketFacts
<1>2. line[x].up # <<>> /\ Head(line[x].up).op = op
  BY DEF FarReads
<1>3. Carries(line[x].up, op)
  BY <1>1, <1>2, CarriesTail
<1>4. line[x].far \in {"open", "closing"} /\ ~line[x].silent
  <2>1. line[x].far \in {"none", "open", "closing", "gone"}
    BY <1>1 DEF Lines, Fars
  <2> QED BY <1>1, <1>2, <2>1 DEF Sound
<1> QED BY <1>2, <1>3, <1>4

LEMMA FromClientEffect ==
    ASSUME Wired, NEW c \in Clients, NEW f \in {Hello, Data}, FromClient(c, f)
    PROVE  /\ Wired' /\ Touches({c})
           /\ line'[c].near = line[c].near /\ line'[c].far = line[c].far
           /\ line'[c].down = line[c].down
           /\ line[c].far \in {"open", "closing"}
<1>1. /\ c \in Sockets /\ c \notin Controls /\ line \in [Sockets -> Lines]
      /\ DatasOf(c) \subseteq Sockets /\ c \notin DatasOf(c)
  BY Kinds DEF Wired
<1>2. line[c] \in Lines /\ Sound(line[c]) /\ ~line[c].silent
  BY <1>1, SocketFacts
<1>3. f \in Frames /\ f.op # "close" /\ f.op # "ready"
  BY FrameFacts
<1>4. /\ line[c].up # <<>> /\ Head(line[c].up).op # "close" /\ line[c].far \in {"open", "closing"}
  BY <1>1, <1>3, FarReadsFacts DEF FromClient
<1> DEFINE m == [line[c] EXCEPT !.up = Tail(@)]
<1>5. /\ m \in Lines /\ Sound(m) /\ ~m.silent
      /\ m.near = line[c].near /\ m.far = line[c].far /\ m.down = line[c].down
  BY <1>2, <1>4, ReadsUp
<1>6. UpRead(c) = [line EXCEPT ![c] = m]
  BY <1>1 DEF UpRead
<1> HIDE DEF m
<1>7. \/ line' = [line EXCEPT ![c] = m]
      \/ line' = [x \in Sockets |-> IF x \in DatasOf(c) THEN SendsTo(line[x], f)
                                    ELSE [line EXCEPT ![c] = m][x]]
  BY <1>6 DEF FromClient
<1>8. CASE line' = [line EXCEPT ![c] = m]
  <2>1. Wired' /\ Touches({c}) /\ line'[c] = m
    BY <1>1, <1>5, <1>8, OneChanges
  <2> QED BY <1>4, <1>5, <2>1
<1>9. CASE line' = [x \in Sockets |-> IF x \in DatasOf(c) THEN SendsTo(line[x], f)
                                     ELSE [line EXCEPT ![c] = m][x]]
  <2>1. line'[c] = m
    BY <1>1, <1>9
  <2>2. ASSUME NEW x \in Sockets \ {c} PROVE Hears(line[x], line'[x])
    <3>1. line[x] \in Lines
      BY <1>1
    <3>2. line'[x] = IF x \in DatasOf(c) THEN SendsTo(line[x], f) ELSE line[x]
      BY <1>1, <1>9
    <3> QED BY <1>3, <3>1, <3>2, SendsToHears, HearsItself
  <2>3. \A x \in Sockets : line'[x] \in Lines
    BY <1>5, <2>1, <2>2 DEF Hears
  <2>4. line' \in [Sockets -> Lines]
    BY <1>9, <2>3
  <2>5. Touches({c})
    BY <2>2, <2>4 DEF Touches
  <2>6. Wired'
    BY <1>1, <1>5, <2>1, <2>5, WiredTouches
  <2> QED BY <1>4, <1>5, <2>1, <2>5, <2>6
<1> QED BY <1>7, <1>8, <1>9

LEMMA ClientGoneEffect ==
    ASSUME Wired, NEW c \in Clients, ClientGone(c)
    PROVE  /\ Wired' /\ Touches({c})
           /\ line'[c].near # "open" \/ Carries(line'[c].down, "close")
<1> DEFINE n == FarCloses(line[c])
<1> DEFINE m == ForGood(n)
<1> DEFINE l == [line EXCEPT ![c] = m]
<1> DEFINE g == ShutAll(l, DatasOf(c))
<1>1. /\ c \in Sockets /\ c \notin Controls /\ line \in [Sockets -> Lines] /\ c \notin DatasOf(c)
  BY Kinds DEF Wired
<1>2. line[c] \in Lines /\ Sound(line[c]) /\ line[c].up # <<>> /\ Carries(line[c].up, "close")
  BY <1>1, SocketFacts, FarReadsFacts DEF ClientGone
<1>3. n \in Lines /\ Sound(n) /\ ~n.silent /\ (n.near = "open" => Carries(n.down, "close"))
  BY <1>2, FarClosesSound
<1>4. line' = ToControls(g, Disconnected(c))
  BY <1>1 DEF ClientGone
<1> HIDE DEF n
<1>5. m \in Lines /\ Sound(m) /\ ~m.silent /\ (m.near = "open" => Carries(m.down, "close"))
  BY <1>3, ForGoodSound
<1> HIDE DEF m
<1>6. l \in [Sockets -> Lines] /\ l[c] = m /\ \A y \in Sockets \ {c} : l[y] = line[y]
  BY <1>1, <1>5
<1> HIDE DEF l
<1>7. /\ g \in [Sockets -> Lines] /\ g[c] = m
      /\ \A y \in Sockets : Hears(l[y], g[y])
      /\ \A y \in Sockets \ DatasOf(c) : g[y] = l[y]
  BY <1>1, <1>6, ShutAllHears
<1> HIDE DEF g
<1>8. /\ line' \in [Sockets -> Lines] /\ line'[c] = m
      /\ \A y \in Sockets : Hears(g[y], line'[y])
      /\ \A y \in Sockets \ Controls : line'[y] = g[y]
  <2>1. Disconnected(c) \in Frames /\ Disconnected(c).op # "ready"
    BY FrameFacts
  <2> QED BY <1>1, <1>4, <1>7, <2>1, ToControlsHears
<1>9. ASSUME NEW y \in Sockets \ {c} PROVE Hears(line[y], line'[y])
  <2>1. CASE y \in Controls
    <3>1. y \notin DatasOf(c)
      BY <2>1, Kinds
    <3> QED BY <3>1, <1>6, <1>7, <1>8
  <2>2. CASE y \notin Controls
    BY <2>2, <1>6, <1>7, <1>8
  <2> QED BY <2>1, <2>2
<1>10. Touches({c})
  BY <1>8, <1>9 DEF Touches
<1>11. Wired'
  BY <1>1, <1>5, <1>8, <1>10, WiredTouches
<1> QED BY <1>5, <1>8, <1>10, <1>11

LEMMA FromDataEffect ==
    ASSUME Wired, NEW d \in Datas, FromData(d)
    PROVE  /\ Wired' /\ Touches({d, d[1]})
           /\ line'[d].near = line[d].near /\ line'[d].far = line[d].far
           /\ Carries(line[d].up, "ready")
           /\ Carries(line[d].up, "close") => Carries(line'[d].up, "close")
           /\ Carries(line'[d].up, "ready") => Carries(line[d].up, "ready")
           /\ line'[d[1]].near = line[d[1]].near /\ line'[d[1]].far = line[d[1]].far
           /\ Carries(line[d[1]].down, "close") => Carries(line'[d[1]].down, "close")
<1> DEFINE c == d[1]
<1> DEFINE m == [line[d] EXCEPT !.up = Tail(@)]
<1> DEFINE n == SendsTo(line[c], Ready)
<1>1. /\ d \in Sockets /\ c \in Sockets /\ line \in [Sockets -> Lines] /\ c # d
      /\ d \notin Controls /\ c \notin Controls
  BY Kinds DEF Wired
<1>2. line[d] \in Lines /\ Sound(line[d]) /\ line[c] \in Lines /\ Sound(line[c])
      /\ ~line[d].silent /\ ~line[c].silent
  BY <1>1, SocketFacts
<1>3. /\ line[d].up # <<>> /\ Head(line[d].up).op = "ready" /\ Carries(line[d].up, "ready")
  BY <1>1, FarReadsFacts DEF FromData
<1>4. /\ m \in Lines /\ Sound(m) /\ ~m.silent /\ m.near = line[d].near /\ m.far = line[d].far
      /\ Carries(line[d].up, "close") => Carries(m.up, "close")
      /\ Carries(m.up, "ready") => Carries(line[d].up, "ready")
  BY <1>2, <1>3, ReadsUp
<1>5. /\ n \in Lines /\ Sound(n) /\ ~n.silent /\ n.near = line[c].near /\ n.far = line[c].far
      /\ Carries(line[c].down, "close") => Carries(n.down, "close")
  BY <1>2, SendsReady
<1>6. UpRead(d) = [line EXCEPT ![d] = m]
  BY <1>1 DEF UpRead
<1>7. \/ line' = [line EXCEPT ![d] = m]
      \/ line' = [[line EXCEPT ![d] = m] EXCEPT ![c] = SendsTo(@, Ready)]
  BY <1>6 DEF FromData
<1> HIDE DEF m
<1>8. line' = [line EXCEPT ![d] = m] \/ line' = [line EXCEPT ![d] = m, ![c] = n]
  BY <1>1, <1>4, <1>7
<1> HIDE DEF n
<1>9. /\ line' \in [Sockets -> Lines] /\ line'[d] = m /\ line'[c] \in {line[c], n}
      /\ \A y \in Sockets \ {d, c} : line'[y] = line[y]
  BY <1>1, <1>4, <1>5, <1>8
<1>10. Touches({d, c})
  BY <1>1, <1>9, HearsItself DEF Touches
<1>11. Wired'
  <2>1. \A x \in {d, c} : Sound(line'[x]) /\ (line'[x].silent => x \in Controls)
    BY <1>2, <1>4, <1>5, <1>9
  <2> QED BY <1>1, <1>10, <2>1, WiredTouches
<1> QED BY <1>3, <1>4, <1>5, <1>9, <1>10, <1>11

LEMMA DataGoneEffect ==
    ASSUME Wired, NEW d \in Datas, DataGone(d)
    PROVE  /\ Wired' /\ Touches({d})
           /\ line'[d].near = line[d].near \/ (line[d].near = "closed" /\ line'[d].near = "free")
           /\ line'[d].up = <<>>
           /\ line'[d[1]].near # "open" \/ Carries(line'[d[1]].down, "close")
           /\ line'[d[1]].far \in {"open", "closing"} <=> line[d[1]].far \in {"open", "closing"}
<1> DEFINE c == d[1]
<1> DEFINE m == FarCloses(line[d])
<1> DEFINE n == Shut(line[c])
<1>1. /\ d \in Sockets /\ c \in Sockets /\ line \in [Sockets -> Lines] /\ c # d
      /\ d \notin Controls /\ c \notin Controls
  BY Kinds DEF Wired
<1>2. /\ line[d] \in Lines /\ Sound(line[d]) /\ line[c] \in Lines /\ Sound(line[c]) /\ ~line[c].silent
      /\ line[d].up # <<>> /\ Carries(line[d].up, "close")
  BY <1>1, SocketFacts, FarReadsFacts DEF DataGone
<1>3. /\ m \in Lines /\ Sound(m) /\ ~m.silent /\ m.up = <<>>
      /\ m.near = line[d].near \/ (line[d].near = "closed" /\ m.near = "free")
  BY <1>2, FarClosesSound
<1>4. /\ Hears(line[c], n) /\ n.far # "open"
      /\ n.far \in {"open", "closing"} <=> line[c].far \in {"open", "closing"}
  BY <1>2, ShutHears
<1>5. line' = [line EXCEPT ![d] = m, ![c] = n]
  BY <1>1 DEF DataGone
<1> HIDE DEF m, n
<1>6. n \in Lines /\ Sound(n) /\ ~n.silent
  BY <1>2, <1>4 DEF Hears
<1>7. n.near # "open" \/ Carries(n.down, "close")
  BY <1>4, <1>6 DEF Sound, Told
<1>8. /\ line' \in [Sockets -> Lines] /\ line'[d] = m /\ line'[c] = n
      /\ \A y \in Sockets \ {d, c} : line'[y] = line[y]
  BY <1>1, <1>3, <1>5, <1>6
<1>9. Touches({d})
  BY <1>1, <1>4, <1>8, HearsItself DEF Touches
<1>10. Wired'
  BY <1>1, <1>3, <1>8, <1>9, WiredTouches
<1> QED BY <1>3, <1>4, <1>7, <1>8, <1>9, <1>10

LEMMA ControlGoneEffect ==
    ASSUME Wired, NEW k \in Controls, ControlGone(k)
    PROVE  /\ Wired' /\ Touches({k})
           /\ line[k].near # "closed" => line'[k].near = line[k].near
<1>1. k \in Sockets /\ line \in [Sockets -> Lines]
  BY Kinds DEF Wired
<1>2. line[k] \in Lines /\ Sound(line[k]) /\ line[k].up # <<>> /\ Carries(line[k].up, "close")
  BY <1>1, SocketFacts, FarReadsFacts DEF ControlGone
<1> DEFINE m == FarCloses(line[k])
<1>3. m \in Lines /\ Sound(m) /\ (line[k].near # "closed" => m.near = line[k].near)
  BY <1>2, FarClosesSound
<1>4. line' = [line EXCEPT ![k] = m]
  BY <1>1 DEF ControlGone
<1> HIDE DEF m
<1>5. Wired' /\ Touches({k}) /\ line'[k] = m
  BY <1>1, <1>3, <1>4, OneChanges
<1> QED BY <1>3, <1>5

LEMMA NudgesEffect ==
    ASSUME Wired, NEW c \in Clients, Nudges(c)
    PROVE  Wired' /\ Touches({})
<1>1. line \in [Sockets -> Lines]
  BY DEF Wired
<1>2. \/ line' = line \/ line' = ToControls(line, Sync(ListedClients))
      \/ line' = ShutAll(line, Controls)
  BY DEF Nudges
<1>3. Sync(ListedClients) \in Frames /\ Sync(ListedClients).op # "ready"
  <2>1. ListedClients \in SUBSET Clients
    BY DEF ListedClients
  <2> QED BY <2>1, FrameFacts
<1>4. line' \in [Sockets -> Lines] /\ \A y \in Sockets : Hears(line[y], line'[y])
  BY <1>1, <1>2, <1>3, ToControlsHears, ShutAllHears, HearsItself
<1>5. Touches({})
  BY <1>4 DEF Touches
<1> QED BY <1>5, WiredTouches

\* The steps of the daemon.
LEMMA NearReadsFacts ==
    ASSUME Wired, NEW x \in Sockets, NEW op, NearReads(x, op)
    PROVE  /\ line[x].down # <<>> /\ Head(line[x].down).op = op /\ Carries(line[x].down, op)
           /\ ~line[x].silent /\ line[x].near \notin {"free", "opening"}
<1>1. line[x] \in Lines /\ Sound(line[x]) /\ line[x].down \in Seq(Frames)
  BY SocketFacts
<1>2. line[x].down # <<>> /\ Head(line[x].down).op = op
  BY DEF NearReads
<1>3. Carries(line[x].down, op)
  BY <1>1, <1>2, CarriesTail
<1> QED BY <1>1, <1>2, <1>3 DEF Sound

LEMMA OpenLine ==
    ASSUME NEW q \in Seq(Frames)
    PROVE  LET m == [NoLine EXCEPT !.near = "open", !.far = "open", !.down = q]
           IN  /\ m \in Lines /\ Sound(m) /\ m.near = "open" /\ m.far = "open" /\ ~m.silent
               /\ m.up = <<>> /\ m.down = q
<1> DEFINE m == [NoLine EXCEPT !.near = "open", !.far = "open", !.down = q]
<1>1. /\ m \in Lines /\ m.near = "open" /\ m.far = "open" /\ ~m.silent
      /\ m.up = <<>> /\ m.down = q
  BY NoLineSound DEF Lines, Nears, Fars
<1> HIDE DEF m
<1>2. Sound(m)
  BY <1>1, CarriesNone DEF Sound, Told
<1> QED BY <1>1, <1>2 DEF m

LEMMA ConnectControlEffect ==
    ASSUME Wired, NEW k \in Controls, ConnectControl(k)
    PROVE  Wired' /\ Touches({k}) /\ line'[k].near = "open"
<1> DEFINE q == <<Sync(ListedClients)>>
<1> DEFINE m == [NoLine EXCEPT !.near = "open", !.far = "open", !.down = q]
<1> DEFINE g == ShutAll(line, Controls \ {k})
<1>1. k \in Sockets /\ line \in [Sockets -> Lines]
  BY Kinds DEF Wired
<1>2. line' = [g EXCEPT ![k] = m]
  BY DEF ConnectControl
<1>3. q \in Seq(Frames)
  <2>1. ListedClients \in SUBSET Clients
    BY DEF ListedClients
  <2>2. Sync(ListedClients) \in Frames
    BY <2>1, FrameFacts
  <2> QED BY <2>2
<1> HIDE DEF q
<1>4. m \in Lines /\ Sound(m) /\ m.near = "open" /\ ~m.silent
  BY <1>3, OpenLine
<1>5. g \in [Sockets -> Lines] /\ \A y \in Sockets : Hears(line[y], g[y])
  BY <1>1, ShutAllHears
<1> HIDE DEF m, g
<1>6. /\ line' \in [Sockets -> Lines] /\ line'[k] = m
      /\ \A y \in Sockets \ {k} : Hears(line[y], line'[y])
  BY <1>1, <1>2, <1>4, <1>5
<1>7. Touches({k})
  BY <1>6 DEF Touches
<1> QED BY <1>1, <1>4, <1>6, <1>7, WiredTouches

LEMMA TakesDataEffect ==
    ASSUME Types, Wired, NEW c \in Clients, NEW n \in Slots, TakesData(c, n)
    PROVE  /\ Wired' /\ Touches({<<c, n>>})
           /\ line'[<<c, n>>].near = "open" /\ line'[<<c, n>>].up = <<>>
           /\ line[<<c, n>>].near = "opening" /\ line[<<c, n>>].far = "none"
<1> DEFINE d == <<c, n>>
<1> DEFINE m == [NoLine EXCEPT !.near = "open", !.far = "open", !.down = pending[c]]
<1> DEFINE g == ShutAll(line, DatasOf(c) \ {<<c, n>>})
<1>1. d \in Sockets /\ d \notin Controls /\ line \in [Sockets -> Lines]
  BY Kinds DEF Wired
<1>2. line' = [g EXCEPT ![d] = m] /\ line[d].near = "opening"
  BY DEF TakesData
<1>3. pending[c] \in Seq(Frames)
  <2>1. pending[c] \in Seq({Hello, Data}) /\ {Hello, Data} \subseteq Frames
    BY FrameFacts DEF Types
  <2> QED BY <2>1
<1>4. m \in Lines /\ Sound(m) /\ m.near = "open" /\ ~m.silent /\ m.up = <<>>
  BY <1>3, OpenLine
<1>5. g \in [Sockets -> Lines] /\ \A y \in Sockets : Hears(line[y], g[y])
  BY <1>1, ShutAllHears
<1>6. line[d].far = "none"
  BY <1>1, <1>2, SocketFacts DEF Sound
<1> HIDE DEF m, g
<1>7. /\ line' \in [Sockets -> Lines] /\ line'[d] = m
      /\ \A y \in Sockets \ {d} : Hears(line[y], line'[y])
  BY <1>1, <1>2, <1>4, <1>5
<1>8. Touches({d})
  BY <1>7 DEF Touches
<1> QED BY <1>1, <1>2, <1>4, <1>6, <1>7, <1>8, WiredTouches

\* The clients and the sockets that a sync makes the daemon open.
NewClients(k) == IF current = k THEN {c \in Head(line[k].down).ids : dataOf[c] = 0} ELSE {}
NewSockets(k) == {<<c, FreeSlot(c)>> : c \in NewClients(k)}

LEMMA NewFacts ==
    ASSUME Wired, NEW k \in Controls, OnSync(k)
    PROVE  /\ NewClients(k) \subseteq Clients /\ NewSockets(k) \subseteq Datas
           /\ \A c \in NewClients(k) : /\ dataOf[c] = 0 /\ FreeSlot(c) \in Slots
                                      /\ line[<<c, FreeSlot(c)>>].near = "free"
           /\ dataOf' = [c \in Clients |-> IF c \in NewClients(k) THEN FreeSlot(c) ELSE dataOf[c]]
           /\ line' = [x \in Sockets |->
                IF x \in NewSockets(k) THEN [line[x] EXCEPT !.near = "opening"] ELSE DownRead(k)[x]]
           /\ line[k].near \notin {"free", "opening"}
           /\ line[k].down # <<>> /\ Head(line[k].down).op = "sync"
<1>1. /\ k \in Sockets /\ line[k].down # <<>> /\ Head(line[k].down).op = "sync"
      /\ line[k].near \notin {"free", "opening"}
  BY Kinds, NearReadsFacts DEF OnSync
<1>2. Head(line[k].down) \in Frames
  BY <1>1, SocketFacts, CarriesTail
<1>3. NewClients(k) \subseteq Clients /\ \A c \in NewClients(k) : dataOf[c] = 0
  BY <1>2, FrameFacts DEF NewClients
<1>4. \A c \in NewClients(k) : \E n \in Slots : line[<<c, n>>].near = "free"
  BY DEF OnSync, NewClients
<1>5. \A c \in NewClients(k) : FreeSlot(c) \in Slots /\ line[<<c, FreeSlot(c)>>].near = "free"
  BY <1>4 DEF FreeSlot
<1>6. NewSockets(k) \subseteq Datas
  BY <1>3, <1>5, Kinds DEF NewSockets
<1>7. /\ dataOf' = [c \in Clients |-> IF c \in NewClients(k) THEN FreeSlot(c) ELSE dataOf[c]]
      /\ line' = [x \in Sockets |->
           IF x \in NewSockets(k) THEN [line[x] EXCEPT !.near = "opening"] ELSE DownRead(k)[x]]
  BY DEF OnSync, NewClients, NewSockets
<1> QED BY <1>1, <1>3, <1>5, <1>6, <1>7

LEMMA OnSyncEffect ==
    ASSUME Wired, NEW k \in Controls, OnSync(k)
    PROVE  /\ Wired' /\ Touches({k} \cup NewSockets(k))
           /\ line'[k].near = line[k].near
           /\ \A d \in NewSockets(k) : /\ d \in Datas /\ line'[d].near = "opening" /\ line[d].near = "free"
                                       /\ line'[d].up = <<>> /\ line[d].far = "none"
<1> DEFINE m == [line[k] EXCEPT !.down = Tail(@)]
<1>1. k \in Sockets /\ k \notin Datas /\ line \in [Sockets -> Lines] /\ NewSockets(k) \subseteq Datas
  BY Kinds, NewFacts DEF Wired
<1>2. k \notin NewSockets(k) /\ NewSockets(k) \subseteq Sockets
  BY <1>1, Kinds
<1>3. m \in Lines /\ Sound(m) /\ m.near = line[k].near
  BY <1>1, SocketFacts, NewFacts, ReadsDown
<1>4. DownRead(k) = [line EXCEPT ![k] = m]
  BY <1>1 DEF DownRead
<1> HIDE DEF m
<1>5. line' = [x \in Sockets |->
           IF x \in NewSockets(k) THEN [line[x] EXCEPT !.near = "opening"] ELSE [line EXCEPT ![k] = m][x]]
  BY <1>4, NewFacts
<1>6. ASSUME NEW d \in NewSockets(k)
      PROVE  /\ line'[d] \in Lines /\ Sound(line'[d]) /\ ~line'[d].silent /\ line'[d].near = "opening"
             /\ line[d].near = "free" /\ line'[d].up = <<>> /\ line[d].far = "none"
  <2>1. /\ line[d] \in Lines /\ Sound(line[d]) /\ ~line[d].silent
        /\ line[d].near = "free" /\ d \in Datas
    <3>1. d \in Datas /\ d \in Sockets /\ d \notin Controls
      BY <1>1, Kinds
    <3>2. line[d].near = "free"
      BY NewFacts DEF NewSockets
    <3> QED BY <3>1, <3>2, SocketFacts
  <2>2. line'[d] = [line[d] EXCEPT !.near = "opening"]
    BY <1>2, <1>5
  <2>3. line[d].far = "none" /\ line[d].up = <<>> /\ line[d].down = <<>>
    BY <2>1 DEF Sound
  <2> DEFINE o == [line[d] EXCEPT !.near = "opening"]
  <2>4. /\ o \in Lines /\ o.near = "opening" /\ o.far = "none" /\ ~o.silent
        /\ o.up = <<>> /\ o.down = <<>>
    BY <2>1, <2>3 DEF Lines, Nears
  <2> HIDE DEF o
  <2>5. Sound(o)
    BY <2>4 DEF Sound, Told
  <2> QED BY <2>1, <2>2, <2>3, <2>4, <2>5 DEF o
<1>7. line'[k] = m /\ \A y \in Sockets \ ({k} \cup NewSockets(k)) : line'[y] = line[y]
  BY <1>1, <1>2, <1>5
<1>8. \A y \in Sockets : line'[y] \in Lines
  BY <1>1, <1>3, <1>6, <1>7
<1>9. line' \in [Sockets -> Lines]
  BY <1>5, <1>8
<1>10. Touches({k} \cup NewSockets(k))
  BY <1>1, <1>7, <1>9, HearsItself DEF Touches
<1>11. Wired'
  <2>1. \A y \in {k} \cup NewSockets(k) : Sound(line'[y]) /\ (line'[y].silent => y \in Controls)
    BY <1>3, <1>6, <1>7
  <2> QED BY <1>1, <1>2, <1>10, <2>1, WiredTouches
<1> QED BY <1>1, <1>3, <1>6, <1>7, <1>10, <1>11

LEMMA OnDisconnectedEffect ==
    ASSUME Types, Wired, NEW k \in Controls, NEW c \in Clients, OnDisconnected(k, c)
    PROVE  LET d == <<c, dataOf[c]>>
           IN  /\ Wired' /\ line'[k].near = line[k].near
               /\ \/ Touches({k}) /\ dataOf' = dataOf
                  \/ /\ Touches({k, d}) /\ d \in Datas
                     /\ dataOf' = [dataOf EXCEPT ![c] = 0]
                     /\ \/ line'[d] = line[d] /\ line[d].near \notin {"opening", "open"}
                        \/ line'[d] = NoLine /\ line[d].near = "opening"
                        \/ /\ line[d].near = "open" /\ line'[d].near = "closing"
                           /\ line'[d].far = line[d].far
                           /\ Carries(line'[d].up, "ready") => Carries(line[d].up, "ready")
<1> DEFINE d == <<c, dataOf[c]>>
<1> DEFINE m == [line[k] EXCEPT !.down = Tail(@)]
<1>1. k \in Sockets /\ k \notin Datas /\ line \in [Sockets -> Lines]
  BY Kinds DEF Wired
<1>2. line[k].down # <<>> /\ Head(line[k].down).op # "close"
  BY FrameFacts DEF OnDisconnected
<1>3. m \in Lines /\ Sound(m) /\ m.near = line[k].near
  BY <1>1, <1>2, SocketFacts, ReadsDown
<1>4. DownRead(k) = [line EXCEPT ![k] = m]
  BY <1>1 DEF DownRead
<1> HIDE DEF m
<1>5. CASE line' = DownRead(k) /\ UNCHANGED dataOf
  <2>1. Wired' /\ Touches({k}) /\ line'[k] = m
    BY <1>1, <1>3, <1>4, <1>5, OneChanges
  <2> QED BY <2>1, <1>3, <1>5
<1>6. CASE /\ dataOf[c] # 0 /\ dataOf' = [dataOf EXCEPT ![c] = 0]
           /\ line' = [DownRead(k) EXCEPT
                  ![d] = IF @.near \in {"opening", "open"} THEN Leaves(@, "closing") ELSE @]
  <2>1. d \in Datas /\ d \in Sockets /\ d # k /\ d \notin Controls
    <3>1. dataOf[c] \in Slots
      BY <1>6 DEF Types
    <3> QED BY <3>1, Kinds
  <2>2. line[d] \in Lines /\ Sound(line[d]) /\ ~line[d].silent
    BY <2>1, SocketFacts
  <2> DEFINE n == IF line[d].near \in {"opening", "open"} THEN Leaves(line[d], "closing") ELSE line[d]
  <2>3. line' = [line EXCEPT ![k] = m, ![d] = n]
    BY <1>1, <1>4, <1>6, <2>1
  <2>4. /\ n \in Lines /\ Sound(n) /\ ~n.silent
        /\ \/ n = line[d] /\ line[d].near \notin {"opening", "open"}
           \/ n = NoLine /\ line[d].near = "opening"
           \/ /\ line[d].near = "open" /\ n.near = "closing" /\ n.far = line[d].far
              /\ Carries(n.up, "ready") => Carries(line[d].up, "ready")
    <3>1. CASE line[d].near \in {"opening", "open"}
      <4> DEFINE o == Leaves(line[d], "closing")
      <4>1. /\ o \in Lines /\ Sound(o)
            /\ line[d].near = "opening" => o = NoLine
            /\ line[d].near = "open" => o.near = "closing" /\ o.far = line[d].far /\ o.silent = line[d].silent
            /\ Carries(o.up, "ready") => Carries(line[d].up, "ready")
        BY <3>1, <2>2, LeavesSound
      <4>2. n = o
        BY <3>1
      <4> HIDE DEF o, n
      <4> QED BY <3>1, <4>1, <4>2, <2>2, NoLineSound
    <3>2. CASE line[d].near \notin {"opening", "open"}
      BY <3>2, <2>2
    <3> QED BY <3>1, <3>2
  <2> HIDE DEF n
  <2>5. /\ line' \in [Sockets -> Lines] /\ line'[k] = m /\ line'[d] = n
        /\ \A y \in Sockets \ {k, d} : line'[y] = line[y]
    BY <1>1, <1>3, <2>1, <2>3, <2>4
  <2>6. Touches({k, d})
    BY <1>1, <2>5, HearsItself DEF Touches
  <2>7. Wired'
    <3>1. \A y \in {k, d} : Sound(line'[y]) /\ (line'[y].silent => y \in Controls)
      BY <1>3, <2>4, <2>5
    <3> QED BY <1>1, <2>1, <2>6, <3>1, WiredTouches
  <2>8. d \in Datas /\ dataOf' = [dataOf EXCEPT ![c] = 0]
    BY <1>6, <2>1
  <2> QED BY <1>3, <2>4, <2>5, <2>6, <2>7, <2>8
<1> QED BY <1>5, <1>6 DEF OnDisconnected

LEMMA ControlLostEffect ==
    ASSUME Wired, NEW k \in Controls, OnControlClose(k) \/ ControlStale(k)
    PROVE  Wired' /\ Touches({k})
<1>1. k \in Sockets /\ line \in [Sockets -> Lines]
  BY Kinds DEF Wired
<1>2. line[k] \in Lines /\ Sound(line[k])
  BY <1>1, SocketFacts
<1>3. CASE OnControlClose(k)
  <2> DEFINE m == NearCloses(line[k])
  <2>1. ~line[k].silent
    BY <1>1, <1>3, NearReadsFacts DEF OnControlClose
  <2>2. m \in Lines /\ Sound(m)
    BY <1>2, <2>1, NearClosesSound
  <2>3. line' = [line EXCEPT ![k] = m]
    BY <1>3 DEF OnControlClose, ControlLost
  <2> HIDE DEF m
  <2> QED BY <1>1, <2>2, <2>3, OneChanges
<1>4. CASE ControlStale(k)
  <2> DEFINE n == Leaves(line[k], "closed")
  <2> DEFINE m == Tidy(n)
  <2>1. n \in Lines /\ Sound(n)
    BY <1>2, <1>4, LeavesSound DEF ControlStale
  <2>2. line' = [line EXCEPT ![k] = m]
    BY <1>4 DEF ControlStale, ControlLost
  <2> HIDE DEF n
  <2>3. m \in Lines /\ Sound(m)
    BY <2>1, TidySound
  <2> HIDE DEF m
  <2> QED BY <1>1, <2>2, <2>3, OneChanges
<1> QED BY <1>3, <1>4

LEMMA OnHelloEffect ==
    ASSUME Wired, NEW d \in Datas, OnHello(d)
    PROVE  /\ Wired' /\ Touches({d})
           /\ line'[d].near = line[d].near /\ line'[d].far = line[d].far
           /\ Carries(line[d].up, "close") => Carries(line'[d].up, "close")
           /\ Carries(line'[d].up, "ready") =>
                Carries(line[d].up, "ready") \/ (line[d].near = "open" /\ line[d].far \in {"open", "closing"})
<1> DEFINE m == [line[d] EXCEPT !.down = Tail(@)]
<1> DEFINE n == [m EXCEPT !.up = Append(@, Ready)]
<1>1. d \in Sockets /\ d \notin Controls /\ line \in [Sockets -> Lines]
  BY Kinds DEF Wired
<1>2. line[d] \in Lines /\ Sound(line[d]) /\ line[d].down # <<>> /\ Head(line[d].down).op # "close"
  BY <1>1, SocketFacts, NearReadsFacts DEF OnHello
<1>3. /\ m \in Lines /\ Sound(m) /\ ~line[d].silent
      /\ m.near = line[d].near /\ m.far = line[d].far /\ m.silent = line[d].silent /\ m.up = line[d].up
      /\ line[d].near = "open" => line[d].far # "gone" /\ ~Carries(line[d].up, "close")
  BY <1>2, ReadsDown
<1>4. DownRead(d) = [line EXCEPT ![d] = m]
  BY <1>1 DEF DownRead
<1> HIDE DEF m
<1>5. CASE line[d].near = "open"
  <2>1. line' = [DownRead(d) EXCEPT ![d].up = Append(@, Ready)]
    BY <1>5 DEF OnHello
  <2>2. line' = [line EXCEPT ![d] = n]
    BY <1>1, <1>3, <1>4, <2>1
  <2>3. Ready \in Frames /\ Ready.op # "close"
    BY FrameFacts
  <2>4. /\ n \in Lines /\ Sound(n) /\ n.near = m.near /\ n.far = m.far /\ ~n.silent
        /\ n.far \in {"open", "closing"}
    BY <1>3, <1>5, <2>3, SendsUp
  <2> HIDE DEF n
  <2>5. Wired' /\ Touches({d}) /\ line'[d] = n
    BY <1>1, <2>2, <2>4, OneChanges
  <2> QED BY <1>3, <1>5, <2>4, <2>5
<1>6. CASE line[d].near # "open"
  <2>1. line' = [line EXCEPT ![d] = m]
    BY <1>4, <1>6 DEF OnHello
  <2>2. Wired' /\ Touches({d}) /\ line'[d] = m
    BY <1>1, <1>3, <2>1, OneChanges
  <2> QED BY <1>3, <2>2
<1> QED BY <1>5, <1>6

LEMMA OnDataEffect ==
    ASSUME Wired, NEW d \in Datas, OnData(d)
    PROVE  /\ Wired' /\ Touches({d})
           /\ line'[d].near = line[d].near \/ (line[d].near = "open" /\ line'[d].near = "closing")
           /\ line'[d].far = line[d].far
           /\ line'[d].near = "closing" \/ (Carries(line[d].up, "close") => Carries(line'[d].up, "close"))
           /\ Carries(line'[d].up, "ready") => Carries(line[d].up, "ready")
<1> DEFINE m == [line[d] EXCEPT !.down = Tail(@)]
<1> DEFINE n == Leaves(m, "closing")
<1>1. d \in Sockets /\ d \notin Controls /\ line \in [Sockets -> Lines]
  BY Kinds DEF Wired
<1>2. line[d] \in Lines /\ Sound(line[d]) /\ line[d].down # <<>> /\ Head(line[d].down).op # "close"
  BY <1>1, SocketFacts, NearReadsFacts DEF OnData
<1>3. /\ m \in Lines /\ Sound(m) /\ ~line[d].silent
      /\ m.near = line[d].near /\ m.far = line[d].far /\ m.silent = line[d].silent /\ m.up = line[d].up
  BY <1>2, ReadsDown
<1>4. DownRead(d) = [line EXCEPT ![d] = m]
  BY <1>1 DEF DownRead
<1> HIDE DEF m
<1>5. CASE line[d].near = "open" /\ channel[d] = "waits"
  <2>1. line' = [[line EXCEPT ![d] = m] EXCEPT ![d] = Leaves(@, "closing")]
    BY <1>4, <1>5 DEF OnData
  <2>2. /\ n \in Lines /\ Sound(n) /\ n.near = "closing" /\ n.far = m.far /\ ~n.silent
        /\ Carries(n.up, "ready") => Carries(m.up, "ready")
    BY <1>3, <1>5, LeavesSound
  <2>3. line' = [line EXCEPT ![d] = n]
    BY <1>1, <1>3, <2>1
  <2> HIDE DEF n
  <2>4. Wired' /\ Touches({d}) /\ line'[d] = n
    BY <1>1, <2>2, <2>3, OneChanges
  <2> QED BY <1>3, <1>5, <2>2, <2>4
<1>6. CASE ~(line[d].near = "open" /\ channel[d] = "waits")
  <2>1. line' = [line EXCEPT ![d] = m]
    BY <1>4, <1>6 DEF OnData
  <2>2. Wired' /\ Touches({d}) /\ line'[d] = m
    BY <1>1, <1>3, <2>1, OneChanges
  <2> QED BY <1>3, <2>2
<1> QED BY <1>5, <1>6

LEMMA OnDataCloseEffect ==
    ASSUME Wired, NEW d \in Datas, OnDataClose(d)
    PROVE  /\ Wired' /\ Touches({d})
           /\ line'[d].near \in {"free", "closed"}
           /\ line[d].far \in {"open", "closing"} => line'[d].far = line[d].far
           /\ Carries(line'[d].up, "ready") => Carries(line[d].up, "ready")
<1> DEFINE m == NearCloses(line[d])
<1>1. d \in Sockets /\ d \notin Controls /\ line \in [Sockets -> Lines]
  BY Kinds DEF Wired
<1>2. line[d] \in Lines /\ Sound(line[d]) /\ ~line[d].silent
  BY <1>1, SocketFacts
<1>3. /\ m \in Lines /\ Sound(m) /\ ~m.silent /\ m.near \in {"free", "closed"}
      /\ line[d].far \in {"open", "closing"} => m.far = line[d].far
      /\ Carries(m.up, "ready") => Carries(line[d].up, "ready")
  BY <1>2, NearClosesSound
<1>4. line' = [line EXCEPT ![d] = m]
  BY <1>1 DEF OnDataClose
<1> HIDE DEF m
<1>5. Wired' /\ Touches({d}) /\ line'[d] = m
  BY <1>1, <1>3, <1>4, OneChanges
<1> QED BY <1>3, <1>5

\* Failures.
LEMMA DataRefusedEffect ==
    ASSUME Wired, NEW d \in Datas, DataRefused(d)
    PROVE  /\ Wired' /\ Touches({d}) /\ line'[d] = NoLine
           /\ line[d].near = "opening" /\ line[d].far = "none"
<1>1. d \in Sockets /\ line' = [line EXCEPT ![d] = NoLine] /\ line[d].near = "opening"
  BY Kinds DEF DataRefused
<1>2. line[d].far = "none"
  BY <1>1, SocketFacts DEF Sound
<1> QED BY <1>1, <1>2, NoLineSound, OneChanges

LEMMA BreaksEffect ==
    ASSUME Wired, NEW x \in Sockets, Breaks(x)
    PROVE  /\ Wired' /\ Touches({x})
           /\ line'[x].near = line[x].near /\ line'[x].far = line[x].far /\ line[x].far = "open"
           /\ Carries(line'[x].up, "close") /\ ~Carries(line'[x].up, "ready")
           /\ Carries(line'[x].down, "close")
<1> DEFINE q == <<CloseFrame>>
<1> DEFINE m == [line[x] EXCEPT !.up = q, !.down = q]
<1>1. line[x] \in Lines /\ Sound(line[x]) /\ line \in [Sockets -> Lines]
  BY SocketFacts DEF Wired
<1>2. line[x].near # "closed" /\ line[x].far = "open" /\ ~line[x].silent
  BY DEF Breaks
<1>3. line' = [line EXCEPT ![x] = m]
  BY <1>1 DEF Breaks
<1>4. /\ q \in Seq(Frames) /\ q # <<>> /\ Head(q).op = "close"
      /\ Carries(q, "close") /\ ~Carries(q, "ready")
  <2>1. CloseFrame \in Frames /\ CloseFrame.op = "close"
    BY FrameFacts
  <2>2. q \in Seq(Frames) /\ q # <<>> /\ Head(q) = CloseFrame
    BY <2>1
  <2>3. Carries(q, "close") /\ ~Carries(q, "ready")
    BY <2>1, CarriesOne
  <2> QED BY <2>1, <2>2, <2>3
<1> HIDE DEF q
<1>5. /\ m \in Lines /\ m.near = line[x].near /\ m.far = line[x].far /\ ~m.silent
      /\ m.up = q /\ m.down = q
  BY <1>1, <1>2, <1>4 DEF Lines
<1> HIDE DEF m
<1>6. Sound(m)
  BY <1>1, <1>2, <1>4, <1>5 DEF Sound, Told
<1>7. Wired' /\ Touches({x}) /\ line'[x] = m
  BY <1>1, <1>3, <1>5, <1>6, OneChanges
<1> QED BY <1>2, <1>4, <1>5, <1>7

LEMMA FallsSilentEffect ==
    ASSUME Wired, NEW k \in Controls, FallsSilent(k)
    PROVE  Wired' /\ Touches({k}) /\ line'[k].near = line[k].near
<1> DEFINE m == [line[k] EXCEPT !.silent = TRUE, !.up = <<>>, !.down = <<>>]
<1>1. k \in Sockets /\ line \in [Sockets -> Lines] /\ line[k] \in Lines
  BY Kinds DEF Wired
<1>2. line[k].near = "open" /\ line[k].far = "open"
  BY DEF FallsSilent
<1>3. line' = [line EXCEPT ![k] = m]
  BY <1>1 DEF FallsSilent
<1>4. /\ m \in Lines /\ m.near = "open" /\ m.far = "open" /\ m.silent
      /\ m.up = <<>> /\ m.down = <<>>
  <2>1. <<>> \in Seq(Frames)
    OBVIOUS
  <2> QED BY <1>1, <1>2, <2>1 DEF Lines
<1> HIDE DEF m
<1>5. Sound(m)
  BY <1>4, CarriesNone DEF Sound, Told
<1>6. Wired' /\ Touches({k}) /\ line'[k] = m
  BY <1>1, <1>3, <1>4, <1>5, OneChanges
<1> QED BY <1>2, <1>4, <1>6

-----------------------------------------------------------------------------
(* What keeps the parts of the invariant *)

LEMMA HearsFacts ==
    ASSUME NEW l, NEW m, Hears(l, m)
    PROVE  /\ m.near = l.near /\ m.up = l.up
           /\ m.far \in {"open", "closing"} <=> l.far \in {"open", "closing"}
           /\ Carries(l.down, "close") => Carries(m.down, "close")
           /\ Carries(m.down, "ready") => Carries(l.down, "ready")
  BY DEF Hears

LEMMA UntouchedFacts ==
    ASSUME NEW some, Touches(some), NEW x \in Sockets, x \notin some
    PROVE  /\ line'[x].near = line[x].near /\ line'[x].up = line[x].up
           /\ line'[x].far \in {"open", "closing"} <=> line[x].far \in {"open", "closing"}
           /\ Carries(line[x].down, "close") => Carries(line'[x].down, "close")
           /\ Carries(line'[x].down, "ready") => Carries(line[x].down, "ready")
<1>1. Hears(line[x], line'[x])
  BY DEF Touches
<1> QED BY <1>1 DEF Hears

LEMMA DialsTouches ==
    ASSUME Types, Dials, NEW some, Touches(some), UNCHANGED <<current, retry>>,
           \A k \in Controls \cap some : line[k].near = "open" => line'[k].near = "open"
    PROVE  Dials'
<1>1. \A k \in Controls : line[k].near = "open" => line'[k].near = "open"
  BY Kinds, UntouchedFacts
<1>2. current # None => current \in Controls
  BY DEF Types
<1> QED BY <1>1, <1>2 DEF Dials

LEMMA HeldTouches ==
    ASSUME Types, Held, NEW some, Touches(some), UNCHANGED <<dataOf, channel>>,
           \A d \in Datas \cap some :
             line'[d].near = line[d].near \/ (line[d].near = "closed" /\ line'[d].near = "free")
    PROVE  Held'
<1>1. \A d \in Datas :
        line'[d].near = line[d].near \/ (line[d].near = "closed" /\ line'[d].near = "free")
  BY Kinds, UntouchedFacts
<1>2. \A d \in Datas : line'[d].near \in {"opening", "open"} => dataOf'[d[1]] = d[2]
  BY <1>1 DEF Held
<1>3. ASSUME NEW c \in Clients, dataOf'[c] # 0
      PROVE  line'[<<c, dataOf'[c]>>].near \in {"opening", "open", "closing"}
  <2>1. dataOf[c] \in Slots
    BY <1>3 DEF Types
  <2>2. <<c, dataOf[c]>> \in Datas
    BY <2>1, Kinds
  <2> QED BY <1>1, <1>3, <2>2 DEF Held
<1>4. \A d \in Datas : channel'[d] # "none" => line'[d].near \in {"open", "closing"}
  BY <1>1 DEF Held
<1> QED BY <1>2, <1>3, <1>4 DEF Held

LEMMA FreedTouches ==
    ASSUME Freed, NEW some, Touches(some),
           \A c \in Clients : pending'[c] = pending[c] \/ pending'[c] = <<>> \/ line[c].far \in {"open", "closing"},
           \A c \in Clients \cap some :
             \/ pending'[c] = <<>>
             \/ line[c].far \in {"open", "closing"} => line'[c].far \in {"open", "closing"}
    PROVE  Freed'
<1>1. SUFFICES ASSUME NEW c \in Clients, line'[c].far \notin {"open", "closing"}
               PROVE  pending'[c] = <<>>
  BY DEF Freed, Listed
<1>2. CASE line[c].far \in {"open", "closing"}
  <2>1. c \in some
    BY <1>1, <1>2, Kinds, UntouchedFacts
  <2> QED BY <1>1, <1>2, <2>1
<1>3. CASE line[c].far \notin {"open", "closing"}
  <2>1. pending[c] = <<>>
    BY <1>3 DEF Freed, Listed
  <2> QED BY <1>3, <2>1
<1> QED BY <1>2, <1>3

LEMMA AnsweredTouches ==
    ASSUME Answered, NEW some, Touches(some),
           \A d \in Datas \cap some : /\ Answering(d) => Answering(d)' \/ Doomed(d[1])'
                                      /\ Carries(line'[d].up, "ready") => Answering(d)',
           \A d \in Datas \ some : channel'[d] = channel[d],
           \A c \in Clients \cap some :
             \/ Doomed(c)'
             \/ shake'[c] # "open" /\ ~Carries(line'[c].down, "ready")
             \/ /\ ~Doomed(c)
                /\ \/ shake[c] = "open" \/ Carries(line[c].down, "ready")
                   \/ \E d \in DatasOf(c) : Answering(d),
           \A c \in Clients \ some : shake'[c] = shake[c]
    PROVE  Answered'
<1>1. ASSUME NEW d \in Datas, d \notin some PROVE Answering(d) <=> Answering(d)'
  <2>1. /\ line'[d].up = line[d].up /\ channel'[d] = channel[d]
        /\ line'[d].far \in {"open", "closing"} <=> line[d].far \in {"open", "closing"}
    BY <1>1, Kinds, UntouchedFacts
  <2> QED BY <2>1 DEF Answering, Listed
<1>2. \A d \in Datas : Answering(d) => Answering(d)' \/ Doomed(d[1])'
  BY <1>1
<1>3. ASSUME NEW d \in Datas, Carries(line'[d].up, "ready") PROVE Answering(d)'
  <2>1. CASE d \in some
    BY <1>3, <2>1
  <2>2. CASE d \notin some
    <3>1. Carries(line[d].up, "ready")
      BY <1>3, <2>2, Kinds, UntouchedFacts
    <3> QED BY <1>1, <2>2, <3>1 DEF Answered
  <2> QED BY <2>1, <2>2
<1>4. ASSUME NEW c \in Clients, NEW e \in DatasOf(c), Answering(e)
      PROVE  Doomed(c)' \/ \E d \in DatasOf(c) : Answering(d)'
  <2>1. e \in Datas /\ e[1] = c
    BY Kinds
  <2> QED BY <1>2, <1>4, <2>1
<1>5. ASSUME NEW c \in Clients, shake'[c] = "open" \/ Carries(line'[c].down, "ready")
      PROVE  Doomed(c)' \/ \E d \in DatasOf(c) : Answering(d)'
  <2>1. CASE c \notin some
    <3>1. /\ line'[c].near = line[c].near
          /\ Carries(line[c].down, "close") => Carries(line'[c].down, "close")
          /\ Carries(line'[c].down, "ready") => Carries(line[c].down, "ready")
      BY <2>1, Kinds, UntouchedFacts
    <3>2. Doomed(c) => Doomed(c)'
      BY <3>1 DEF Doomed
    <3>3. shake[c] = "open" \/ Carries(line[c].down, "ready")
      BY <1>5, <2>1, <3>1
    <3>4. Doomed(c) \/ \E d \in DatasOf(c) : Answering(d)
      BY <3>3 DEF Answered
    <3> QED BY <1>4, <3>2, <3>4
  <2>2. CASE c \in some /\ ~Doomed(c)'
    <3>1. /\ ~Doomed(c)
          /\ \/ shake[c] = "open" \/ Carries(line[c].down, "ready")
             \/ \E d \in DatasOf(c) : Answering(d)
      BY <1>5, <2>2
    <3>2. \E d \in DatasOf(c) : Answering(d)
      BY <3>1 DEF Answered
    <3> QED BY <1>4, <3>2
  <2> QED BY <2>1, <2>2
<1>6. (\A d \in Datas : Carries(line[d].up, "ready") => Answering(d))'
  BY <1>3
<1>7. (\A c \in Clients : shake[c] = "open" \/ Carries(line[c].down, "ready") =>
         Doomed(c) \/ \E d \in DatasOf(c) : Answering(d))'
  BY <1>5
<1> QED BY <1>6, <1>7 DEF Answered

-----------------------------------------------------------------------------
(* Every step keeps the invariant *)

\* bufferFrame keeps no more frames than its limit.
LEMMA KeptBounded ==
    ASSUME NEW q \in Seq({Hello, Data}), Len(q) <= BufferLimit, NEW f \in {Hello, Data}
    PROVE  Kept(q, f) \in Seq({Hello, Data}) /\ Len(Kept(q, f)) <= BufferLimit
<1>1. BufferLimit \in Nat \ {0} /\ Len(q) \in Nat
  BY RelayAssumption
<1>2. CASE Len(q) < BufferLimit
  BY <1>1, <1>2 DEF Kept
<1>3. CASE ~(Len(q) < BufferLimit)
  <2> DEFINE t == Tail(q)
  <2>1. q # <<>>
    BY <1>1, <1>3
  <2>2. t \in Seq({Hello, Data}) /\ Len(t) = Len(q) - 1
    BY <2>1
  <2>3. Kept(q, f) = Append(t, f)
    BY <1>3 DEF Kept
  <2> HIDE DEF t
  <2>4. Append(t, f) \in Seq({Hello, Data}) /\ Len(Append(t, f)) = Len(t) + 1
    BY <2>2
  <2> QED BY <1>1, <2>2, <2>3, <2>4
<1> QED BY <1>2, <1>3

LEMMA NextTypes ==
    ASSUME Types, Wired, Next PROVE Types'
<1>1. ASSUME NEW c \in Clients, Connects(c) PROVE Types'
  BY <1>1 DEF Types, Connects
<1>2. ASSUME NEW c \in Clients, HelloAgain(c) \/ Says(c) PROVE Types'
  BY <1>2 DEF Types, HelloAgain, Says, AClient
<1>3. ASSUME NEW c \in Clients, Disconnects(c) PROVE Types'
  BY <1>3 DEF Types, Disconnects, AClient
<1>4. ASSUME NEW c \in Clients, OnReady(c) PROVE Types'
  BY <1>4 DEF Types, OnReady, AClient
<1>5. ASSUME NEW c \in Clients, OnClientClose(c) PROVE Types'
  BY <1>5 DEF Types, OnClientClose, AClient
<1>6. ASSUME NEW c \in Clients, ClientGone(c) PROVE Types'
  <2>1. pending' = [pending EXCEPT ![c] = <<>>]
    BY <1>6 DEF ClientGone
  <2>2. <<>> \in Seq({Hello, Data}) /\ Len(<<>>) = 0 /\ BufferLimit \in Nat
    BY RelayAssumption
  <2>3. /\ pending' \in [Clients -> Seq({Hello, Data})]
        /\ \A b \in Clients : Len(pending'[b]) <= BufferLimit
    BY <2>1, <2>2 DEF Types
  <2> QED BY <1>6, <2>3 DEF Types, ClientGone, Relays
<1>7. ASSUME NEW c \in Clients, NEW f \in {Hello, Data}, FromClient(c, f) PROVE Types'
  <2>1. \/ pending' = pending
        \/ pending' = [pending EXCEPT ![c] = Kept(pending[c], f)]
    BY <1>7 DEF FromClient, Types
  <2>2. pending[c] \in Seq({Hello, Data}) /\ Len(pending[c]) <= BufferLimit
    BY DEF Types
  <2>3. Kept(pending[c], f) \in Seq({Hello, Data}) /\ Len(Kept(pending[c], f)) <= BufferLimit
    BY <2>2, KeptBounded
  <2>4. /\ pending' \in [Clients -> Seq({Hello, Data})]
        /\ \A b \in Clients : Len(pending'[b]) <= BufferLimit
    BY <2>1, <2>3 DEF Types
  <2> QED BY <1>7, <2>4 DEF Types, FromClient, Relays
<1>8. ASSUME NEW c \in Clients, Nudges(c) PROVE Types'
  BY <1>8 DEF Types, Nudges, Relays
<1>9. ASSUME NEW k \in Controls, ConnectControl(k) PROVE Types'
  BY <1>9 DEF Types, ConnectControl
<1>10. ASSUME NEW k \in Controls, OnSync(k) PROVE Types'
  <2>1. /\ dataOf \in [Clients -> {0} \cup Slots]
        /\ \A c \in NewClients(k) : FreeSlot(c) \in Slots
        /\ dataOf' = [c \in Clients |-> IF c \in NewClients(k) THEN FreeSlot(c) ELSE dataOf[c]]
    BY <1>10, NewFacts DEF Types
  <2>2. dataOf' \in [Clients -> {0} \cup Slots]
    BY <2>1
  <2> QED BY <1>10, <2>2 DEF Types, OnSync, Daemons
<1>11. ASSUME NEW k \in Controls, NEW c \in Clients, OnDisconnected(k, c) PROVE Types'
  <2>1. dataOf' \in [Clients -> {0} \cup Slots]
    BY <1>11 DEF Types, OnDisconnected
  <2> QED BY <1>11, <2>1 DEF Types, OnDisconnected, Daemons
<1>12. ASSUME NEW k \in Controls, OnControlClose(k) \/ ControlStale(k) PROVE Types'
  BY <1>12 DEF Types, OnControlClose, ControlStale, ControlLost, Daemons
<1>13. ASSUME NEW k \in Controls, ControlGone(k) PROVE Types'
  BY <1>13 DEF Types, ControlGone, Relays
<1>14. ASSUME NEW k \in Controls, FallsSilent(k) PROVE Types'
  <2>1. faults' \in 0..MaxFaults
    BY <1>14, RelayAssumption DEF Types, FallsSilent, Fault
  <2> QED BY <1>14, <2>1 DEF Types, FallsSilent
<1>15. ASSUME NEW c \in Clients, NEW n \in Slots, TakesData(c, n) PROVE Types'
  <2>1. pending' = [pending EXCEPT ![c] = <<>>]
    BY <1>15 DEF TakesData
  <2>2. <<>> \in Seq({Hello, Data}) /\ Len(<<>>) = 0 /\ BufferLimit \in Nat
    BY RelayAssumption
  <2>3. /\ pending' \in [Clients -> Seq({Hello, Data})]
        /\ \A b \in Clients : Len(pending'[b]) <= BufferLimit
    BY <2>1, <2>2 DEF Types
  <2>4. channel' \in [Datas -> {"none", "waits", "open"}]
    BY <1>15 DEF Types, TakesData
  <2> QED BY <1>15, <2>3, <2>4 DEF Types, TakesData
<1>16. ASSUME NEW d \in Datas, FromData(d) PROVE Types'
  BY <1>16 DEF Types, FromData, Relays
<1>17. ASSUME NEW d \in Datas, DataGone(d) PROVE Types'
  BY <1>17 DEF Types, DataGone, Relays
<1>18. ASSUME NEW d \in Datas, OnHello(d) PROVE Types'
  BY <1>18 DEF Types, OnHello, Daemons
<1>19. ASSUME NEW d \in Datas, OnData(d) PROVE Types'
  BY <1>19 DEF Types, OnData, Daemons
<1>20. ASSUME NEW d \in Datas, OnDataClose(d) PROVE Types'
  <2>1. dataOf' \in [Clients -> {0} \cup Slots]
    BY <1>20 DEF Types, OnDataClose, Forgotten
  <2> QED BY <1>20, <2>1 DEF Types, OnDataClose, Daemons
<1>21. ASSUME NEW d \in Datas, DataRefused(d) PROVE Types'
  <2>1. dataOf' \in [Clients -> {0} \cup Slots]
    BY <1>21 DEF Types, DataRefused, Forgotten
  <2>2. faults' \in 0..MaxFaults
    BY <1>21, RelayAssumption DEF Types, DataRefused, Fault
  <2> QED BY <1>21, <2>1, <2>2 DEF Types, DataRefused
<1>22. ASSUME NEW x \in Sockets, Breaks(x) PROVE Types'
  <2>1. faults' \in 0..MaxFaults
    BY <1>22, RelayAssumption DEF Types, Breaks, Fault
  <2> QED BY <1>22, <2>1 DEF Types, Breaks
<1> QED
  BY <1>1, <1>2, <1>3, <1>4, <1>5, <1>6, <1>7, <1>8, <1>9, <1>10, <1>11, <1>12,
         <1>13, <1>14, <1>15, <1>16, <1>17, <1>18, <1>19, <1>20, <1>21, <1>22, Kinds
     DEF Next, ClientReads, RelayReads, RelayReadsData, DaemonReadsData, ControlReads

LEMMA NextWired ==
    ASSUME Types, Wired, Next PROVE Wired'
<1>1. ASSUME NEW c \in Clients, Connects(c) PROVE Wired'
  BY <1>1, ConnectsEffect
<1>2. ASSUME NEW c \in Clients, HelloAgain(c) \/ Says(c) PROVE Wired'
  BY <1>2, SendsEffect
<1>3. ASSUME NEW c \in Clients, Disconnects(c) PROVE Wired'
  BY <1>3, DisconnectsEffect
<1>4. ASSUME NEW c \in Clients, OnReady(c) PROVE Wired'
  BY <1>4, OnReadyEffect
<1>5. ASSUME NEW c \in Clients, OnClientClose(c) PROVE Wired'
  BY <1>5, OnClientCloseEffect
<1>6. ASSUME NEW c \in Clients, ClientGone(c) PROVE Wired'
  BY <1>6, ClientGoneEffect
<1>7. ASSUME NEW c \in Clients, NEW f \in {Hello, Data}, FromClient(c, f) PROVE Wired'
  BY <1>7, FromClientEffect
<1>8. ASSUME NEW c \in Clients, Nudges(c) PROVE Wired'
  BY <1>8, NudgesEffect
<1>9. ASSUME NEW k \in Controls, ConnectControl(k) PROVE Wired'
  BY <1>9, ConnectControlEffect
<1>10. ASSUME NEW k \in Controls, OnSync(k) PROVE Wired'
  BY <1>10, OnSyncEffect
<1>11. ASSUME NEW k \in Controls, NEW c \in Clients, OnDisconnected(k, c) PROVE Wired'
  BY <1>11, OnDisconnectedEffect
<1>12. ASSUME NEW k \in Controls, OnControlClose(k) \/ ControlStale(k) PROVE Wired'
  BY <1>12, ControlLostEffect
<1>13. ASSUME NEW k \in Controls, ControlGone(k) PROVE Wired'
  BY <1>13, ControlGoneEffect
<1>14. ASSUME NEW k \in Controls, FallsSilent(k) PROVE Wired'
  BY <1>14, FallsSilentEffect
<1>15. ASSUME NEW c \in Clients, NEW n \in Slots, TakesData(c, n) PROVE Wired'
  BY <1>15, TakesDataEffect
<1>16. ASSUME NEW d \in Datas, FromData(d) PROVE Wired'
  BY <1>16, FromDataEffect
<1>17. ASSUME NEW d \in Datas, DataGone(d) PROVE Wired'
  BY <1>17, DataGoneEffect
<1>18. ASSUME NEW d \in Datas, OnHello(d) PROVE Wired'
  BY <1>18, OnHelloEffect
<1>19. ASSUME NEW d \in Datas, OnData(d) PROVE Wired'
  BY <1>19, OnDataEffect
<1>20. ASSUME NEW d \in Datas, OnDataClose(d) PROVE Wired'
  BY <1>20, OnDataCloseEffect
<1>21. ASSUME NEW d \in Datas, DataRefused(d) PROVE Wired'
  BY <1>21, DataRefusedEffect
<1>22. ASSUME NEW x \in Sockets, Breaks(x) PROVE Wired'
  BY <1>22, BreaksEffect
<1> QED
  BY <1>1, <1>2, <1>3, <1>4, <1>5, <1>6, <1>7, <1>8, <1>9, <1>10, <1>11, <1>12,
         <1>13, <1>14, <1>15, <1>16, <1>17, <1>18, <1>19, <1>20, <1>21, <1>22, Kinds
     DEF Next, ClientReads, RelayReads, RelayReadsData, DaemonReadsData, ControlReads

LEMMA NextDials ==
    ASSUME Types, Wired, Dials, Next PROVE Dials'
<1>1. ASSUME NEW c \in Clients, Connects(c) PROVE Dials'
  <2>1. UNCHANGED <<current, retry>>
    BY <1>1 DEF Connects
  <2>2. Touches({c})
    BY <1>1, ConnectsEffect
  <2> QED BY <2>1, <2>2, Kinds, DialsTouches
<1>2. ASSUME NEW c \in Clients, HelloAgain(c) \/ Says(c) PROVE Dials'
  <2>1. UNCHANGED <<current, retry>>
    BY <1>2 DEF HelloAgain, Says, AClient
  <2>2. Touches({c})
    BY <1>2, SendsEffect
  <2> QED BY <2>1, <2>2, Kinds, DialsTouches
<1>3. ASSUME NEW c \in Clients, Disconnects(c) PROVE Dials'
  <2>1. UNCHANGED <<current, retry>>
    BY <1>3 DEF Disconnects, AClient
  <2>2. Touches({c})
    BY <1>3, DisconnectsEffect
  <2> QED BY <2>1, <2>2, Kinds, DialsTouches
<1>4. ASSUME NEW c \in Clients, OnReady(c) PROVE Dials'
  <2>1. UNCHANGED <<current, retry>>
    BY <1>4 DEF OnReady, AClient
  <2>2. Touches({c})
    BY <1>4, OnReadyEffect
  <2> QED BY <2>1, <2>2, Kinds, DialsTouches
<1>5. ASSUME NEW c \in Clients, OnClientClose(c) PROVE Dials'
  <2>1. UNCHANGED <<current, retry>>
    BY <1>5 DEF OnClientClose, AClient
  <2>2. Touches({c})
    BY <1>5, OnClientCloseEffect
  <2> QED BY <2>1, <2>2, Kinds, DialsTouches
<1>6. ASSUME NEW c \in Clients, ClientGone(c) PROVE Dials'
  <2>1. UNCHANGED <<current, retry>>
    BY <1>6 DEF ClientGone, Relays
  <2>2. Touches({c})
    BY <1>6, ClientGoneEffect
  <2> QED BY <2>1, <2>2, Kinds, DialsTouches
<1>7. ASSUME NEW c \in Clients, NEW f \in {Hello, Data}, FromClient(c, f) PROVE Dials'
  <2>1. UNCHANGED <<current, retry>>
    BY <1>7 DEF FromClient, Relays
  <2>2. Touches({c})
    BY <1>7, FromClientEffect
  <2> QED BY <2>1, <2>2, Kinds, DialsTouches
<1>8. ASSUME NEW c \in Clients, Nudges(c) PROVE Dials'
  <2>1. UNCHANGED <<current, retry>>
    BY <1>8 DEF Nudges, Relays
  <2>2. Touches({})
    BY <1>8, NudgesEffect
  <2> QED BY <2>1, <2>2, Kinds, DialsTouches
<1>9. ASSUME NEW k \in Controls, ConnectControl(k) PROVE Dials'
  <2>1. current' = k /\ retry' = FALSE
    BY <1>9 DEF ConnectControl
  <2>2. line'[k].near = "open" /\ k # None
    BY <1>9, ConnectControlEffect, RelayAssumption
  <2> QED BY <2>1, <2>2 DEF Dials
<1>10. ASSUME NEW k \in Controls, OnSync(k) PROVE Dials'
  <2>1. UNCHANGED <<current, retry>>
    BY <1>10 DEF OnSync
  <2> DEFINE some == {k} \cup NewSockets(k)
  <2>2. Touches(some) /\ line'[k].near = line[k].near /\ \A d \in NewSockets(k) : d \in Datas
    BY <1>10, OnSyncEffect
  <2>3. \A j \in Controls \cap some : line[j].near = "open" => line'[j].near = "open"
    BY <2>2, Kinds
  <2> HIDE DEF some
  <2> QED BY <2>1, <2>2, <2>3, DialsTouches
<1>11. ASSUME NEW k \in Controls, NEW c \in Clients, OnDisconnected(k, c) PROVE Dials'
  <2> DEFINE d == <<c, dataOf[c]>>
  <2>1. UNCHANGED <<current, retry>>
    BY <1>11 DEF OnDisconnected
  <2>2. line'[k].near = line[k].near /\ (Touches({k}) \/ (Touches({k, d}) /\ d \in Datas))
    BY <1>11, OnDisconnectedEffect
  <2> HIDE DEF d
  <2>3. CASE Touches({k})
    BY <2>1, <2>2, <2>3, DialsTouches
  <2>4. CASE Touches({k, d}) /\ d \in Datas
    <3>1. \A j \in Controls \cap {k, d} : line[j].near = "open" => line'[j].near = "open"
      BY <2>2, <2>4, Kinds
    <3> QED BY <2>1, <2>4, <3>1, DialsTouches
  <2> QED BY <2>2, <2>3, <2>4
<1>12. ASSUME NEW k \in Controls, OnControlClose(k) \/ ControlStale(k) PROVE Dials'
  <2>1. /\ current' = IF current = k THEN None ELSE current
        /\ retry' = (retry \/ current = k)
    BY <1>12 DEF OnControlClose, ControlStale, ControlLost
  <2>2. k # None /\ (current # None => current \in Controls)
    BY RelayAssumption DEF Types
  <2>3. CASE current = k
    BY <2>1, <2>3 DEF Dials
  <2>4. CASE current # k
    <3>1. current # None => line'[current].near = line[current].near
      <4>1. Touches({k})
        BY <1>12, ControlLostEffect
      <4> QED BY <2>2, <2>4, <4>1, Kinds, UntouchedFacts
    <3>2. current' = current /\ (retry' <=> retry)
      BY <2>1, <2>4
    <3> QED BY <3>1, <3>2 DEF Dials
  <2> QED BY <2>3, <2>4
<1>13. ASSUME NEW k \in Controls, ControlGone(k) PROVE Dials'
  <2>1. UNCHANGED <<current, retry>>
    BY <1>13 DEF ControlGone, Relays
  <2>2. Touches({k}) /\ (line[k].near = "open" => line'[k].near = "open")
    BY <1>13, ControlGoneEffect
  <2> QED BY <2>1, <2>2, Kinds, DialsTouches
<1>14. ASSUME NEW k \in Controls, FallsSilent(k) PROVE Dials'
  <2>1. UNCHANGED <<current, retry>>
    BY <1>14 DEF FallsSilent
  <2>2. Touches({k}) /\ (line[k].near = "open" => line'[k].near = "open")
    BY <1>14, FallsSilentEffect
  <2> QED BY <2>1, <2>2, Kinds, DialsTouches
<1>15. ASSUME NEW c \in Clients, NEW n \in Slots, TakesData(c, n) PROVE Dials'
  <2>1. UNCHANGED <<current, retry>>
    BY <1>15 DEF TakesData
  <2>2. Touches({<<c, n>>})
    BY <1>15, TakesDataEffect
  <2> QED BY <2>1, <2>2, Kinds, DialsTouches
<1>16. ASSUME NEW d \in Datas, FromData(d) PROVE Dials'
  <2>1. UNCHANGED <<current, retry>> /\ d \notin Controls /\ d[1] \notin Controls
    BY <1>16, Kinds DEF FromData, Relays
  <2>2. Touches({d, d[1]})
    BY <1>16, FromDataEffect
  <2> QED BY <2>1, <2>2, DialsTouches
<1>17. ASSUME NEW d \in Datas, DataGone(d) PROVE Dials'
  <2>1. UNCHANGED <<current, retry>>
    BY <1>17 DEF DataGone, Relays
  <2>2. Touches({d})
    BY <1>17, DataGoneEffect
  <2> QED BY <2>1, <2>2, Kinds, DialsTouches
<1>18. ASSUME NEW d \in Datas, OnHello(d) PROVE Dials'
  <2>1. UNCHANGED <<current, retry>>
    BY <1>18 DEF OnHello, Daemons
  <2>2. Touches({d})
    BY <1>18, OnHelloEffect
  <2> QED BY <2>1, <2>2, Kinds, DialsTouches
<1>19. ASSUME NEW d \in Datas, OnData(d) PROVE Dials'
  <2>1. UNCHANGED <<current, retry>>
    BY <1>19 DEF OnData, Daemons
  <2>2. Touches({d})
    BY <1>19, OnDataEffect
  <2> QED BY <2>1, <2>2, Kinds, DialsTouches
<1>20. ASSUME NEW d \in Datas, OnDataClose(d) PROVE Dials'
  <2>1. UNCHANGED <<current, retry>>
    BY <1>20 DEF OnDataClose, Daemons
  <2>2. Touches({d})
    BY <1>20, OnDataCloseEffect
  <2> QED BY <2>1, <2>2, Kinds, DialsTouches
<1>21. ASSUME NEW d \in Datas, DataRefused(d) PROVE Dials'
  <2>1. UNCHANGED <<current, retry>>
    BY <1>21 DEF DataRefused
  <2>2. Touches({d})
    BY <1>21, DataRefusedEffect
  <2> QED BY <2>1, <2>2, Kinds, DialsTouches
<1>22. ASSUME NEW x \in Sockets, Breaks(x) PROVE Dials'
  <2>1. UNCHANGED <<current, retry>>
    BY <1>22 DEF Breaks
  <2>2. Touches({x}) /\ line'[x].near = line[x].near
    BY <1>22, BreaksEffect
  <2> QED BY <2>1, <2>2, Kinds, DialsTouches
<1> QED
  BY <1>1, <1>2, <1>3, <1>4, <1>5, <1>6, <1>7, <1>8, <1>9, <1>10, <1>11, <1>12,
         <1>13, <1>14, <1>15, <1>16, <1>17, <1>18, <1>19, <1>20, <1>21, <1>22, Kinds
     DEF Next, ClientReads, RelayReads, RelayReadsData, DaemonReadsData, ControlReads

\* The entry of a data socket that is gone is deleted.
LEMMA HeldForgets ==
    ASSUME Types, Held, NEW d \in Datas, Touches({d}), line'[d].near \in {"free", "closed"},
           dataOf' = Forgotten(d),
           \A e \in Datas : channel'[e] = IF e = d THEN "none" ELSE channel[e]
    PROVE  Held'
<1>1. \A e \in Datas \ {d} : line'[e].near = line[e].near
  BY Kinds, UntouchedFacts
<1>2. d[1] \in Clients /\ d[2] \in Slots /\ d = <<d[1], d[2]>>
  BY Kinds
<1>3. \A b \in Clients : dataOf'[b] = IF b = d[1] /\ dataOf[b] = d[2] THEN 0 ELSE dataOf[b]
  BY <1>2 DEF Forgotten, Types
<1>4. ASSUME NEW e \in Datas, line'[e].near \in {"opening", "open"} PROVE dataOf'[e[1]] = e[2]
  <2>1. e # d /\ e = <<e[1], e[2]>> /\ e[1] \in Clients
    BY <1>4, Kinds
  <2>2. dataOf[e[1]] = e[2]
    BY <1>1, <1>4, <2>1 DEF Held
  <2>3. ~(e[1] = d[1] /\ e[2] = d[2])
    BY <1>2, <2>1
  <2> QED BY <1>3, <2>1, <2>2, <2>3
<1>5. ASSUME NEW b \in Clients, dataOf'[b] # 0
      PROVE  line'[<<b, dataOf'[b]>>].near \in {"opening", "open", "closing"}
  <2>1. dataOf'[b] = dataOf[b] /\ ~(b = d[1] /\ dataOf[b] = d[2]) /\ dataOf[b] \in Slots
    BY <1>3, <1>5 DEF Types
  <2>2. <<b, dataOf[b]>> \in Datas /\ <<b, dataOf[b]>> # d
    BY <1>2, <2>1, Kinds
  <2>3. line[<<b, dataOf[b]>>].near \in {"opening", "open", "closing"}
    BY <1>5, <2>1 DEF Held
  <2> QED BY <1>1, <2>1, <2>2, <2>3
<1>6. ASSUME NEW e \in Datas, channel'[e] # "none" PROVE line'[e].near \in {"open", "closing"}
  <2>1. e # d /\ channel[e] # "none"
    BY <1>6
  <2> QED BY <1>1, <2>1 DEF Held
<1> QED BY <1>4, <1>5, <1>6 DEF Held

LEMMA NextHeld ==
    ASSUME Types, Wired, Held, Next PROVE Held'
<1>1. ASSUME NEW c \in Clients, Connects(c) PROVE Held'
  <2>1. UNCHANGED <<dataOf, channel>>
    BY <1>1 DEF Connects
  <2>2. Touches({c})
    BY <1>1, ConnectsEffect
  <2> QED BY <2>1, <2>2, Kinds, HeldTouches
<1>2. ASSUME NEW c \in Clients, HelloAgain(c) \/ Says(c) PROVE Held'
  <2>1. UNCHANGED <<dataOf, channel>>
    BY <1>2 DEF HelloAgain, Says, AClient
  <2>2. Touches({c})
    BY <1>2, SendsEffect
  <2> QED BY <2>1, <2>2, Kinds, HeldTouches
<1>3. ASSUME NEW c \in Clients, Disconnects(c) PROVE Held'
  <2>1. UNCHANGED <<dataOf, channel>>
    BY <1>3 DEF Disconnects, AClient
  <2>2. Touches({c})
    BY <1>3, DisconnectsEffect
  <2> QED BY <2>1, <2>2, Kinds, HeldTouches
<1>4. ASSUME NEW c \in Clients, OnReady(c) PROVE Held'
  <2>1. UNCHANGED <<dataOf, channel>>
    BY <1>4 DEF OnReady, AClient
  <2>2. Touches({c})
    BY <1>4, OnReadyEffect
  <2> QED BY <2>1, <2>2, Kinds, HeldTouches
<1>5. ASSUME NEW c \in Clients, OnClientClose(c) PROVE Held'
  <2>1. UNCHANGED <<dataOf, channel>>
    BY <1>5 DEF OnClientClose, AClient
  <2>2. Touches({c})
    BY <1>5, OnClientCloseEffect
  <2> QED BY <2>1, <2>2, Kinds, HeldTouches
<1>6. ASSUME NEW c \in Clients, ClientGone(c) PROVE Held'
  <2>1. UNCHANGED <<dataOf, channel>>
    BY <1>6 DEF ClientGone, Relays
  <2>2. Touches({c})
    BY <1>6, ClientGoneEffect
  <2> QED BY <2>1, <2>2, Kinds, HeldTouches
<1>7. ASSUME NEW c \in Clients, NEW f \in {Hello, Data}, FromClient(c, f) PROVE Held'
  <2>1. UNCHANGED <<dataOf, channel>>
    BY <1>7 DEF FromClient, Relays
  <2>2. Touches({c})
    BY <1>7, FromClientEffect
  <2> QED BY <2>1, <2>2, Kinds, HeldTouches
<1>8. ASSUME NEW c \in Clients, Nudges(c) PROVE Held'
  <2>1. UNCHANGED <<dataOf, channel>>
    BY <1>8 DEF Nudges, Relays
  <2>2. Touches({})
    BY <1>8, NudgesEffect
  <2> QED BY <2>1, <2>2, Kinds, HeldTouches
<1>9. ASSUME NEW k \in Controls, ConnectControl(k) PROVE Held'
  <2>1. UNCHANGED <<dataOf, channel>>
    BY <1>9 DEF ConnectControl
  <2>2. Touches({k})
    BY <1>9, ConnectControlEffect
  <2> QED BY <2>1, <2>2, Kinds, HeldTouches
<1>10. ASSUME NEW k \in Controls, OnSync(k) PROVE Held'
  <2> DEFINE some == NewSockets(k)
  <2>1. /\ Touches({k} \cup some) /\ k \notin Datas
        /\ \A d \in some : d \in Datas /\ line'[d].near = "opening" /\ line[d].near = "free"
    BY <1>10, Kinds, OnSyncEffect
  <2>2. /\ \A c \in NewClients(k) : c \in Clients /\ dataOf[c] = 0 /\ FreeSlot(c) \in Slots
        /\ dataOf' = [c \in Clients |-> IF c \in NewClients(k) THEN FreeSlot(c) ELSE dataOf[c]]
        /\ UNCHANGED channel
    BY <1>10, NewFacts DEF OnSync
  <2>3. \A d \in some : d[1] \in NewClients(k) /\ d[2] = FreeSlot(d[1])
    BY DEF NewSockets
  <2>4. \A c \in NewClients(k) : <<c, FreeSlot(c)>> \in some
    BY DEF NewSockets
  <2> HIDE DEF some
  <2>5. \A d \in Datas \ some : line'[d].near = line[d].near
    BY <2>1, Kinds, UntouchedFacts
  <2>6. ASSUME NEW d \in Datas, line'[d].near \in {"opening", "open"} PROVE dataOf'[d[1]] = d[2]
    <3>1. d[1] \in Clients /\ d[2] \in Slots
      BY Kinds
    <3>2. CASE d \in some
      BY <2>2, <2>3, <3>1, <3>2
    <3>3. CASE d \notin some
      <4>1. dataOf[d[1]] = d[2]
        BY <2>5, <2>6, <3>3 DEF Held
      <4>2. dataOf[d[1]] # 0
        BY <3>1, <4>1 DEF Slots
      <4> QED BY <2>2, <3>1, <4>1, <4>2
    <3> QED BY <3>2, <3>3
  <2>7. ASSUME NEW c \in Clients, dataOf'[c] # 0
        PROVE  line'[<<c, dataOf'[c]>>].near \in {"opening", "open", "closing"}
    <3>1. CASE c \in NewClients(k)
      <4>1. dataOf'[c] = FreeSlot(c) /\ <<c, FreeSlot(c)>> \in some
        BY <2>2, <2>4, <3>1
      <4> QED BY <2>1, <4>1
    <3>2. CASE c \notin NewClients(k)
      <4>1. dataOf'[c] = dataOf[c] /\ dataOf[c] \in Slots
        BY <2>2, <2>7, <3>2 DEF Types
      <4>2. <<c, dataOf[c]>> \in Datas /\ <<c, dataOf[c]>> \notin some
        BY <2>3, <3>2, <4>1, Kinds
      <4>3. line[<<c, dataOf[c]>>].near \in {"opening", "open", "closing"}
        BY <2>7, <4>1 DEF Held
      <4> QED BY <2>5, <4>1, <4>2, <4>3
    <3> QED BY <3>1, <3>2
  <2>8. ASSUME NEW d \in Datas, channel'[d] # "none" PROVE line'[d].near \in {"open", "closing"}
    <3>1. line[d].near \in {"open", "closing"}
      BY <2>2, <2>8 DEF Held
    <3> QED BY <2>1, <2>5, <3>1
  <2> QED BY <2>6, <2>7, <2>8 DEF Held
<1>11. ASSUME NEW k \in Controls, NEW c \in Clients, OnDisconnected(k, c) PROVE Held'
  <2> DEFINE d == <<c, dataOf[c]>>
  <2>1. UNCHANGED channel
    BY <1>11 DEF OnDisconnected
  <2>2. k \notin Datas
    BY Kinds
  <2>3. \/ Touches({k}) /\ dataOf' = dataOf
        \/ /\ Touches({k, d}) /\ d \in Datas /\ dataOf' = [dataOf EXCEPT ![c] = 0]
           /\ \/ line'[d] = line[d] /\ line[d].near \notin {"opening", "open"}
              \/ line'[d].near = "free" /\ line[d].near = "opening"
              \/ line[d].near = "open" /\ line'[d].near = "closing"
    BY <1>11, OnDisconnectedEffect, NoLineSound
  <2>4. CASE Touches({k}) /\ dataOf' = dataOf
    BY <2>1, <2>2, <2>4, HeldTouches
  <2>5. CASE /\ Touches({k, d}) /\ d \in Datas /\ dataOf' = [dataOf EXCEPT ![c] = 0]
             /\ \/ line'[d] = line[d] /\ line[d].near \notin {"opening", "open"}
                \/ line'[d].near = "free" /\ line[d].near = "opening"
                \/ line[d].near = "open" /\ line'[d].near = "closing"
    <3>1. \A e \in Datas \ {d} : line'[e].near = line[e].near
      BY <2>2, <2>5, Kinds, UntouchedFacts
    <3>2. line'[d].near \notin {"opening", "open"}
      BY <2>5
    <3>3. ASSUME NEW e \in Datas, line'[e].near \in {"opening", "open"} PROVE dataOf'[e[1]] = e[2]
      <4>1. e # d /\ e = <<e[1], e[2]>> /\ e[1] \in Clients
        BY <3>2, <3>3, Kinds
      <4>2. dataOf[e[1]] = e[2]
        BY <3>1, <3>3, <4>1 DEF Held
      <4>3. e[1] # c
        BY <4>1, <4>2
      <4> QED BY <2>5, <4>1, <4>2, <4>3 DEF Types
    <3>4. ASSUME NEW b \in Clients, dataOf'[b] # 0
          PROVE  line'[<<b, dataOf'[b]>>].near \in {"opening", "open", "closing"}
      <4>1. b # c /\ dataOf'[b] = dataOf[b] /\ dataOf[b] \in Slots
        BY <2>5, <3>4 DEF Types
      <4>2. <<b, dataOf[b]>> \in Datas /\ <<b, dataOf[b]>> # d
        BY <4>1, Kinds
      <4>3. line[<<b, dataOf[b]>>].near \in {"opening", "open", "closing"}
        BY <3>4, <4>1 DEF Held
      <4> QED BY <3>1, <4>1, <4>2, <4>3
    <3>5. ASSUME NEW e \in Datas, channel'[e] # "none" PROVE line'[e].near \in {"open", "closing"}
      <4>1. line[e].near \in {"open", "closing"}
        BY <2>1, <3>5 DEF Held
      <4> QED BY <2>5, <3>1, <4>1
    <3> QED BY <3>3, <3>4, <3>5 DEF Held
  <2> QED BY <2>3, <2>4, <2>5
<1>12. ASSUME NEW k \in Controls, OnControlClose(k) \/ ControlStale(k) PROVE Held'
  <2>1. UNCHANGED <<dataOf, channel>>
    BY <1>12 DEF OnControlClose, ControlStale, ControlLost, Daemons
  <2>2. Touches({k})
    BY <1>12, ControlLostEffect
  <2> QED BY <2>1, <2>2, Kinds, HeldTouches
<1>13. ASSUME NEW k \in Controls, ControlGone(k) PROVE Held'
  <2>1. UNCHANGED <<dataOf, channel>>
    BY <1>13 DEF ControlGone, Relays
  <2>2. Touches({k})
    BY <1>13, ControlGoneEffect
  <2> QED BY <2>1, <2>2, Kinds, HeldTouches
<1>14. ASSUME NEW k \in Controls, FallsSilent(k) PROVE Held'
  <2>1. UNCHANGED <<dataOf, channel>>
    BY <1>14 DEF FallsSilent
  <2>2. Touches({k})
    BY <1>14, FallsSilentEffect
  <2> QED BY <2>1, <2>2, Kinds, HeldTouches
<1>15. ASSUME NEW c \in Clients, NEW n \in Slots, TakesData(c, n) PROVE Held'
  <2>1. \A e \in Datas \ {<<c, n>>} : line'[e].near = line[e].near
    <3>1. Touches({<<c, n>>})
      BY <1>15, TakesDataEffect
    <3> QED BY <3>1, Kinds, UntouchedFacts
  <2>2. line[<<c, n>>].near = "opening" /\ line'[<<c, n>>].near = "open"
    BY <1>15, TakesDataEffect
  <2>3. UNCHANGED dataOf /\ \A e \in Datas : channel'[e] = IF e = <<c, n>> THEN "waits" ELSE channel[e]
    BY <1>15 DEF Types, TakesData
  <2>4. \A e \in Datas : line'[e].near \in {"opening", "open"} => dataOf'[e[1]] = e[2]
    BY <2>1, <2>2, <2>3 DEF Held
  <2>5. ASSUME NEW b \in Clients, dataOf'[b] # 0
        PROVE  line'[<<b, dataOf'[b]>>].near \in {"opening", "open", "closing"}
    <3>1. dataOf'[b] = dataOf[b] /\ dataOf[b] \in Slots
      BY <2>3, <2>5 DEF Types
    <3>2. <<b, dataOf[b]>> \in Datas /\ line[<<b, dataOf[b]>>].near \in {"opening", "open", "closing"}
      BY <2>5, <3>1, Kinds DEF Held
    <3> QED BY <2>1, <2>2, <3>1, <3>2
  <2>6. ASSUME NEW e \in Datas, channel'[e] # "none" PROVE line'[e].near \in {"open", "closing"}
    <3>1. e = <<c, n>> \/ line[e].near \in {"open", "closing"}
      BY <2>3, <2>6 DEF Held
    <3> QED BY <2>1, <2>2, <3>1
  <2> QED BY <2>4, <2>5, <2>6 DEF Held
<1>16. ASSUME NEW d \in Datas, FromData(d) PROVE Held'
  <2>1. UNCHANGED <<dataOf, channel>>
    BY <1>16 DEF FromData, Relays
  <2>2. Touches({d, d[1]}) /\ line'[d].near = line[d].near
    BY <1>16, FromDataEffect
  <2>3. d \notin Clients /\ d[1] \in Clients /\ d[1] \notin Datas
    BY Kinds
  <2> QED BY <2>1, <2>2, <2>3, HeldTouches
<1>17. ASSUME NEW d \in Datas, DataGone(d) PROVE Held'
  <2>1. UNCHANGED <<dataOf, channel>>
    BY <1>17 DEF DataGone, Relays
  <2>2. /\ Touches({d})
        /\ line'[d].near = line[d].near \/ (line[d].near = "closed" /\ line'[d].near = "free")
    BY <1>17, DataGoneEffect
  <2> QED BY <2>1, <2>2, Kinds, HeldTouches
<1>18. ASSUME NEW d \in Datas, OnHello(d) PROVE Held'
  <2>1. \A e \in Datas \ {d} : line'[e].near = line[e].near
    <3>1. Touches({d})
      BY <1>18, OnHelloEffect
    <3> QED BY <3>1, Kinds, UntouchedFacts
  <2>2. line'[d].near = line[d].near
    BY <1>18, OnHelloEffect
  <2>3. UNCHANGED dataOf /\ \A e \in Datas : channel'[e] = channel[e] \/ (e = d /\ line[d].near = "open")
    BY <1>18 DEF Types, OnHello
  <2>4. \A e \in Datas : line'[e].near \in {"opening", "open"} => dataOf'[e[1]] = e[2]
    BY <2>1, <2>2, <2>3 DEF Held
  <2>5. ASSUME NEW b \in Clients, dataOf'[b] # 0
        PROVE  line'[<<b, dataOf'[b]>>].near \in {"opening", "open", "closing"}
    <3>1. dataOf'[b] = dataOf[b] /\ dataOf[b] \in Slots
      BY <2>3, <2>5 DEF Types
    <3>2. <<b, dataOf[b]>> \in Datas /\ line[<<b, dataOf[b]>>].near \in {"opening", "open", "closing"}
      BY <2>5, <3>1, Kinds DEF Held
    <3> QED BY <2>1, <2>2, <3>1, <3>2
  <2>6. ASSUME NEW e \in Datas, channel'[e] # "none" PROVE line'[e].near \in {"open", "closing"}
    <3>1. line[e].near \in {"open", "closing"}
      BY <2>3, <2>6 DEF Held
    <3> QED BY <2>1, <2>2, <3>1
  <2> QED BY <2>4, <2>5, <2>6 DEF Held
<1>19. ASSUME NEW d \in Datas, OnData(d) PROVE Held'
  <2>1. \A e \in Datas \ {d} : line'[e].near = line[e].near
    <3>1. Touches({d})
      BY <1>19, OnDataEffect
    <3> QED BY <3>1, Kinds, UntouchedFacts
  <2>2. line'[d].near = line[d].near \/ (line[d].near = "open" /\ line'[d].near = "closing")
    BY <1>19, OnDataEffect
  <2>3. UNCHANGED dataOf /\ \A e \in Datas : channel'[e] = channel[e] \/ channel'[e] = "none"
    BY <1>19 DEF Types, OnData
  <2>4. \A e \in Datas : line'[e].near \in {"opening", "open"} => dataOf'[e[1]] = e[2]
    BY <2>1, <2>2, <2>3 DEF Held
  <2>5. ASSUME NEW b \in Clients, dataOf'[b] # 0
        PROVE  line'[<<b, dataOf'[b]>>].near \in {"opening", "open", "closing"}
    <3>1. dataOf'[b] = dataOf[b] /\ dataOf[b] \in Slots
      BY <2>3, <2>5 DEF Types
    <3>2. <<b, dataOf[b]>> \in Datas /\ line[<<b, dataOf[b]>>].near \in {"opening", "open", "closing"}
      BY <2>5, <3>1, Kinds DEF Held
    <3> QED BY <2>1, <2>2, <3>1, <3>2
  <2>6. ASSUME NEW e \in Datas, channel'[e] # "none" PROVE line'[e].near \in {"open", "closing"}
    <3>1. line[e].near \in {"open", "closing"}
      BY <2>3, <2>6 DEF Held
    <3> QED BY <2>1, <2>2, <3>1
  <2> QED BY <2>4, <2>5, <2>6 DEF Held
<1>20. ASSUME NEW d \in Datas, OnDataClose(d) PROVE Held'
  <2>1. Touches({d}) /\ line'[d].near \in {"free", "closed"}
    BY <1>20, OnDataCloseEffect
  <2>2. dataOf' = Forgotten(d) /\ \A e \in Datas : channel'[e] = IF e = d THEN "none" ELSE channel[e]
    BY <1>20 DEF OnDataClose, Types
  <2> QED BY <2>1, <2>2, HeldForgets
<1>21. ASSUME NEW d \in Datas, DataRefused(d) PROVE Held'
  <2>1. Touches({d}) /\ line'[d].near = "free" /\ line[d].near = "opening"
    BY <1>21, DataRefusedEffect, NoLineSound
  <2>2. channel[d] = "none"
    BY <2>1 DEF Held
  <2>3. dataOf' = Forgotten(d) /\ \A e \in Datas : channel'[e] = IF e = d THEN "none" ELSE channel[e]
    BY <1>21, <2>2 DEF DataRefused
  <2> QED BY <2>1, <2>3, HeldForgets
<1>22. ASSUME NEW x \in Sockets, Breaks(x) PROVE Held'
  <2>1. UNCHANGED <<dataOf, channel>>
    BY <1>22 DEF Breaks
  <2>2. Touches({x}) /\ line'[x].near = line[x].near
    BY <1>22, BreaksEffect
  <2> QED BY <2>1, <2>2, Kinds, HeldTouches
<1> QED
  BY <1>1, <1>2, <1>3, <1>4, <1>5, <1>6, <1>7, <1>8, <1>9, <1>10, <1>11, <1>12,
         <1>13, <1>14, <1>15, <1>16, <1>17, <1>18, <1>19, <1>20, <1>21, <1>22, Kinds
     DEF Next, ClientReads, RelayReads, RelayReadsData, DaemonReadsData, ControlReads

LEMMA NextFreed ==
    ASSUME Types, Wired, Freed, Next PROVE Freed'
<1>1. ASSUME NEW c \in Clients, Connects(c) PROVE Freed'
  <2>1. UNCHANGED pending
    BY <1>1 DEF Connects
  <2>2. Touches({c}) /\ line'[c].far = "open"
    BY <1>1, ConnectsEffect
  <2> QED BY <2>1, <2>2, Kinds, FreedTouches
<1>2. ASSUME NEW c \in Clients, HelloAgain(c) \/ Says(c) PROVE Freed'
  <2>1. UNCHANGED pending
    BY <1>2 DEF HelloAgain, Says, AClient
  <2>2. Touches({c}) /\ line'[c].far = line[c].far
    BY <1>2, SendsEffect
  <2> QED BY <2>1, <2>2, Kinds, FreedTouches
<1>3. ASSUME NEW c \in Clients, Disconnects(c) PROVE Freed'
  <2>1. UNCHANGED pending
    BY <1>3 DEF Disconnects, AClient
  <2>2. Touches({c}) /\ line'[c].far = line[c].far
    BY <1>3, DisconnectsEffect
  <2> QED BY <2>1, <2>2, Kinds, FreedTouches
<1>4. ASSUME NEW c \in Clients, OnReady(c) PROVE Freed'
  <2>1. UNCHANGED pending
    BY <1>4 DEF OnReady, AClient
  <2>2. Touches({c}) /\ line'[c].far = line[c].far
    BY <1>4, OnReadyEffect
  <2> QED BY <2>1, <2>2, Kinds, FreedTouches
<1>5. ASSUME NEW c \in Clients, OnClientClose(c) PROVE Freed'
  <2>1. UNCHANGED pending
    BY <1>5 DEF OnClientClose, AClient
  <2>2. /\ Touches({c})
        /\ line[c].far \in {"open", "closing"} => line'[c].far = line[c].far
    BY <1>5, OnClientCloseEffect
  <2> QED BY <2>1, <2>2, Kinds, FreedTouches
<1>6. ASSUME NEW c \in Clients, ClientGone(c) PROVE Freed'
  <2>1. \A b \in Clients : pending'[b] = IF b = c THEN <<>> ELSE pending[b]
    BY <1>6 DEF ClientGone, Relays, Types
  <2>2. Touches({c})
    BY <1>6, ClientGoneEffect
  <2> QED BY <2>1, <2>2, Kinds, FreedTouches
<1>7. ASSUME NEW c \in Clients, NEW f \in {Hello, Data}, FromClient(c, f) PROVE Freed'
  <2>1. \A b \in Clients : b # c => pending'[b] = pending[b]
    BY <1>7 DEF FromClient, Relays, Types
  <2>2. Touches({c}) /\ line'[c].far = line[c].far /\ line[c].far \in {"open", "closing"}
    BY <1>7, FromClientEffect
  <2> QED BY <2>1, <2>2, Kinds, FreedTouches
<1>8. ASSUME NEW c \in Clients, Nudges(c) PROVE Freed'
  <2>1. UNCHANGED pending
    BY <1>8 DEF Nudges, Relays
  <2>2. Touches({})
    BY <1>8, NudgesEffect
  <2> QED BY <2>1, <2>2, Kinds, FreedTouches
<1>9. ASSUME NEW k \in Controls, ConnectControl(k) PROVE Freed'
  <2>1. UNCHANGED pending
    BY <1>9 DEF ConnectControl
  <2>2. Touches({k})
    BY <1>9, ConnectControlEffect
  <2> QED BY <2>1, <2>2, Kinds, FreedTouches
<1>10. ASSUME NEW k \in Controls, OnSync(k) PROVE Freed'
  <2>1. UNCHANGED pending
    BY <1>10 DEF OnSync, Daemons
  <2>2. Touches({k} \cup NewSockets(k)) /\ (\A d \in NewSockets(k) : d \in Datas)
    BY <1>10, OnSyncEffect
  <2>3. ({k} \cup NewSockets(k)) \cap Clients = {}
    BY <2>2, Kinds
  <2> QED BY <2>1, <2>2, <2>3, FreedTouches
<1>11. ASSUME NEW k \in Controls, NEW c \in Clients, OnDisconnected(k, c) PROVE Freed'
  <2>1. UNCHANGED pending
    BY <1>11 DEF OnDisconnected, Daemons
  <2>2. \/ Touches({k})
        \/ Touches({k, <<c, dataOf[c]>>}) /\ <<c, dataOf[c]>> \in Datas
    BY <1>11, OnDisconnectedEffect
  <2>3. CASE Touches({k})
    BY <2>1, <2>3, Kinds, FreedTouches
  <2>4. CASE Touches({k, <<c, dataOf[c]>>}) /\ <<c, dataOf[c]>> \in Datas
    BY <2>1, <2>4, Kinds, FreedTouches
  <2> QED BY <2>2, <2>3, <2>4
<1>12. ASSUME NEW k \in Controls, OnControlClose(k) \/ ControlStale(k) PROVE Freed'
  <2>1. UNCHANGED pending
    BY <1>12 DEF OnControlClose, ControlStale, ControlLost, Daemons
  <2>2. Touches({k})
    BY <1>12, ControlLostEffect
  <2> QED BY <2>1, <2>2, Kinds, FreedTouches
<1>13. ASSUME NEW k \in Controls, ControlGone(k) PROVE Freed'
  <2>1. UNCHANGED pending
    BY <1>13 DEF ControlGone, Relays
  <2>2. Touches({k})
    BY <1>13, ControlGoneEffect
  <2> QED BY <2>1, <2>2, Kinds, FreedTouches
<1>14. ASSUME NEW k \in Controls, FallsSilent(k) PROVE Freed'
  <2>1. UNCHANGED pending
    BY <1>14 DEF FallsSilent
  <2>2. Touches({k})
    BY <1>14, FallsSilentEffect
  <2> QED BY <2>1, <2>2, Kinds, FreedTouches
<1>15. ASSUME NEW c \in Clients, NEW n \in Slots, TakesData(c, n) PROVE Freed'
  <2>1. \A b \in Clients : pending'[b] = IF b = c THEN <<>> ELSE pending[b]
    BY <1>15 DEF TakesData, Types
  <2>2. Touches({<<c, n>>})
    BY <1>15, TakesDataEffect
  <2> QED BY <2>1, <2>2, Kinds, FreedTouches
<1>16. ASSUME NEW d \in Datas, FromData(d) PROVE Freed'
  <2>1. UNCHANGED pending
    BY <1>16 DEF FromData, Relays
  <2>2. Touches({d, d[1]}) /\ line'[d[1]].far = line[d[1]].far
    BY <1>16, FromDataEffect
  <2>3. d \notin Clients /\ d[1] \in Clients
    BY Kinds
  <2> QED BY <2>1, <2>2, <2>3, FreedTouches
<1>17. ASSUME NEW d \in Datas, DataGone(d) PROVE Freed'
  <2>1. UNCHANGED pending
    BY <1>17 DEF DataGone, Relays
  <2>2. Touches({d})
    BY <1>17, DataGoneEffect
  <2> QED BY <2>1, <2>2, Kinds, FreedTouches
<1>18. ASSUME NEW d \in Datas, OnHello(d) PROVE Freed'
  <2>1. UNCHANGED pending
    BY <1>18 DEF OnHello, Daemons
  <2>2. Touches({d})
    BY <1>18, OnHelloEffect
  <2> QED BY <2>1, <2>2, Kinds, FreedTouches
<1>19. ASSUME NEW d \in Datas, OnData(d) PROVE Freed'
  <2>1. UNCHANGED pending
    BY <1>19 DEF OnData, Daemons
  <2>2. Touches({d})
    BY <1>19, OnDataEffect
  <2> QED BY <2>1, <2>2, Kinds, FreedTouches
<1>20. ASSUME NEW d \in Datas, OnDataClose(d) PROVE Freed'
  <2>1. UNCHANGED pending
    BY <1>20 DEF OnDataClose, Daemons
  <2>2. Touches({d})
    BY <1>20, OnDataCloseEffect
  <2> QED BY <2>1, <2>2, Kinds, FreedTouches
<1>21. ASSUME NEW d \in Datas, DataRefused(d) PROVE Freed'
  <2>1. UNCHANGED pending
    BY <1>21 DEF DataRefused
  <2>2. Touches({d})
    BY <1>21, DataRefusedEffect
  <2> QED BY <2>1, <2>2, Kinds, FreedTouches
<1>22. ASSUME NEW x \in Sockets, Breaks(x) PROVE Freed'
  <2>1. UNCHANGED pending
    BY <1>22 DEF Breaks
  <2>2. Touches({x}) /\ line'[x].far = line[x].far
    BY <1>22, BreaksEffect
  <2> QED BY <2>1, <2>2, Kinds, FreedTouches
<1> QED
  BY <1>1, <1>2, <1>3, <1>4, <1>5, <1>6, <1>7, <1>8, <1>9, <1>10, <1>11, <1>12,
         <1>13, <1>14, <1>15, <1>16, <1>17, <1>18, <1>19, <1>20, <1>21, <1>22, Kinds
     DEF Next, ClientReads, RelayReads, RelayReadsData, DaemonReadsData, ControlReads

\* The daemon that closes a data socket which the relay lists has told it.
LEMMA AnsweringClose ==
    ASSUME Wired', NEW d \in Datas, line'[d].near # "open", line'[d].far \in {"open", "closing"}
    PROVE  Answering(d)'
<1>1. d \in Sockets /\ d \notin Controls
  BY Kinds
<1>2. Sound(line'[d]) /\ ~line'[d].silent
  BY <1>1 DEF Wired
<1>3. Carries(line'[d].up, "close")
  BY <1>2 DEF Sound, Told
<1> QED BY <1>3 DEF Answering, Listed

LEMMA NextAnswered ==
    ASSUME Types, Wired, Answered, Next PROVE Answered'
<1>1. ASSUME NEW c \in Clients, Connects(c) PROVE Answered'
  <2>1. /\ \A d \in Datas : channel'[d] = channel[d]
        /\ \A b \in Clients : b # c => shake'[b] = shake[b]
    BY <1>1 DEF Connects, Types
  <2>2. Touches({c}) /\ ~Carries(line'[c].down, "ready")
    BY <1>1, ConnectsEffect
  <2>3. shake'[c] # "open" /\ ~Carries(line'[c].down, "ready")
    BY <1>1, <2>2 DEF Types, Connects
  <2> QED BY <2>1, <2>2, <2>3, Kinds, AnsweredTouches
<1>2. ASSUME NEW c \in Clients, HelloAgain(c) \/ Says(c) PROVE Answered'
  <2>1. /\ \A d \in Datas : channel'[d] = channel[d]
        /\ \A b \in Clients : shake'[b] = shake[b]
    BY <1>2 DEF HelloAgain, Says, AClient
  <2>2. /\ Touches({c}) /\ line'[c].near = line[c].near /\ line'[c].down = line[c].down
    BY <1>2, SendsEffect
  <2>3. \/ Doomed(c)' \/ (shake'[c] # "open" /\ ~Carries(line'[c].down, "ready"))
        \/ ~Doomed(c) /\ (shake[c] = "open" \/ Carries(line[c].down, "ready"))
    BY <2>1, <2>2 DEF Doomed
  <2> QED BY <2>1, <2>2, <2>3, Kinds, AnsweredTouches
<1>3. ASSUME NEW c \in Clients, Disconnects(c) PROVE Answered'
  <2>1. /\ \A d \in Datas : channel'[d] = channel[d]
        /\ \A b \in Clients : b # c => shake'[b] = shake[b]
    BY <1>3 DEF Disconnects, AClient, Types
  <2>2. Touches({c}) /\ line'[c].near = "closed"
    BY <1>3, DisconnectsEffect
  <2>3. Doomed(c)'
    BY <2>2 DEF Doomed
  <2> QED BY <2>1, <2>2, <2>3, Kinds, AnsweredTouches
<1>4. ASSUME NEW c \in Clients, OnReady(c) PROVE Answered'
  <2>1. /\ \A d \in Datas : channel'[d] = channel[d]
        /\ \A b \in Clients : b # c => shake'[b] = shake[b]
    BY <1>4 DEF OnReady, AClient, Types
  <2>2. /\ Touches({c}) /\ line'[c].near = line[c].near /\ Carries(line[c].down, "ready")
        /\ Carries(line[c].down, "close") => Carries(line'[c].down, "close")
    BY <1>4, OnReadyEffect
  <2>3. Doomed(c)' \/ ~Doomed(c)
    BY <2>2 DEF Doomed
  <2> QED BY <2>1, <2>2, <2>3, Kinds, AnsweredTouches
<1>5. ASSUME NEW c \in Clients, OnClientClose(c) PROVE Answered'
  <2>1. /\ \A d \in Datas : channel'[d] = channel[d]
        /\ \A b \in Clients : b # c => shake'[b] = shake[b]
    BY <1>5 DEF OnClientClose, AClient, Types
  <2>2. Touches({c}) /\ line'[c].near = "closed"
    BY <1>5, OnClientCloseEffect
  <2>3. Doomed(c)'
    BY <2>2 DEF Doomed
  <2> QED BY <2>1, <2>2, <2>3, Kinds, AnsweredTouches
<1>6. ASSUME NEW c \in Clients, ClientGone(c) PROVE Answered'
  <2>1. /\ \A d \in Datas : channel'[d] = channel[d]
        /\ \A b \in Clients : b # c => shake'[b] = shake[b]
    BY <1>6 DEF ClientGone, Relays, Types
  <2>2. /\ Touches({c})
        /\ line'[c].near # "open" \/ Carries(line'[c].down, "close")
    BY <1>6, ClientGoneEffect
  <2>3. Doomed(c)'
    BY <2>2 DEF Doomed
  <2> QED BY <2>1, <2>2, <2>3, Kinds, AnsweredTouches
<1>7. ASSUME NEW c \in Clients, NEW f \in {Hello, Data}, FromClient(c, f) PROVE Answered'
  <2>1. /\ \A d \in Datas : channel'[d] = channel[d]
        /\ \A b \in Clients : shake'[b] = shake[b]
    BY <1>7 DEF FromClient, Relays
  <2>2. /\ Touches({c}) /\ line'[c].near = line[c].near /\ line'[c].down = line[c].down
    BY <1>7, FromClientEffect
  <2>3. \/ Doomed(c)' \/ (shake'[c] # "open" /\ ~Carries(line'[c].down, "ready"))
        \/ ~Doomed(c) /\ (shake[c] = "open" \/ Carries(line[c].down, "ready"))
    BY <2>1, <2>2 DEF Doomed
  <2> QED BY <2>1, <2>2, <2>3, Kinds, AnsweredTouches
<1>8. ASSUME NEW c \in Clients, Nudges(c) PROVE Answered'
  <2>1. UNCHANGED <<channel, shake>>
    BY <1>8 DEF Nudges, Relays
  <2>2. Touches({})
    BY <1>8, NudgesEffect
  <2> QED BY <2>1, <2>2, Kinds, AnsweredTouches
<1>9. ASSUME NEW k \in Controls, ConnectControl(k) PROVE Answered'
  <2>1. UNCHANGED <<channel, shake>>
    BY <1>9 DEF ConnectControl
  <2>2. Touches({k})
    BY <1>9, ConnectControlEffect
  <2> QED BY <2>1, <2>2, Kinds, AnsweredTouches
<1>10. ASSUME NEW k \in Controls, OnSync(k) PROVE Answered'
  <2> DEFINE some == {k} \cup NewSockets(k)
  <2>1. UNCHANGED <<channel, shake>>
    BY <1>10 DEF OnSync, Daemons
  <2>2. /\ Touches(some)
        /\ \A d \in NewSockets(k) : d \in Datas /\ line'[d].up = <<>> /\ line[d].far = "none"
    BY <1>10, OnSyncEffect
  <2>3. some \cap Clients = {} /\ \A d \in Datas \cap some : d \in NewSockets(k)
    BY <2>2, Kinds
  <2> HIDE DEF some
  <2>4. \A d \in Datas \cap some : ~Answering(d) /\ ~Carries(line'[d].up, "ready")
    BY <2>2, <2>3, CarriesNone DEF Answering, Listed
  <2> QED BY <2>1, <2>2, <2>3, <2>4, AnsweredTouches
<1>11. ASSUME NEW k \in Controls, NEW c \in Clients, OnDisconnected(k, c) PROVE Answered'
  <2> DEFINE d == <<c, dataOf[c]>>
  <2>1. UNCHANGED <<channel, shake>> /\ k \notin Datas /\ k \notin Clients
    BY <1>11, Kinds DEF OnDisconnected, Daemons
  <2>2. Wired'
    BY <1>11, OnDisconnectedEffect
  <2>3. \/ Touches({k})
        \/ /\ Touches({k, d}) /\ d \in Datas
           /\ \/ line'[d] = line[d]
              \/ line'[d] = NoLine /\ line[d].near = "opening"
              \/ /\ line'[d].near = "closing" /\ line'[d].far = line[d].far
                 /\ Carries(line'[d].up, "ready") => Carries(line[d].up, "ready")
    BY <1>11, OnDisconnectedEffect
  <2>4. CASE Touches({k})
    BY <2>1, <2>4, AnsweredTouches
  <2>5. ASSUME Touches({k, d}), NEW e \in Datas, e = d,
               \/ line'[e] = line[e]
               \/ line'[e] = NoLine /\ line[e].near = "opening"
               \/ /\ line'[e].near = "closing" /\ line'[e].far = line[e].far
                  /\ Carries(line'[e].up, "ready") => Carries(line[e].up, "ready")
        PROVE  Answered'
    <3>1. Answering(e) => Answering(e)'
      <4>1. CASE line'[e] = line[e]
        BY <2>1, <4>1 DEF Answering, Listed
      <4>2. CASE line[e].near = "opening"
        <5>1. line[e].far = "none"
          BY <4>2, Kinds, SocketFacts DEF Sound
        <5> QED BY <5>1 DEF Answering, Listed
      <4>3. CASE line'[e].near = "closing" /\ line'[e].far = line[e].far
        <5>1. line[e].far \in {"open", "closing"} => Answering(e)'
          BY <2>2, <4>3, AnsweringClose
        <5> QED BY <5>1 DEF Answering, Listed
      <4> QED BY <2>5, <4>1, <4>2, <4>3
    <3>2. Carries(line'[e].up, "ready") => Carries(line[e].up, "ready")
      BY <2>5, NoLineSound, CarriesNone
    <3>3. Carries(line'[e].up, "ready") => Answering(e)'
      BY <3>1, <3>2 DEF Answered
    <3>4. e \notin Clients
      BY Kinds
    <3> HIDE DEF d
    <3> QED BY <2>1, <2>5, <3>1, <3>3, <3>4, AnsweredTouches
  <2> QED BY <2>3, <2>4, <2>5
<1>12. ASSUME NEW k \in Controls, OnControlClose(k) \/ ControlStale(k) PROVE Answered'
  <2>1. UNCHANGED <<channel, shake>>
    BY <1>12 DEF OnControlClose, ControlStale, ControlLost, Daemons
  <2>2. Touches({k})
    BY <1>12, ControlLostEffect
  <2> QED BY <2>1, <2>2, Kinds, AnsweredTouches
<1>13. ASSUME NEW k \in Controls, ControlGone(k) PROVE Answered'
  <2>1. UNCHANGED <<channel, shake>>
    BY <1>13 DEF ControlGone, Relays
  <2>2. Touches({k})
    BY <1>13, ControlGoneEffect
  <2> QED BY <2>1, <2>2, Kinds, AnsweredTouches
<1>14. ASSUME NEW k \in Controls, FallsSilent(k) PROVE Answered'
  <2>1. UNCHANGED <<channel, shake>>
    BY <1>14 DEF FallsSilent
  <2>2. Touches({k})
    BY <1>14, FallsSilentEffect
  <2> QED BY <2>1, <2>2, Kinds, AnsweredTouches
<1>15. ASSUME NEW c \in Clients, NEW n \in Slots, TakesData(c, n) PROVE Answered'
  <2>1. UNCHANGED shake /\ \A e \in Datas : e # <<c, n>> => channel'[e] = channel[e]
    BY <1>15 DEF TakesData, Types
  <2>2. Touches({<<c, n>>}) /\ line[<<c, n>>].far = "none" /\ line'[<<c, n>>].up = <<>>
    BY <1>15, TakesDataEffect
  <2>3. ~Answering(<<c, n>>) /\ ~Carries(line'[<<c, n>>].up, "ready")
    BY <2>2, NoLineSound, CarriesNone DEF Answering, Listed
  <2> QED BY <2>1, <2>2, <2>3, Kinds, AnsweredTouches
<1>16. ASSUME NEW d \in Datas, FromData(d) PROVE Answered'
  <2> DEFINE c == d[1]
  <2>1. UNCHANGED <<channel, shake>>
    BY <1>16 DEF FromData, Relays
  <2>2. /\ Touches({d, c}) /\ line'[d].far = line[d].far
        /\ Carries(line[d].up, "ready")
        /\ Carries(line[d].up, "close") => Carries(line'[d].up, "close")
        /\ line'[c].near = line[c].near
        /\ Carries(line[c].down, "close") => Carries(line'[c].down, "close")
    BY <1>16, FromDataEffect
  <2>3. Answering(d) /\ Answering(d)'
    <3>1. Answering(d)
      BY <2>2 DEF Answered
    <3> QED BY <2>1, <2>2, <3>1 DEF Answering, Listed
  <2>4. Doomed(c)' \/ ~Doomed(c)
    BY <2>2 DEF Doomed
  <2>5. c \in Clients /\ c \notin Datas /\ d \notin Clients /\ d \in DatasOf(c)
    BY Kinds
  <2> HIDE DEF c
  <2> QED BY <2>1, <2>2, <2>3, <2>4, <2>5, AnsweredTouches
<1>17. ASSUME NEW d \in Datas, DataGone(d) PROVE Answered'
  <2>1. UNCHANGED <<channel, shake>>
    BY <1>17 DEF DataGone, Relays
  <2>2. /\ Touches({d}) /\ line'[d].up = <<>>
        /\ line'[d[1]].near # "open" \/ Carries(line'[d[1]].down, "close")
    BY <1>17, DataGoneEffect
  <2>3. Doomed(d[1])' /\ ~Carries(line'[d].up, "ready")
    BY <2>2, CarriesNone DEF Doomed
  <2> QED BY <2>1, <2>2, <2>3, Kinds, AnsweredTouches
<1>18. ASSUME NEW d \in Datas, OnHello(d) PROVE Answered'
  <2>1. /\ UNCHANGED shake
        /\ \A e \in Datas : e # d => channel'[e] = channel[e]
        /\ channel[d] = "open" \/ line[d].near = "open" => channel'[d] = "open"
    BY <1>18 DEF OnHello, Daemons, Types
  <2>2. /\ Touches({d}) /\ line'[d].far = line[d].far
        /\ Carries(line[d].up, "close") => Carries(line'[d].up, "close")
        /\ Carries(line'[d].up, "ready") =>
             Carries(line[d].up, "ready") \/ (line[d].near = "open" /\ line[d].far \in {"open", "closing"})
    BY <1>18, OnHelloEffect
  <2>3. Answering(d) => Answering(d)'
    BY <2>1, <2>2 DEF Answering, Listed
  <2>4. Carries(line'[d].up, "ready") => Answering(d)'
    <3>1. Carries(line[d].up, "ready") => Answering(d)
      BY DEF Answered
    <3> QED BY <2>1, <2>2, <2>3, <3>1 DEF Answering, Listed
  <2> QED BY <2>1, <2>2, <2>3, <2>4, Kinds, AnsweredTouches
<1>19. ASSUME NEW d \in Datas, OnData(d) PROVE Answered'
  <2>1. /\ UNCHANGED shake
        /\ \A e \in Datas : e # d => channel'[e] = channel[e]
        /\ channel[d] = "open" => channel'[d] = "open"
    BY <1>19 DEF OnData, Daemons, Types
  <2>2. /\ Touches({d}) /\ line'[d].far = line[d].far /\ Wired'
        /\ line'[d].near = "closing" \/ (Carries(line[d].up, "close") => Carries(line'[d].up, "close"))
        /\ Carries(line'[d].up, "ready") => Carries(line[d].up, "ready")
    BY <1>19, OnDataEffect
  <2>3. Answering(d) => Answering(d)'
    <3>1. line'[d].near = "closing" /\ line[d].far \in {"open", "closing"} => Answering(d)'
      BY <2>2, AnsweringClose
    <3> QED BY <2>1, <2>2, <3>1 DEF Answering, Listed
  <2>4. Carries(line'[d].up, "ready") => Answering(d)'
    <3>1. Carries(line[d].up, "ready") => Answering(d)
      BY DEF Answered
    <3> QED BY <2>2, <2>3, <3>1
  <2> QED BY <2>1, <2>2, <2>3, <2>4, Kinds, AnsweredTouches
<1>20. ASSUME NEW d \in Datas, OnDataClose(d) PROVE Answered'
  <2>1. /\ UNCHANGED shake
        /\ \A e \in Datas : e # d => channel'[e] = channel[e]
        /\ channel'[d] = "none"
    BY <1>20 DEF OnDataClose, Daemons, Types
  <2>2. /\ Touches({d}) /\ Wired' /\ line'[d].near \in {"free", "closed"}
        /\ line[d].far \in {"open", "closing"} => line'[d].far = line[d].far
        /\ Carries(line'[d].up, "ready") => Carries(line[d].up, "ready")
    BY <1>20, OnDataCloseEffect
  <2>3. Answering(d) => Answering(d)'
    <3>1. line[d].far \in {"open", "closing"} => Answering(d)'
      BY <2>2, AnsweringClose
    <3> QED BY <3>1 DEF Answering, Listed
  <2>4. Carries(line'[d].up, "ready") => Answering(d)'
    <3>1. Carries(line[d].up, "ready") => Answering(d)
      BY DEF Answered
    <3> QED BY <2>2, <2>3, <3>1
  <2> QED BY <2>1, <2>2, <2>3, <2>4, Kinds, AnsweredTouches
<1>21. ASSUME NEW d \in Datas, DataRefused(d) PROVE Answered'
  <2>1. UNCHANGED shake /\ \A e \in Datas : e # d => channel'[e] = channel[e]
    BY <1>21 DEF DataRefused, Types
  <2>2. Touches({d}) /\ line[d].far = "none" /\ line'[d] = NoLine
    BY <1>21, DataRefusedEffect
  <2>3. ~Answering(d) /\ ~Carries(line'[d].up, "ready")
    BY <2>2, NoLineSound, CarriesNone DEF Answering, Listed
  <2> QED BY <2>1, <2>2, <2>3, Kinds, AnsweredTouches
<1>22. ASSUME NEW x \in Sockets, Breaks(x) PROVE Answered'
  <2>1. UNCHANGED <<channel, shake>>
    BY <1>22 DEF Breaks
  <2>2. /\ Touches({x}) /\ line'[x].far = "open"
        /\ Carries(line'[x].up, "close") /\ Carries(line'[x].down, "close")
    BY <1>22, BreaksEffect
  <2>3. \A d \in Datas \cap {x} : Answering(d)'
    BY <2>2 DEF Answering, Listed
  <2>4. \A c \in Clients \cap {x} : Doomed(c)'
    BY <2>2 DEF Doomed
  <2> QED BY <2>1, <2>2, <2>3, <2>4, AnsweredTouches
<1> QED
  BY <1>1, <1>2, <1>3, <1>4, <1>5, <1>6, <1>7, <1>8, <1>9, <1>10, <1>11, <1>12,
         <1>13, <1>14, <1>15, <1>16, <1>17, <1>18, <1>19, <1>20, <1>21, <1>22, Kinds
     DEF Next, ClientReads, RelayReads, RelayReadsData, DaemonReadsData, ControlReads

-----------------------------------------------------------------------------
(* The theorems *)

Inv == Types /\ Wired /\ Dials /\ Held /\ Freed /\ Answered

LEMMA InitInv == ASSUME Init PROVE Inv
<1>1. Wired
  BY NoLineSound DEF Init, Wired
<1>2. Types
  <2>1. <<>> \in Seq({Hello, Data}) /\ Len(<<>>) = 0 /\ BufferLimit \in Nat /\ MaxFaults \in Nat
    BY RelayAssumption
  <2>2. /\ pending \in [Clients -> Seq({Hello, Data})]
        /\ \A c \in Clients : Len(pending[c]) <= BufferLimit
    BY <2>1 DEF Init
  <2>3. faults \in 0..MaxFaults
    BY <2>1 DEF Init
  <2> QED BY <2>2, <2>3 DEF Init, Types
<1>3. \A x \in Sockets : /\ line[x].near = "free" /\ line[x].up = <<>> /\ line[x].down = <<>>
  BY NoLineSound DEF Init
<1>4. Dials /\ Freed
  BY DEF Init, Dials, Freed
<1>5. Held
  BY <1>3, Kinds DEF Init, Held
<1>6. Answered
  BY <1>3, Kinds, CarriesNone DEF Init, Answered
<1> QED BY <1>1, <1>2, <1>4, <1>5, <1>6 DEF Inv

LEMMA NextInv == ASSUME Inv, [Next]_vars PROVE Inv'
<1>1. CASE Next
  BY <1>1, NextTypes, NextWired, NextDials, NextHeld, NextFreed, NextAnswered DEF Inv
<1>2. CASE UNCHANGED vars
  <2>1. /\ line' = line /\ pending' = pending /\ nudge' = nudge /\ current' = current /\ retry' = retry
        /\ dataOf' = dataOf /\ channel' = channel /\ shake' = shake /\ faults' = faults
    BY <1>2 DEF vars
  <2>2. Types' /\ Wired' /\ Dials' /\ Held'
    BY <2>1 DEF Inv, Types, Wired, Dials, Held
  <2>3. Freed' /\ Answered'
    BY <2>1 DEF Inv, Freed, Listed, Answered, Answering, Doomed
  <2> QED BY <2>2, <2>3 DEF Inv
<1> QED BY <1>1, <1>2

LEMMA InvHolds == Spec => []Inv
<1>1. Init => Inv
  BY InitInv
<1>2. Inv /\ [Next]_vars => Inv'
  BY NextInv
<1> QED BY <1>1, <1>2, PTL DEF Spec

\* Every variable has its type, and the relay keeps at most BufferLimit frames for a
\* client whose data socket is missing (bufferFrame).
THEOREM TypesHold == Spec => []TypeOK
<1>1. Inv => TypeOK
  <2>1. ASSUME Wired PROVE \A x \in Sockets :
         /\ line[x].near \in {"free", "opening", "open", "closing", "closed"}
         /\ line[x].far \in {"none", "open", "closing", "gone"}
         /\ line[x].silent \in BOOLEAN
         /\ line[x].up \in Seq(Frames) /\ line[x].down \in Seq(Frames)
    BY <2>1 DEF Wired, Lines, Nears, Fars
  <2> QED BY <2>1 DEF Inv, Types, TypeOK
<1> QED BY <1>1, InvHolds, PTL

\* The daemon that is without an open control socket has the timer that makes one, and
\* one that has the timer has none: no order of lost, silent, replaced and reset sockets
\* leaves it deaf to the relay (scheduleReconnect, the handlers of connectControl).
THEOREM AlwaysDials == Spec => []Dials
<1>1. Inv => Dials
  BY DEF Inv
<1> QED BY <1>1, InvHolds, PTL

\* The map of data sockets of the daemon is exact: each client has at most one socket
\* that opens or is open, it is the one in the map, and the entry of a socket that closed
\* does not stay, so that ensureClientDataSocket never skips a client that has none.
THEOREM MapsHold == Spec => []Held
<1>1. Inv => Held
  BY DEF Inv
<1> QED BY <1>1, InvHolds, PTL

\* The relay keeps frames only for clients whose socket it lists (bufferFrame and the
\* deletion in webSocketClose): none is kept for a client that is gone.
THEOREM BuffersFreed == Spec => []Freed
<1>1. Inv => Freed
  BY DEF Inv
<1> QED BY <1>1, InvHolds, PTL

\* No socket is left half closed in silence: an end whose peer has closed has a close on
\* its way, whatever is sent, lost or replaced meanwhile, unless the socket fell silent.
PeersTold == \A x \in Sockets : Told(line[x])
THEOREM NoneHalfClosed == Spec => []PeersTold
<1>1. Inv => PeersTold
  BY DEF Inv, Wired, Sound, PeersTold
<1> QED BY <1>1, InvHolds, PTL

\* A client is stranded only for as long as the news travels: when the daemon's end of its
\* channel is gone, a close is on its way to the client, or on its way to the relay from a
\* data socket of the client, which makes the relay close the client (webSocketClose).
StrandedTold ==
    \A c \in Clients : Stranded(c) =>
        \/ Carries(line[c].down, "close")
        \/ \E d \in DatasOf(c) : Listed(d) /\ Carries(line[d].up, "close")
THEOREM StrandedHear == Spec => []StrandedTold
<1>1. Inv => StrandedTold
  <2>1. SUFFICES ASSUME Answered, NEW c \in Clients, Stranded(c)
                 PROVE  \/ Carries(line[c].down, "close")
                        \/ \E d \in DatasOf(c) : Listed(d) /\ Carries(line[d].up, "close")
    BY DEF Inv, StrandedTold
  <2>2. Doomed(c) \/ \E d \in DatasOf(c) : Answering(d)
    BY <2>1 DEF Answered, Stranded
  <2> QED BY <2>1, <2>2 DEF Doomed, Answering, Stranded
<1> QED BY <1>1, InvHolds, PTL

=============================================================================
