---------------------------- MODULE SshChannelProofs ----------------------------
(***************************************************************************)
(* A call that returned Ok has all the output of a command that ended,     *)
(* unless the connection was lost, and the command succeeded unless the    *)
(* call could not know, for any amounts of input and output, any window    *)
(* and any failures; step by step a call is what RemoteExec says it is.    *)
(***************************************************************************)
EXTENDS SshChannel, Integers, TLAPS

(***************************************************************************)
(* Sequences of messages, index by index                                   *)
(***************************************************************************)
LEMMA OneMore ==
  ASSUME NEW s \in Seq(Msg), NEW m \in Msg
  PROVE  /\ s \o <<m>> \in Seq(Msg)
         /\ Len(s \o <<m>>) = Len(s) + 1
         /\ (s \o <<m>>)[Len(s) + 1] = m
         /\ \A i \in 1..Len(s) : (s \o <<m>>)[i] = s[i]
OBVIOUS

LEMMA TwoMore ==
  ASSUME NEW s \in Seq(Msg), NEW m \in Msg, NEW n \in Msg
  PROVE  /\ s \o <<m, n>> \in Seq(Msg)
         /\ Len(s \o <<m, n>>) = Len(s) + 2
         /\ (s \o <<m, n>>)[Len(s) + 1] = m
         /\ (s \o <<m, n>>)[Len(s) + 2] = n
         /\ \A i \in 1..Len(s) : (s \o <<m, n>>)[i] = s[i]
OBVIOUS

LEMMA OneLess ==
  ASSUME NEW s \in Seq(Msg), s # <<>>
  PROVE  /\ Tail(s) \in Seq(Msg)
         /\ Len(s) \in Nat /\ Len(s) > 0
         /\ Len(Tail(s)) = Len(s) - 1
         /\ Head(s) = s[1] /\ s[1] \in Msg
         /\ \A i \in 1..(Len(s) - 1) : Tail(s)[i] = s[i + 1]
OBVIOUS

LEMMA FirstFew ==
  ASSUME NEW s \in Seq(Msg), NEW n \in 0..Len(s)
  PROVE  /\ SubSeq(s, 1, n) \in Seq(Msg)
         /\ Len(SubSeq(s, 1, n)) = n
         /\ \A i \in 1..n : SubSeq(s, 1, n)[i] = s[i]
OBVIOUS

(***************************************************************************)
(* The counters                                                            *)
(***************************************************************************)
LEMMA InitInv == Init => ChannelInv
<1> SUFFICES ASSUME Init PROVE ChannelInv
  OBVIOUS
<1>1. TypeOK
  <2>1. /\ stdinEof \in BOOLEAN /\ up \in BOOLEAN /\ quiet \in BOOLEAN
        /\ lost \in BOOLEAN /\ late \in BOOLEAN
    BY Zenon DEF Init
  <2> QED BY <2>1, SshAssumption DEF Init, TypeOK, PC
<1>2. CommandSound
  BY SshAssumption DEF Init, CommandSound, Ended
<1>3. InTransitSound /\ NothingMissing
  <2>1. Len(chan) = 0 /\ passed = 0 /\ output = 0 /\ cmd = "absent"
    BY DEF Init
  <2> QED BY <2>1 DEF InTransitSound, NothingMissing, At, Pieces, BeforeEof, Ended
<1> QED
  BY <1>1, <1>2, <1>3 DEF ChannelInv, OkIsWhole, Init

LEMMA ClientType ==
  ASSUME ChannelInv, ClientStep \/ TimeOut
  PROVE  TypeOK' /\ CommandSound'
<1>t. TypeOK /\ CommandSound /\ (~Returned => InTransitSound)
  BY DEF ChannelInv
<1> USE SshAssumption, <1>t
    DEF TypeOK, CommandSound, PC, Ended, GiveUp,
        clientVars, remoteVars, callVars, linkVars
<1>1. CASE Connect
  BY <1>1 DEF Connect
<1>2. CASE Authenticate
  <2>1. quiet' = FALSE /\ up' = up /\ lost' = lost
    BY <1>2 DEF Authenticate, Answered
  <2>2. pc' \in {"open", "auth", "err"} /\ attempt' \in 0..MAX_AUTH_RETRIES
        /\ (pc' = "auth" => attempt' < MAX_AUTH_RETRIES)
    BY <1>2 DEF Authenticate
  <2>3. quiet' \in BOOLEAN
    BY <2>1, Zenon
  <2> QED BY <1>2, <2>1, <2>2, <2>3 DEF Authenticate
<1>3. CASE Open
  BY <1>3 DEF Open, Answered
<1>4. CASE Exec
  BY <1>4 DEF Exec
<1>5. CASE Send
  BY <1>5 DEF Send
<1>6. CASE SendEof
  BY <1>6 DEF SendEof
<1>7. CASE SendFails
  BY <1>7 DEF SendFails
<1>8. CASE Collect
  <2>1. /\ Tail(chan) \in Seq(Msg) /\ Len(chan) \in Nat /\ Len(chan) > 0
        /\ Head(chan) = chan[1]
    BY <1>8, OneLess DEF Collect
  <2>2. ASSUME Head(chan) = "data" PROVE output + 1 <= passed
    <3>1. InTransitSound
      BY <1>8 DEF Collect, Returned
    <3>2. BeforeEof(1) => Pieces(1) <= passed - output
      BY <2>1, <3>1 DEF InTransitSound
    <3>3. \A j \in 1..1 : chan[j] = "data"
      BY <2>1, <2>2
    <3>4. BeforeEof(1) /\ Pieces(1) = 1
      BY <3>3 DEF BeforeEof, Pieces
    <3> QED BY <3>2, <3>4
  <2>3. output' \in 0..passed
    BY <1>8, <2>2 DEF Collect
  <2>4. chan' \in Seq(Msg) /\ pc' \in {"collect", "ok", "err"}
    BY <1>8, <2>1 DEF Collect
  <2> QED
    BY <1>8, <2>3, <2>4 DEF Collect
<1>9. CASE CollectNone
  BY <1>9 DEF CollectNone
<1>10. CASE TimeOut
  BY <1>10 DEF TimeOut
<1> QED
  BY <1>1, <1>2, <1>3, <1>4, <1>5, <1>6, <1>7, <1>8, <1>9, <1>10 DEF ClientStep

\* Whatever the server sends, it sends messages.
LEMMA DeliverType ==
  ASSUME chan \in Seq(Msg), NEW m \in Msg, Deliver(<<m>>) \/ Deliver(<<m, "close">>)
  PROVE  chan' \in Seq(Msg) /\ quiet' \in {FALSE, quiet} /\ UNCHANGED <<up, lost>>
<1>1. m \in Msg /\ "close" \in Msg => chan \o <<m>> \in Seq(Msg) /\ chan \o <<m, "close">> \in Seq(Msg)
  BY OneMore, TwoMore
<1> QED
  BY <1>1 DEF Deliver, Msg

LEMMA RemoteType ==
  ASSUME ChannelInv, RemoteStep \/ Drop \/ Silence \/ Inactive
  PROVE  TypeOK' /\ CommandSound'
<1>t. TypeOK /\ CommandSound
  BY DEF ChannelInv
<1> USE SshAssumption, <1>t
    DEF TypeOK, CommandSound, PC, Ended, clientVars, remoteVars, callVars, linkVars
<1>1. CASE Read
  BY <1>1 DEF Read
<1>2. CASE Write
  BY <1>2 DEF Write
<1>3. CASE Forward
  <2>1. chan' \in Seq(Msg) /\ quiet' \in {FALSE, quiet} /\ UNCHANGED <<up, lost>>
    BY <1>3, DeliverType DEF Forward, Msg
  <2>q. quiet' \in BOOLEAN
    BY <1>t, <2>1, Zenon
  <2>2. cmd # "absent" /\ quiet' \in BOOLEAN
    BY <1>3, <2>q DEF Forward
  <2>3. TypeOK'
    BY <1>3, <2>1, <2>2 DEF Forward
  <2>4. CommandSound'
    BY <1>3, <2>1, <2>2 DEF Forward
  <2> QED BY <2>3, <2>4
<1>4. CASE End
  BY <1>4 DEF End
<1>5. ASSUME NEW m \in Ended \cup {"eof"}, Report(m) PROVE TypeOK' /\ CommandSound'
  <2>1. cmd \in Ended /\ chan' \in Seq(Msg) /\ quiet' \in {FALSE, quiet}
        /\ UNCHANGED <<up, lost>>
    BY <1>5, DeliverType DEF Report, Msg
  <2>2. late' \in BOOLEAN
    BY <1>5 DEF Report
  <2> QED BY <1>5, <2>1, <2>2 DEF Report
<1>6. CASE Drop
  <2>1. chan' \in Seq(Msg) /\ (chan = <<>> => chan' = <<>>)
    BY <1>6, FirstFew DEF Drop
  <2> QED BY <1>6, <2>1 DEF Drop
<1>7. CASE Inactive
  BY <1>7 DEF Inactive
<1>8. CASE Silence
  BY <1>8 DEF Silence
<1> QED
  BY <1>1, <1>2, <1>3, <1>4, <1>5, <1>6, <1>7, <1>8 DEF RemoteStep
(***************************************************************************)
(* What is in transit                                                      *)
(***************************************************************************)
\* Steps that leave the messages and what they are compared with alone.
LEMMA InTransitFrame ==
  ASSUME UNCHANGED <<chan, cmd, ending, passed, output>>
  PROVE  /\ InTransitSound => InTransitSound'
         /\ late' = late /\ NothingMissing => NothingMissing'
BY DEF InTransitSound, NothingMissing, At, Pieces, BeforeEof

\* The command starts, or ends: no status is under way yet.
LEMMA InTransitEnd ==
  ASSUME TypeOK, CommandSound, UNCHANGED <<chan, passed, output, late>>, Exec \/ End
  PROVE  /\ InTransitSound => InTransitSound'
         /\ InTransitSound /\ NothingMissing => NothingMissing'
<1>1. /\ cmd \notin Ended
      /\ cmd' \in Ended => ending' = {cmd', "eof"}
      /\ cmd' \notin Ended => ending' = ending
  BY DEF Exec, End, CommandSound, Ended, TypeOK
<1>2. ASSUME InTransitSound
      PROVE  At("eof") = {} /\ At("close") = {} /\ \A i \in 1..Len(chan) : chan[i] \notin Ended
  BY <1>1, <1>2 DEF InTransitSound, At
<1>3. At("eof")' = At("eof") /\ At("close")' = At("close")
      /\ \A i : BeforeEof(i)' = BeforeEof(i) /\ Pieces(i)' = Pieces(i)
  BY DEF At, BeforeEof, Pieces
<1>4. ASSUME InTransitSound PROVE InTransitSound'
  BY <1>2, <1>3, <1>4 DEF InTransitSound
<1>5. ASSUME InTransitSound, NothingMissing PROVE NothingMissing'
  BY <1>1, <1>2, <1>3, <1>5 DEF NothingMissing, Ended
<1> QED
  BY <1>4, <1>5

\* The first message is looked at, and is none that ends the call.
LEMMA InTransitCollect ==
  ASSUME TypeOK, CommandSound, InTransitSound, Collect, pc' = "collect"
  PROVE  /\ InTransitSound'
         /\ NothingMissing => NothingMissing'
<1>1. /\ Len(chan) \in Nat /\ Len(chan) > 0 /\ Len(chan') = Len(chan) - 1
      /\ \A i \in 1..(Len(chan) - 1) : chan'[i] = chan[i + 1]
      /\ chan[1] \in Msg
      /\ output' = IF chan[1] = "data" THEN output + 1 ELSE output
      /\ chan[1] \notin {"eof", "close", "failure"}
      /\ UNCHANGED <<cmd, ending, passed, late>>
  BY OneLess DEF Collect, TypeOK, remoteVars
<1>2. passed \in Nat /\ output \in Nat
  BY SshAssumption DEF TypeOK
<1>3. \A m : \A i \in 1..Len(chan') : i \in At(m)' <=> i + 1 \in At(m)
  BY <1>1 DEF At
<1>4. \A m : \A i \in At(m)' : i \in 1..Len(chan') /\ i + 1 \in At(m)
  BY <1>3 DEF At
<1>s. \A j \in 2..Len(chan) : j - 1 \in 1..Len(chan') /\ chan[j] = chan'[j - 1]
  BY <1>1
<1>5. ASSUME NEW i \in 0..Len(chan') PROVE BeforeEof(i)' <=> BeforeEof(i + 1)
  <2>1. ASSUME BeforeEof(i)', NEW j \in 1..(i + 1) PROVE chan[j] \notin {"eof", "close"}
    <3>1. CASE j = 1
      BY <1>1, <3>1
    <3>2. CASE j # 1
      <4>1. j \in 2..Len(chan) /\ j - 1 \in 1..i
        BY <1>1, <3>2
      <4>2. chan'[j - 1] \notin {"eof", "close"}
        BY <2>1, <4>1 DEF BeforeEof
      <4> QED BY <1>s, <4>1, <4>2
    <3> QED BY <3>1, <3>2
  <2>2. ASSUME BeforeEof(i + 1), NEW j \in 1..i PROVE chan'[j] \notin {"eof", "close"}
    <3>1. j + 1 \in 1..(i + 1) /\ chan'[j] = chan[j + 1]
      BY <1>1
    <3> QED BY <2>2, <3>1 DEF BeforeEof
  <2> QED BY <2>1, <2>2 DEF BeforeEof
<1>6. ASSUME NEW i \in 0..Len(chan') PROVE Pieces(i)' = Pieces(i + 1) - (output' - output)
  <2>1. CASE chan[1] = "data"
    <3>1. ASSUME NEW j \in 1..i, chan'[j] \in Ended
          PROVE  j + 1 \in 1..(i + 1) /\ chan[j + 1] \in Ended
      BY <1>1, <3>1
    <3>2. ASSUME NEW j \in 1..(i + 1), chan[j] \in Ended
          PROVE  j - 1 \in 1..i /\ chan'[j - 1] \in Ended
      <4>1. j # 1
        BY <2>1, <3>2 DEF Ended
      <4> QED BY <1>1, <1>s, <3>2, <4>1
    <3> QED BY <1>1, <1>2, <2>1, <3>1, <3>2 DEF Pieces
  <2>2. CASE chan[1] # "data"
    <3>1. chan[1] \in Ended
      BY <1>1, <2>2 DEF Msg, Ended
    <3>2. \A k \in 2..Len(chan) : chan[k] \notin Ended
      BY <1>1, <3>1 DEF InTransitSound, At
    <3>3. ASSUME NEW j \in 1..i PROVE chan'[j] \notin Ended
      <4>1. j + 1 \in 2..Len(chan) /\ chan'[j] = chan[j + 1]
        BY <1>1
      <4> QED BY <3>2, <4>1
    <3>4. 1 \in 1..(i + 1)
      OBVIOUS
    <3> QED BY <1>1, <1>2, <2>2, <3>1, <3>3, <3>4 DEF Pieces
  <2> QED BY <2>1, <2>2
<1>7. InTransitSound'
  <2>1. ASSUME NEW i \in 1..Len(chan'), chan'[i] \in Ended
        PROVE  chan'[i] = cmd' /\ cmd' \notin ending' /\ At(cmd)' = {i}
    <3>1. chan[i + 1] = cmd /\ cmd \notin ending /\ At(cmd) = {i + 1}
      BY <1>1, <2>1 DEF InTransitSound
    <3>2. chan'[i] = cmd /\ cmd' = cmd /\ ending' = ending
      BY <1>1, <3>1
    <3>3. ASSUME NEW k \in At(cmd)' PROVE k = i
      BY <1>1, <1>4, <3>1, <3>2, <3>3 DEF At
    <3>4. i \in At(cmd)'
      BY <3>2 DEF At
    <3>5. At(cmd)' = {i}
      BY <3>3, <3>4
    <3> QED BY <3>1, <3>2, <3>5
  <2>2. ASSUME NEW i \in At("eof")'
        PROVE  /\ cmd' \in Ended /\ "eof" \notin ending'
               /\ \A j \in At("data")' : j < i
               /\ \A j \in At("close")' : i < j
    BY <1>1, <1>4, <2>2 DEF InTransitSound
  <2>3. At("close")' # {} => cmd' \in Ended /\ ending' = {}
    BY <1>1, <1>4 DEF InTransitSound
  <2>4. ASSUME NEW i \in 0..Len(chan'), BeforeEof(i)' PROVE Pieces(i)' <= passed' - output'
    <3>1. i + 1 \in 0..Len(chan) /\ BeforeEof(i + 1)
      BY <1>1, <1>5, <2>4
    <3>2. Pieces(i + 1) <= passed - output
      BY <3>1 DEF InTransitSound
    <3>3. Pieces(i + 1) \in Int
      BY <1>1 DEF Pieces
    <3> QED BY <1>1, <1>2, <1>6, <3>2, <3>3
  <2> QED BY <2>1, <2>2, <2>3, <2>4 DEF InTransitSound
<1>8. ASSUME NothingMissing PROVE NothingMissing'
  <2>1. \A i \in 0..Len(chan) : Pieces(i) \in Int
    BY DEF Pieces
  <2>2. ASSUME NEW m \in {"eof", "failure"}, At(m) # {}, chan[1] # m PROVE At(m)' # {}
    <3>1. PICK k \in 1..Len(chan) : chan[k] = m
      BY <2>2 DEF At
    <3>2. k \in 2..Len(chan)
      BY <1>1, <2>2, <3>1
    <3>3. k - 1 \in At(m)'
      BY <1>s, <3>1, <3>2 DEF At
    <3> QED BY <3>3
  <2>3. ASSUME At("eof")' = {}
        PROVE  BeforeEof(Len(chan))' /\ Pieces(Len(chan))' = passed' - output'
    <3>1. At("eof") = {}
      BY <1>1, <2>2, <2>3
    <3>2. BeforeEof(Len(chan)) /\ Pieces(Len(chan)) = passed - output
      BY <1>8, <3>1 DEF NothingMissing
    <3>3. Len(chan') \in 0..Len(chan') /\ Len(chan') + 1 = Len(chan)
      BY <1>1
    <3>4. BeforeEof(Len(chan))' /\ Pieces(Len(chan))' = Pieces(Len(chan)) - (output' - output)
      BY <1>5, <1>6, <3>2, <3>3
    <3> QED BY <1>1, <1>2, <3>2, <3>4
  <2>4. ASSUME NEW i \in At("eof")'
        PROVE  BeforeEof(i - 1)' /\ Pieces(i - 1)' = passed' - output'
    <3>1. i - 1 \in 0..Len(chan') /\ i + 1 \in At("eof") /\ (i - 1) + 1 = (i + 1) - 1
      BY <1>1, <1>4, <2>4 DEF At
    <3>2. BeforeEof((i - 1) + 1) /\ Pieces((i - 1) + 1) = passed - output
      BY <1>8, <3>1 DEF NothingMissing
    <3>3. BeforeEof(i - 1)' /\ Pieces(i - 1)' = Pieces((i - 1) + 1) - (output' - output)
      BY <1>5, <1>6, <3>1, <3>2
    <3> QED BY <1>1, <1>2, <3>2, <3>3
  <2>5. cmd' \in Ended /\ "eof" \notin ending' => At("eof")' # {}
    BY <1>1, <1>8, <2>2 DEF NothingMissing
  <2>6. cmd' = "failure" /\ cmd' \notin ending' => At(cmd)' # {}
    BY <1>1, <1>8, <2>2 DEF NothingMissing
  <2>7. ASSUME cmd' = "failure", ~late', NEW i \in At("eof")'
        PROVE  \E j \in At(cmd)' : j < i
    <3>1. PICK k \in At("failure") : k < i + 1
      BY <1>1, <1>4, <1>8, <2>7 DEF NothingMissing
    <3>2. k - 1 \in At("failure")' /\ k - 1 < i
      BY <1>1, <1>s, <3>1 DEF At
    <3> QED BY <1>1, <2>7, <3>2
  <2> QED BY <2>3, <2>4, <2>5, <2>6, <2>7 DEF NothingMissing
<1> QED
  BY <1>7, <1>8
\* The server sends a piece of output, or finds nobody to send it to.
LEMMA InTransitForward ==
  ASSUME TypeOK, CommandSound, InTransitSound, Forward
  PROVE  /\ InTransitSound'
         /\ up /\ NothingMissing => NothingMissing'
<1>n. PICK n \in Nat : n = Len(chan)
  BY DEF TypeOK
<1>1. /\ passed \in Nat /\ output \in Nat /\ passed' = passed + 1
      /\ chan \in Seq(Msg) /\ n = Len(chan)
      /\ UNCHANGED <<cmd, ending, output, late>>
  BY <1>n, SshAssumption DEF Forward, TypeOK, clientVars
<1>2. ~(cmd \in Ended /\ "eof" \notin ending) /\ ~(cmd \in Ended /\ ending = {})
  BY DEF Forward, CommandSound, TypeOK
<1>3. At("eof") = {} /\ At("close") = {}
  BY <1>2 DEF InTransitSound
<1>4. \A i \in 0..n : BeforeEof(i) /\ Pieces(i) \in Int
  BY <1>1, <1>3 DEF At, BeforeEof, Pieces
<1>5. CASE ~up
  <2>1. chan' = chan
    BY <1>5 DEF Forward, Deliver
  <2>2. \A m : At(m)' = At(m)
    BY <2>1 DEF At
  <2>3. \A i \in 0..n : Pieces(i)' <= passed' - output'
    BY <1>1, <1>4, <2>1 DEF InTransitSound, Pieces
  <2> QED BY <1>1, <1>5, <2>1, <2>2, <2>3 DEF InTransitSound
<1>6. CASE up
  <2>1. /\ Len(chan') = n + 1
        /\ chan'[n + 1] = "data"
        /\ \A i \in 1..n : chan'[i] = chan[i]
    BY <1>1, <1>6, OneMore DEF Forward, Deliver, Msg
  <2>2. ASSUME NEW m, m # "data" PROVE At(m)' = At(m)
    BY <1>1, <2>1, <2>2 DEF At
  <2>3. \A i \in 0..n : Pieces(i)' = Pieces(i)
    BY <1>1, <2>1 DEF Pieces
  <2>4. Pieces(n + 1)' = Pieces(n) + 1
    BY <1>1, <2>1 DEF Pieces, Ended
  <2>5. \A i \in 0..(n + 1) : BeforeEof(i)'
    BY <1>1, <1>4, <2>1 DEF BeforeEof
  <2>6. ASSUME NEW i \in 1..Len(chan'), chan'[i] \in Ended
        PROVE  chan'[i] = cmd' /\ cmd' \notin ending' /\ At(cmd)' = {i}
    <3>1. i \in 1..n /\ chan'[i] = chan[i]
      BY <1>1, <2>1, <2>6 DEF Ended
    <3>2. chan[i] = cmd /\ cmd \notin ending /\ At(cmd) = {i} /\ cmd # "data"
      BY <1>1, <2>6, <3>1 DEF InTransitSound, Ended
    <3> QED BY <1>1, <2>2, <3>1, <3>2
  <2>7. \A i \in 0..Len(chan') : Pieces(i)' <= passed' - output'
    <3>1. \A i \in 0..n : Pieces(i) <= passed - output
      BY <1>1, <1>4 DEF InTransitSound
    <3> QED BY <1>1, <1>4, <2>1, <2>3, <2>4, <3>1
  <2>8. At("eof")' = {} /\ At("close")' = {}
    BY <1>3, <2>2
  <2>9. InTransitSound'
    BY <2>6, <2>7, <2>8 DEF InTransitSound
  <2>10. ASSUME NothingMissing PROVE NothingMissing'
    <3>1. Pieces(n) = passed - output
      BY <1>1, <1>3, <2>10 DEF NothingMissing
    <3>2. Pieces(Len(chan))' = passed' - output' /\ BeforeEof(Len(chan))'
      BY <1>1, <2>1, <2>4, <2>5, <3>1
    <3>3. At("failure")' = At("failure")
      BY <2>2
    <3> QED BY <1>1, <1>2, <2>8, <2>10, <3>2, <3>3 DEF NothingMissing
  <2> QED BY <2>9, <2>10
<1> QED
  BY <1>5, <1>6

\* The server reports the status or the end of the output, and closes the
\* channel after the second of them.
LEMMA InTransitReport ==
  ASSUME TypeOK, CommandSound, InTransitSound, NEW m \in Ended \cup {"eof"}, Report(m)
  PROVE  /\ InTransitSound'
         /\ up /\ NothingMissing => NothingMissing'
<1>n. PICK n \in Nat : n = Len(chan)
  BY DEF TypeOK
<1>1. /\ passed \in Nat /\ output \in Nat
      /\ chan \in Seq(Msg) /\ n = Len(chan)
      /\ UNCHANGED <<cmd, output, passed>>
      /\ cmd \in Ended /\ m \in {cmd, "eof"} /\ cmd # "eof"
      /\ m \in ending /\ ending' = ending \ {m} /\ ending \subseteq {cmd, "eof"}
      /\ late' = (late \/ (m = "eof" /\ "failure" \in ending))
  BY <1>n, SshAssumption DEF Report, TypeOK, clientVars, CommandSound, Ended
<1>2. At("close") = {}
  BY <1>1 DEF InTransitSound
<1>3. /\ m = cmd => \A i \in 1..n : chan[i] \notin Ended
      /\ m = "eof" => At("eof") = {}
  BY <1>1 DEF InTransitSound
<1>4. CASE ~up
  <2>1. chan' = chan
    BY <1>4 DEF Report, Deliver
  <2>2. /\ \A x : At(x)' = At(x)
        /\ \A i : Pieces(i)' = Pieces(i) /\ BeforeEof(i)' = BeforeEof(i)
    BY <2>1 DEF At, Pieces, BeforeEof
  <2> QED BY <1>1, <1>4, <2>1, <2>2 DEF InTransitSound
<1>5. CASE up
  <2>1. /\ chan'[n + 1] = m
        /\ \A i \in 1..n : chan'[i] = chan[i]
        /\ \/ Len(chan') = n + 1 /\ ending' # {}
           \/ Len(chan') = n + 2 /\ chan'[n + 2] = "close" /\ ending' = {}
    <3>1. m \in Msg /\ "close" \in Msg
      BY DEF Msg, Ended
    <3> QED BY <1>1, <1>5, <3>1, OneMore, TwoMore DEF Report, Deliver
  <2>2. \A i \in 0..n : /\ Pieces(i)' = Pieces(i) /\ Pieces(i) \in Int
                                /\ BeforeEof(i)' = BeforeEof(i)
    BY <1>1, <2>1 DEF Pieces, BeforeEof
  <2>3. ASSUME NEW i \in 1..Len(chan'), i \notin 1..n, i # n + 1
        PROVE  i = n + 2 /\ chan'[i] = "close" /\ ending' = {}
    <3>1. i = n + 2 /\ Len(chan') = n + 2
      BY <2>1, <2>3
    <3>2. chan'[n + 2] = "close" /\ ending' = {}
      BY <2>1, <3>1
    <3> QED BY <3>1, <3>2
  <2>4. ASSUME NEW x \in Ended \cup {"eof", "data"}
        PROVE  At(x)' = IF x = m THEN At(x) \cup {n + 1} ELSE At(x)
    BY <1>1, <2>1, <2>3 DEF At, Ended
  <2>5. ASSUME NEW i \in At("close")' PROVE i = n + 2 /\ ending' = {}
    BY <1>1, <1>2, <2>1, <2>3, <2>5 DEF At, Ended
  <2>6. ASSUME m = cmd, BeforeEof(n)
        PROVE  /\ Pieces(n + 1)' = Pieces(n)
               /\ BeforeEof(n + 1)'
    <3>1. Pieces(n) = n
      BY <1>1, <1>3, <2>6 DEF Pieces
    <3>2. n + 1 \in 1..(n + 1) /\ chan'[n + 1] \in Ended
      BY <1>1, <2>1, <2>6
    <3>3. Pieces(n + 1)' = n
      BY <1>1, <3>2 DEF Pieces
    <3>4. BeforeEof(n + 1)'
      BY <1>1, <2>1, <2>6 DEF BeforeEof, Ended
    <3> QED BY <3>1, <3>3, <3>4
  <2>7. InTransitSound'
    <3>1. ASSUME NEW i \in 1..Len(chan'), chan'[i] \in Ended
          PROVE  chan'[i] = cmd' /\ cmd' \notin ending' /\ At(cmd)' = {i}
      <4>1. CASE m = "eof"
        <5>1. i \in 1..n /\ chan'[i] = chan[i]
          BY <1>1, <2>1, <2>3, <3>1, <4>1 DEF Ended
        <5>2. chan[i] = cmd /\ cmd \notin ending /\ At(cmd) = {i}
          BY <1>1, <3>1, <5>1 DEF InTransitSound
        <5>3. At(cmd)' = At(cmd)
          BY <1>1, <2>4, <4>1
        <5> QED BY <1>1, <5>1, <5>2, <5>3
      <4>2. CASE m = cmd
        <5>1. i = n + 1
          BY <1>3, <2>1, <2>3, <3>1, <4>2 DEF Ended
        <5>2. At(cmd) = {}
          BY <1>1, <1>3, <4>2 DEF At
        <5>3. At(cmd)' = {i}
          BY <1>1, <2>4, <4>2, <5>1, <5>2
        <5> QED BY <1>1, <2>1, <4>2, <5>1, <5>3
      <4> QED BY <1>1, <4>1, <4>2
    <3>2. ASSUME NEW i \in At("eof")'
          PROVE  /\ cmd' \in Ended /\ "eof" \notin ending'
                 /\ \A j \in At("data")' : j < i
                 /\ \A j \in At("close")' : i < j
      <4>1. At("data")' = At("data") /\ \A j \in At("data") : j \in 1..n
        BY <1>1, <2>4 DEF At, Ended
      <4>2. CASE m = "eof"
        BY <1>1, <1>3, <2>4, <2>5, <3>2, <4>1, <4>2
      <4>3. CASE m = cmd
        <5>1. i \in At("eof") /\ i \in 1..n
          BY <1>1, <2>4, <3>2, <4>3 DEF At
        <5> QED BY <1>1, <2>5, <4>1, <5>1 DEF InTransitSound
      <4> QED BY <1>1, <4>2, <4>3
    <3>3. ASSUME NEW i \in 0..Len(chan'), BeforeEof(i)' PROVE Pieces(i)' <= passed' - output'
      <4>1. CASE i \in 0..n
        BY <1>1, <2>2, <3>3, <4>1 DEF InTransitSound
      <4>2. CASE i \notin 0..n
        <5>1. i # n + 2 /\ i \in 1..Len(chan')
          BY <1>1, <2>1, <3>3, <4>2 DEF BeforeEof
        <5>2. i = n + 1
          BY <1>1, <2>3, <4>2, <5>1
        <5>3. m = cmd /\ BeforeEof(n)'
          BY <1>1, <2>1, <3>3, <5>2 DEF BeforeEof
        <5>4. BeforeEof(n) /\ n \in 0..n
          BY <1>1, <2>2, <5>3
        <5>5. Pieces(n) <= passed - output
          BY <1>1, <5>4 DEF InTransitSound
        <5> QED BY <1>1, <2>6, <5>2, <5>3, <5>4, <5>5
      <4> QED BY <4>1, <4>2
    <3> QED BY <1>1, <2>5, <3>1, <3>2, <3>3 DEF InTransitSound
  <2>8. ASSUME NothingMissing PROVE NothingMissing'
    <3>1. n \in 0..n
      BY <1>1
    <3>2. ASSUME At("eof")' = {}
          PROVE  BeforeEof(Len(chan))' /\ Pieces(Len(chan))' = passed' - output'
      <4>1. m = cmd /\ At("eof") = {}
        BY <1>1, <2>4, <3>2
      <4>2. "eof" \in ending'
        BY <1>1, <2>8, <4>1 DEF NothingMissing
      <4>3. BeforeEof(n) /\ Pieces(n) = passed - output
        BY <1>1, <2>8, <4>1 DEF NothingMissing
      <4>4. Len(chan') = n + 1
        BY <2>1, <4>2
      <4> QED BY <1>1, <2>6, <4>1, <4>3, <4>4
    <3>3. ASSUME NEW i \in At("eof")'
          PROVE  BeforeEof(i - 1)' /\ Pieces(i - 1)' = passed' - output'
      <4>1. CASE m = "eof"
        <5>1. i = n + 1 /\ At("eof") = {}
          BY <1>3, <2>4, <3>3, <4>1
        <5>2. BeforeEof(n) /\ Pieces(n) = passed - output
          BY <1>1, <2>8, <5>1 DEF NothingMissing
        <5>3. i - 1 = n
          BY <1>1, <5>1
        <5> QED BY <1>1, <2>2, <3>1, <5>2, <5>3
      <4>2. CASE m = cmd
        <5>1. i \in At("eof") /\ i - 1 \in 0..n
          <6>1. i \in At("eof")
            BY <1>1, <2>4, <3>3, <4>2
          <6> QED BY <1>1, <6>1 DEF At
        <5>2. BeforeEof(i - 1) /\ Pieces(i - 1) = passed - output
          BY <2>8, <5>1 DEF NothingMissing
        <5> QED BY <1>1, <2>2, <5>1, <5>2
      <4> QED BY <1>1, <4>1, <4>2
    <3>4. cmd' \in Ended /\ "eof" \notin ending' => At("eof")' # {}
      BY <1>1, <2>4, <2>8 DEF NothingMissing
    <3>5. cmd' = "failure" /\ cmd' \notin ending' => At(cmd)' # {}
      BY <1>1, <2>4, <2>8 DEF NothingMissing
    <3>6. ASSUME cmd' = "failure", ~late', NEW i \in At("eof")'
          PROVE  \E j \in At(cmd)' : j < i
      <4>1. CASE m = "eof"
        <5>1. i = n + 1 /\ "failure" \notin ending /\ cmd = "failure"
          BY <1>1, <1>3, <2>4, <3>6, <4>1
        <5>2. PICK j \in At("failure") : TRUE
          BY <2>8, <5>1 DEF NothingMissing
        <5>3. j < i /\ j \in At("failure")'
          BY <1>1, <2>4, <4>1, <5>1, <5>2 DEF At, Ended
        <5> QED BY <3>6, <5>3
      <4>2. CASE m = cmd
        <5>1. i \in At("eof")
          BY <1>1, <2>4, <3>6, <4>2
        <5>2. PICK j \in At("failure") : j < i
          BY <1>1, <2>8, <3>6, <5>1 DEF NothingMissing
        <5>3. j \in At("failure")'
          BY <2>4, <5>2 DEF Ended
        <5> QED BY <3>6, <5>2, <5>3
      <4> QED BY <1>1, <4>1, <4>2
    <3> QED BY <3>2, <3>3, <3>4, <3>5, <3>6 DEF NothingMissing
  <2> QED BY <2>7, <2>8
<1> QED
  BY <1>4, <1>5
\* The connection breaks and takes some of it away.
LEMMA InTransitDrop ==
  ASSUME TypeOK, InTransitSound, Drop
  PROVE  InTransitSound'
<1>1. /\ Len(chan) \in Nat /\ Len(chan') \in 0..Len(chan)
      /\ \A i \in 1..Len(chan') : chan'[i] = chan[i]
      /\ UNCHANGED <<cmd, ending, passed, output>>
  BY FirstFew DEF Drop, TypeOK, remoteVars, clientVars
<1>2. \A m : \A i : i \in At(m)' <=> i \in At(m) /\ i \in 1..Len(chan')
  BY <1>1 DEF At
<1>3. \A i \in 0..Len(chan') : Pieces(i)' = Pieces(i) /\ BeforeEof(i)' = BeforeEof(i)
  BY <1>1 DEF Pieces, BeforeEof
<1>4. ASSUME NEW i \in 1..Len(chan'), chan'[i] \in Ended
      PROVE  chan'[i] = cmd' /\ cmd' \notin ending' /\ At(cmd)' = {i}
  <2>1. i \in 1..Len(chan) /\ chan[i] = chan'[i]
    BY <1>1
  <2>2. chan[i] = cmd /\ cmd \notin ending /\ At(cmd) = {i}
    BY <1>4, <2>1 DEF InTransitSound
  <2>3. At(cmd)' = {i}
    BY <1>1, <1>2, <2>2
  <2> QED BY <1>1, <2>1, <2>2, <2>3
<1>5. ASSUME NEW i \in At("eof")'
      PROVE  /\ cmd' \in Ended /\ "eof" \notin ending'
             /\ \A j \in At("data")' : j < i
             /\ \A j \in At("close")' : i < j
  BY <1>1, <1>2, <1>5 DEF InTransitSound
<1>6. At("close")' # {} => cmd' \in Ended /\ ending' = {}
  BY <1>1, <1>2 DEF InTransitSound
<1>7. ASSUME NEW i \in 0..Len(chan'), BeforeEof(i)' PROVE Pieces(i)' <= passed' - output'
  <2>1. i \in 0..Len(chan)
    BY <1>1
  <2> QED BY <1>1, <1>3, <1>7, <2>1 DEF InTransitSound
<1> QED
  BY <1>4, <1>5, <1>6, <1>7 DEF InTransitSound

(***************************************************************************)
(* What Ok says                                                            *)
(***************************************************************************)
\* A call that ends at the EOF of a connection that was not lost has it all.
LEMMA EofIsWhole ==
  ASSUME TypeOK, CommandSound, InTransitSound, NothingMissing, Collect,
         Head(chan) \in {"eof", "close"}
  PROVE  cmd' \in Ended /\ output' = wrote' /\ (~Hidden => Whole')
<1>1. /\ Len(chan) \in Nat /\ Len(chan) > 0 /\ Head(chan) = chan[1]
      /\ passed \in Nat /\ output \in Nat
      /\ UNCHANGED <<cmd, read, wrote, input, product>> /\ output' = output
  BY OneLess, SshAssumption DEF Collect, TypeOK, remoteVars, callVars
<1>2. 1 \in At("eof")
  <2>1. ASSUME chan[1] = "close" PROVE FALSE
    <3>1. 1 \in At("close")
      BY <1>1, <2>1 DEF At
    <3>2. PICK i \in At("eof") : TRUE
      BY <3>1 DEF InTransitSound, NothingMissing
    <3>3. i \in Int /\ i < 1 /\ i >= 1
      BY <3>1, <3>2 DEF InTransitSound, At
    <3> QED BY <3>3
  <2> QED BY <1>1, <2>1 DEF At
<1>3. cmd \in Ended /\ passed = wrote
  BY <1>2 DEF InTransitSound, CommandSound
<1>4. Pieces(0) = passed - output
  BY <1>2 DEF NothingMissing
<1>5. Pieces(0) = 0
  BY DEF Pieces
<1>6. ~Hidden => cmd # "failure"
  <2>1. cmd = "failure" /\ ~Hidden => \E j \in At(cmd) : j < 1
    BY <1>2 DEF NothingMissing, Hidden
  <2> QED BY <2>1 DEF At
<1>7. ~Hidden => cmd = "success"
  BY <1>3, <1>6 DEF Ended, Hidden
<1> QED
  BY <1>1, <1>3, <1>4, <1>5, <1>7 DEF Whole, CommandSound

\* Whole is kept, and a failure once hidden stays hidden.
LEMMA WholeStays ==
  ASSUME TypeOK, Next, pc = "ok"
  PROVE  /\ pc' = "ok"
         /\ (Hidden => Hidden') /\ lost' = lost
         /\ Whole => Whole'
         /\ cmd \in Ended => UNCHANGED <<cmd, output, wrote>>
<1>1. RemoteStep
  BY DEF Next, ClientStep, Connect, Authenticate, Open, Exec, Send, SendEof, SendFails,
         Collect, CollectNone, TimeOut, Drop, Silence, Inactive, Returned
<1>2. /\ UNCHANGED <<pc, output, input, product, lost>>
      /\ late => late'
      /\ cmd \in Ended => UNCHANGED <<cmd, read, wrote>>
  <2>1. CASE Read \/ Write \/ Forward \/ End
    BY <2>1 DEF Read, Write, Forward, Deliver, End, clientVars, callVars, linkVars, Ended
  <2>2. ASSUME NEW m \in Ended \cup {"eof"}, Report(m)
        PROVE  UNCHANGED <<pc, output, input, product, lost, cmd, read, wrote>>
               /\ (late => late')
    BY <2>2 DEF Report, Deliver, clientVars, callVars
  <2> QED BY <1>1, <2>1, <2>2 DEF RemoteStep
<1> QED
  BY <1>2 DEF Hidden, Whole, Ended
\* Nobody is told Ok but by the loop over the channel's messages.
LEMMA OkFrom ==
  ASSUME ChannelInv, ClientStep \/ TimeOut \/ Drop \/ Silence \/ Inactive, pc' = "ok"
  PROVE  OkIsWhole'
<1>t. TypeOK /\ CommandSound /\ InTransitSound /\ (~lost => NothingMissing) /\ pc # "ok"
      /\ pc \in PC
  BY DEF ChannelInv, ClientStep, Connect, Authenticate, Open, Exec, Send, SendEof,
         SendFails, Collect, CollectNone, TimeOut, Drop, Silence, Inactive, Returned,
         TypeOK, clientVars, GiveUp
<1>1. CASE Collect
  <2>1. Head(chan) \in {"eof", "close"}
    BY <1>1 DEF Collect
  <2>2. UNCHANGED <<lost, cmd, late>>
    BY <1>1 DEF Collect, linkVars, remoteVars
  <2> QED BY <1>1, <1>t, <2>1, <2>2, EofIsWhole DEF OkIsWhole, Hidden
<1>2. CASE CollectNone
  BY <1>2, <1>t DEF CollectNone, CommandSound, OkIsWhole, linkVars
<1> QED
  BY <1>1, <1>2, <1>t DEF ClientStep, Connect, Authenticate, Open, Exec, Send, SendEof,
     SendFails, TimeOut, Drop, Silence, Inactive, clientVars, GiveUp

LEMMA NextOk ==
  ASSUME ChannelInv, Next
  PROVE  OkIsWhole'
<1>1. CASE pc = "ok"
  BY <1>1, WholeStays DEF ChannelInv, OkIsWhole
<1>2. CASE pc # "ok" /\ RemoteStep
  BY <1>2 DEF RemoteStep, Read, Write, Forward, End, Report, clientVars, OkIsWhole
<1>3. CASE pc # "ok" /\ (ClientStep \/ TimeOut \/ Drop \/ Silence \/ Inactive)
  BY <1>3, OkFrom DEF OkIsWhole
<1> QED
  BY <1>1, <1>2, <1>3 DEF Next

LEMMA NextInTransit ==
  ASSUME ChannelInv, Next, ~Returned'
  PROVE  InTransitSound' /\ (~lost' => NothingMissing')
<1>t. TypeOK /\ CommandSound /\ OkIsWhole
  BY DEF ChannelInv
<1>r. ~Returned /\ InTransitSound /\ (lost' = lost /\ ~lost => NothingMissing /\ (up \/ pc = "connect"))
  <2>1. ~Returned
    BY DEF Next, ClientStep, Connect, Authenticate, Open, Exec, Send, SendEof, SendFails,
           Collect, CollectNone, TimeOut, RemoteStep, Read, Write, Forward, End, Report,
           Drop, Silence, Inactive, Returned, clientVars
  <2> QED BY <2>1 DEF ChannelInv, CommandSound, Returned
<1>1. CASE Connect \/ Authenticate \/ Open \/ Send \/ SendEof \/ SendFails \/ CollectNone
           \/ TimeOut \/ Read \/ Write \/ Silence
  <2>1. UNCHANGED <<chan, cmd, ending, passed, output, late, lost>>
    BY <1>1 DEF Connect, Authenticate, Open, Answered, Send, SendEof, SendFails,
       CollectNone, TimeOut, Read, Write, Silence, clientVars, remoteVars, linkVars
  <2> QED BY <2>1, <1>r, InTransitFrame DEF ChannelInv
<1>2. CASE Exec \/ End
  <2>1. UNCHANGED <<chan, passed, output, late, lost>>
    BY <1>2 DEF Exec, End, clientVars, linkVars
  <2> QED BY <1>2, <1>t, <1>r, <2>1, InTransitEnd DEF ChannelInv
<1>3. CASE Collect
  <2>1. pc' = "collect" /\ lost' = lost
    BY <1>3 DEF Collect, Returned, linkVars
  <2> QED BY <1>3, <1>t, <1>r, <2>1, InTransitCollect DEF ChannelInv
<1>4. CASE Forward
  <2>1. pc # "connect" /\ lost' = lost
    BY <1>4, <1>t, SshAssumption DEF Forward, Deliver, CommandSound, TypeOK
  <2> QED BY <1>4, <1>t, <1>r, <2>1, InTransitForward
<1>5. ASSUME NEW m \in Ended \cup {"eof"}, Report(m)
      PROVE  InTransitSound' /\ (~lost' => NothingMissing')
  <2>1. pc # "connect" /\ lost' = lost
    BY <1>5, <1>t DEF Report, Deliver, CommandSound, Ended
  <2> QED BY <1>5, <1>t, <1>r, <2>1, InTransitReport
<1>6. CASE Drop
  BY <1>6, <1>t, <1>r, InTransitDrop DEF Drop
<1>7. CASE Inactive
  <2>1. UNCHANGED <<chan, cmd, ending, passed, output>> /\ lost'
    BY <1>7 DEF Inactive, clientVars, remoteVars
  <2> QED BY <2>1, <1>r, InTransitFrame
<1> QED
  BY <1>1, <1>2, <1>3, <1>4, <1>5, <1>6, <1>7 DEF Next, ClientStep, RemoteStep

LEMMA NextInv == ChannelInv /\ [Next]_vars => ChannelInv'
<1> SUFFICES ASSUME ChannelInv, [Next]_vars PROVE ChannelInv'
  OBVIOUS
<1>1. CASE Next
  <2>1. TypeOK' /\ CommandSound'
    BY <1>1, ClientType, RemoteType DEF Next
  <2> QED BY <1>1, <2>1, NextInTransit, NextOk DEF ChannelInv
<1>2. CASE UNCHANGED vars
  <2>1. UNCHANGED <<pc, attempt, sent, stdinEof, output, cmd, read, wrote, passed,
                    ending, late, input, product, up, quiet, lost, chan>>
    BY <1>2 DEF vars, clientVars, remoteVars, callVars, linkVars
  <2>2. (TypeOK <=> TypeOK') /\ (CommandSound <=> CommandSound')
        /\ (Returned <=> Returned') /\ (OkIsWhole <=> OkIsWhole')
    BY <2>1 DEF TypeOK, CommandSound, Returned, OkIsWhole, Hidden, Whole
  <2> QED BY <2>1, <2>2, InTransitFrame DEF ChannelInv
<1> QED
  BY <1>1, <1>2

\* The counters of the call, the command and the server agree with what is in
\* transit between them, through lost and quiet connections and timeouts.
THEOREM ChannelInductive == Spec => []ChannelInv
BY InitInv, NextInv, PTL DEF Spec

\* While the connection lasts Ok is only said of a command that ended, with all that
\* it wrote (exec_command, exec_with_stdin, collect_channel_output), in whatever order
\* output, status and EOF arrive.  That the command succeeded and read its input is
\* proved of those that no signal ended and whose status did not come after the EOF.
THEOREM OkIsWholeHolds == Spec => []OkIsWhole
<1>1. ChannelInv => OkIsWhole
  BY DEF ChannelInv
<1> QED
  BY <1>1, ChannelInductive, PTL

(***************************************************************************)
(* The refinement                                                          *)
(***************************************************************************)
\* The refinement mapping, named.
Told == CASE pc = "err" -> "error"
          [] pc = "ok"  -> IF Whole THEN "whole" ELSE "cut"
          [] OTHER      -> "none"

LEMMA InitImplements == Init => Command!Init
BY DEF Init, Command!Init, Hidden

\* A step of the call hides nothing; any other hides something or nothing.
LEMMA ClientHides ==
  ASSUME CommandSound, ClientStep \/ TimeOut
  PROVE  Hidden' <=> Hidden
<1>1. lost' = lost /\ late' = late /\ (cmd' = "killed" <=> cmd = "killed")
  BY DEF ClientStep, Connect, Authenticate, Open, Exec, Send, SendEof, SendFails, Collect,
         CollectNone, TimeOut, Answered, linkVars, remoteVars, CommandSound
<1> QED
  BY <1>1 DEF Hidden

LEMMA RemoteHides ==
  ASSUME RemoteStep \/ Drop \/ Silence \/ Inactive
  PROVE  (Hidden => Hidden') /\ pc' = pc
<1>1. (lost => lost') /\ (late => late') /\ (cmd = "killed" => cmd' = "killed") /\ pc' = pc
  <2>1. CASE Read \/ Write \/ Forward \/ End \/ Drop \/ Silence \/ Inactive
    BY <2>1 DEF Read, Write, Forward, Deliver, End, Drop, Silence, Inactive, linkVars,
                remoteVars, clientVars
  <2>2. ASSUME NEW m \in Ended \cup {"eof"}, Report(m)
        PROVE  lost' = lost /\ (late => late') /\ cmd' = cmd /\ pc' = pc
    BY <2>2 DEF Report, Deliver, clientVars
  <2> QED BY <2>1, <2>2 DEF RemoteStep
<1> QED
  BY <1>1 DEF Hidden

LEMMA StepImplements ==
  ChannelInv /\ ChannelInv' /\ [Next]_vars => [Command!Next]_(Command!execVars)
<1> SUFFICES ASSUME ChannelInv, ChannelInv', [Next]_vars
             PROVE  [Command!Next]_(Command!execVars)
  OBVIOUS
<1>h. Hidden \in BOOLEAN /\ Hidden' \in BOOLEAN
  BY DEF Hidden, ChannelInv, TypeOK
<1>a. (Hidden' = TRUE /\ Told' = Told) => Command!Next
  BY DEF Told, Command!Next, Command!Hide
<1>b. /\ Told = "none"
      /\ Told' \in {"whole", "error"} \cup (IF Hidden THEN {"cut"} ELSE {})
      /\ Hidden' = Hidden
      => Command!Next
  BY DEF Told, Command!Next, Command!Return
<1>c. Told = "cut" /\ Told' = "whole" /\ Hidden' = Hidden => Command!Next
  BY DEF Told, Command!Next, Command!Settle
<1>d. Told' = Told /\ Hidden' = Hidden => UNCHANGED Command!execVars
  BY DEF Told, Command!execVars
<1>t. TypeOK /\ CommandSound /\ OkIsWhole /\ OkIsWhole' /\ pc \in PC /\ pc' \in PC
  BY DEF ChannelInv, TypeOK
<1>1. CASE pc = "ok" /\ Next
  <2>1. pc' = "ok" /\ (Hidden => Hidden') /\ (Whole => Whole')
    BY <1>1, <1>t, WholeStays
  <2>2. CASE Whole' <=> Whole
    <3>1. Told' = Told
      BY <1>1, <2>1, <2>2 DEF Told
    <3> QED BY <3>1, <2>1, <1>h, <1>a, <1>d
  <2>3. CASE ~(Whole' <=> Whole)
    <3>1. Told = "cut" /\ Told' = "whole" /\ Hidden
      BY <1>1, <1>t, <2>1, <2>3 DEF Told, OkIsWhole, Hidden
    <3> QED BY <3>1, <2>1, <1>h, <1>c
  <2> QED BY <2>2, <2>3
<1>2. CASE pc # "ok" /\ (RemoteStep \/ Drop \/ Silence \/ Inactive)
  <2>1. Told' = Told /\ (Hidden => Hidden')
    BY <1>2, RemoteHides DEF Told
  <2> QED BY <2>1, <1>h, <1>a, <1>d
<1>3. CASE pc # "ok" /\ (ClientStep \/ TimeOut)
  <2>1. Hidden' = Hidden
    BY <1>3, <1>t, <1>h, ClientHides
  <2>2. CASE pc' = "ok"
    <3>1. Told = "none"
      BY <1>3, <2>2 DEF Told, ClientStep, Connect, Authenticate, Open, Exec, Send, SendEof,
         SendFails, Collect, CollectNone, TimeOut, GiveUp
    <3>2. Told' = IF Whole' THEN "whole" ELSE "cut"
      BY <2>2 DEF Told
    <3>3. Whole' \/ Hidden
      BY <1>t, <2>1, <2>2 DEF OkIsWhole, Hidden
    <3> QED BY <3>1, <3>2, <3>3, <2>1, <1>b
  <2>3. CASE pc' = "err" /\ pc # "err"
    <3>1. Told = "none" /\ Told' = "error"
      BY <1>3, <2>3 DEF Told
    <3> QED BY <3>1, <2>1, <1>b
  <2>4. CASE pc' # "ok" /\ (pc' = "err" => pc = "err")
    <3>1. pc = "err" => pc' = "err"
      BY <1>3 DEF ClientStep, Connect, Authenticate, Open, Exec, Send, SendEof,
         SendFails, Collect, CollectNone, TimeOut, GiveUp
    <3>2. Told' = Told
      BY <1>3, <2>4, <3>1 DEF Told
    <3> QED BY <3>2, <2>1, <1>d
  <2> QED BY <2>2, <2>3, <2>4
<1>4. CASE UNCHANGED vars
  <2>1. Told' = Told /\ Hidden' = Hidden
    BY <1>4 DEF Told, Hidden, Whole, vars, clientVars, remoteVars, callVars, linkVars
  <2> QED BY <2>1, <1>d
<1> QED
  BY <1>1, <1>2, <1>3, <1>4 DEF Next

\* Step by step a call on the connection is what RemoteExec says: it answers once,
\* with a failure, with the whole result, or, after a hidden failure, with less.
THEOREM CommandImplemented == Spec => Command!Spec
BY InitImplements, StepImplements, ChannelInductive, PTL DEF Spec, Command!Spec
================================================================================
