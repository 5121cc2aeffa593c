------------------------------ MODULE SshChannel ------------------------------
(***************************************************************************)
(* accroitre adapters::ssh: one connection and one command on it, from     *)
(* SshAdapter::connect to what exec_command or exec_with_stdin returns.    *)
(*                                                                         *)
(* Three parties: the client (this program), the remote command, and the   *)
(* SSH server between them, which forwards the command's output and then   *)
(* its exit status and an EOF, in either order: OpenSSH sends EOF when the *)
(* output is closed and the status when the process is reaped; the test    *)
(* server (testkit/ssh_server.rs) always sends the status first.           *)
(*                                                                         *)
(* Data are counted in pieces.  `chan` is what the server has sent and the *)
(* client has not looked at; it may be cut short when the connection goes. *)
(***************************************************************************)
EXTENDS Naturals, Sequences

CONSTANTS
  MaxInput,    \* bound: pieces of standard input
  MaxOutput,   \* bound: pieces of output
  Window,      \* pieces the channel takes before the command reads them
  MAX_AUTH_RETRIES,
  Faults       \* what may go wrong

FaultKinds == {"connect", "auth", "open", "fail", "signal", "drop", "quiet"}

ASSUME SshAssumption ==
  /\ MaxInput \in Nat /\ MaxOutput \in Nat
  /\ Window \in Nat \ {0} /\ MAX_AUTH_RETRIES \in Nat \ {0}
  /\ Faults \subseteq FaultKinds

VARIABLES
  pc,        \* where the client is
  attempt,   \* authentication attempts made
  input,     \* pieces exec_with_stdin has to send, 0 for exec_command
  product,   \* pieces the command writes when it succeeds
  sent,      \* pieces sent
  stdinEof,  \* channel.eof() was sent
  up,        \* the connection works
  quiet,     \* nothing came from the server for connect_timeout
  cmd,       \* the remote command: absent, running, or how it ended
  read, wrote,  \* pieces the command consumed and produced
  passed,    \* pieces of output the server forwarded
  ending,    \* messages the server still owes about the end of the command
  chan,      \* messages for the client
  output,    \* pieces collected
  lost,      \* history: the connection went before the call returned
  late       \* history: EOF was sent before the status of a failed command

clientVars == <<pc, attempt, sent, stdinEof, output>>
remoteVars == <<cmd, read, wrote, passed, ending, late>>
callVars   == <<input, product>>
linkVars   == <<up, quiet, lost>>
vars == <<clientVars, remoteVars, callVars, linkVars, chan>>

PC == {"connect", "auth", "open", "exec", "send", "collect", "ok", "err"}
Ended == {"success", "failure", "killed"}
Msg == {"data", "success", "failure", "killed", "eof", "close"}

Returned == pc \in {"ok", "err"}

TypeOK ==
  /\ pc \in PC
  /\ attempt \in 0..MAX_AUTH_RETRIES
  /\ input \in 0..MaxInput /\ product \in 0..MaxOutput
  /\ sent \in 0..input /\ stdinEof \in BOOLEAN
  /\ up \in BOOLEAN /\ quiet \in BOOLEAN
  /\ cmd \in {"absent", "running"} \cup Ended
  /\ read \in 0..sent /\ wrote \in 0..product
  /\ passed \in 0..wrote /\ output \in 0..passed
  /\ ending \subseteq Ended \cup {"eof"}
  /\ chan \in Seq(Msg)
  /\ lost \in BOOLEAN /\ late \in BOOLEAN

Init ==
  /\ pc = "connect" /\ attempt = 0
  /\ input \in 0..MaxInput /\ product \in 0..MaxOutput
  /\ sent = 0 /\ stdinEof = FALSE
  /\ up = FALSE /\ quiet = FALSE
  /\ cmd = "absent" /\ read = 0 /\ wrote = 0 /\ passed = 0 /\ ending = {}
  /\ chan = <<>> /\ output = 0
  /\ lost = FALSE /\ late = FALSE

-----------------------------------------------------------------------------
(* Connecting                                                               *)

GiveUp == pc' = "err"

\* connect: the TCP connection and the key exchange, under connect_timeout.
Connect ==
  /\ pc = "connect"
  /\ \/ up' = TRUE /\ pc' = "auth"
     \/ "connect" \in Faults /\ GiveUp /\ UNCHANGED up
  /\ UNCHANGED <<attempt, sent, stdinEof, output, remoteVars, callVars, quiet, lost,
                 chan>>

\* The server answers, or the connection is gone and the request fails by itself.
Answered == quiet' = FALSE /\ UNCHANGED <<up, lost>>

\* authenticate: a rejected attempt and one that fails count the same.
Authenticate ==
  /\ pc = "auth"
  /\ \/ up /\ pc' = "open" /\ UNCHANGED attempt
     \/ /\ "auth" \in Faults \/ ~up
        /\ attempt' = attempt + 1
        /\ pc' = IF attempt' = MAX_AUTH_RETRIES THEN "err" ELSE "auth"
  /\ Answered
  /\ UNCHANGED <<sent, stdinEof, output, remoteVars, callVars, chan>>

-----------------------------------------------------------------------------
(* Calling                                                                  *)

\* channel_open_session
Open ==
  /\ pc = "open"
  /\ \/ up /\ pc' = "exec"
     \/ ("open" \in Faults \/ ~up) /\ GiveUp
  /\ Answered
  /\ UNCHANGED <<attempt, sent, stdinEof, output, remoteVars, callVars, chan>>

\* channel.exec: the request is sent, its answer, perhaps a refusal, not awaited.
Exec ==
  /\ pc = "exec"
  /\ IF up
     THEN /\ pc' = IF input > 0 THEN "send" ELSE "collect"
          /\ cmd' = "running" \/ ("open" \in Faults /\ UNCHANGED cmd)
     ELSE GiveUp /\ UNCHANGED cmd
  /\ UNCHANGED <<attempt, sent, stdinEof, output, read, wrote, passed, ending,
                 late,
                 callVars, linkVars, chan>>

\* channel.data: one more piece, as the window allows.
Send ==
  /\ pc = "send" /\ up
  /\ sent < input
  /\ sent - read < Window \/ cmd \in Ended
  /\ sent' = sent + 1
  /\ UNCHANGED <<pc, attempt, stdinEof, output, remoteVars, callVars, linkVars, chan>>

\* channel.eof
SendEof ==
  /\ pc = "send" /\ up
  /\ sent = input
  /\ stdinEof' = TRUE
  /\ pc' = "collect"
  /\ UNCHANGED <<attempt, sent, output, remoteVars, callVars, linkVars, chan>>

SendFails ==
  /\ pc = "send" /\ ~up
  /\ GiveUp
  /\ UNCHANGED <<attempt, sent, stdinEof, output, remoteVars, callVars, linkVars, chan>>

\* Mutant: the loop over channel messages forgets the exit status.
CollectNoStatus ==
  /\ pc = "collect" /\ chan # <<>>
  /\ chan' = Tail(chan)
  /\ output' = IF Head(chan) = "data" THEN output + 1 ELSE output
  /\ pc' = IF Head(chan) \in {"eof", "close"} THEN "ok" ELSE "collect"
  /\ UNCHANGED <<attempt, sent, stdinEof, remoteVars, callVars, linkVars>>

\* Mutant: any message is taken for output and ends the loop; only the status of a
\* failed command is an error.
CollectShort ==
  /\ pc = "collect" /\ chan # <<>>
  /\ chan' = Tail(chan)
  /\ output' = output + 1
  /\ pc' = IF Head(chan) = "failure" THEN "err" ELSE "ok"
  /\ UNCHANGED <<attempt, sent, stdinEof, remoteVars, callVars, linkVars>>

\* collect_channel_output, one message.  A signal is none of the messages the
\* code names.
Collect ==
  /\ pc = "collect" /\ chan # <<>>
  /\ chan' = Tail(chan)
  /\ output' = IF Head(chan) = "data" THEN output + 1 ELSE output
  /\ pc' = CASE Head(chan) \in {"eof", "close"} -> "ok"
             [] Head(chan) = "failure"          -> "err"
             [] OTHER                           -> "collect"
  /\ UNCHANGED <<attempt, sent, stdinEof, remoteVars, callVars, linkVars>>

\* channel.wait() returns None when the connection is gone: the loop ends as
\* if the command had.
CollectNone ==
  /\ pc = "collect" /\ chan = <<>> /\ ~up
  /\ pc' = "ok"
  /\ UNCHANGED <<attempt, sent, stdinEof, output, remoteVars, callVars, linkVars, chan>>

\* command_timeout: the call fails, whatever the command does.
TimeOut ==
  /\ pc = "collect"
  /\ pc' = "err"
  /\ UNCHANGED <<attempt, sent, stdinEof, output, remoteVars, callVars, linkVars, chan>>

-----------------------------------------------------------------------------
(* The remote side                                                          *)

\* The command reads a piece of its input.
Read ==
  /\ cmd = "running" /\ read < sent
  /\ read' = read + 1
  /\ UNCHANGED <<clientVars, cmd, wrote, passed, ending, late, callVars, linkVars, chan>>

\* It writes a piece of output.
Write ==
  /\ cmd = "running" /\ wrote < product
  /\ wrote' = wrote + 1
  /\ UNCHANGED <<clientVars, cmd, read, passed, ending, late, callVars, linkVars,
                 chan>>

\* What the server sends breaks its silence, and is lost when the connection is.
Deliver(ms) ==
  /\ IF up THEN chan' = chan \o ms /\ quiet' = FALSE ELSE UNCHANGED <<chan, quiet>>
  /\ UNCHANGED <<up, lost>>

Forward ==
  /\ passed < wrote
  /\ passed' = passed + 1
  /\ Deliver(<<"data">>)
  /\ UNCHANGED <<clientVars, cmd, read, wrote, ending, late, callVars>>

\* It ends: well, after all its input and output; or badly, at any time.
End ==
  /\ cmd = "running"
  /\ \/ /\ read = input /\ wrote = product
        /\ input > 0 => stdinEof
        /\ cmd' = "success"
     \/ "fail" \in Faults /\ cmd' = "failure"
     \/ "signal" \in Faults /\ cmd' = "killed"
  /\ ending' = {cmd', "eof"}
  /\ UNCHANGED <<clientVars, read, wrote, passed, late, callVars, linkVars, chan>>

\* The server reports the end, EOF after all the output, and closes the channel.
Report(m) ==
  /\ m \in ending
  /\ m = "eof" => passed = wrote
  /\ ending' = ending \ {m}
  /\ Deliver(IF ending' = {} THEN <<m, "close">> ELSE <<m>>)
  /\ late' = (late \/ (m = "eof" /\ "failure" \in ending))
  /\ UNCHANGED <<clientVars, cmd, read, wrote, passed, callVars>>

\* The connection breaks, and takes with it some of what is under way.
Drop ==
  /\ "drop" \in Faults
  /\ up /\ ~Returned
  /\ up' = FALSE /\ lost' = TRUE
  /\ \E n \in 0..Len(chan) : chan' = SubSeq(chan, 1, n)
  /\ UNCHANGED <<clientVars, remoteVars, callVars, quiet>>

\* For connect_timeout nothing comes, perhaps because the command is at work.
Silence ==
  /\ "quiet" \in Faults
  /\ up /\ ~quiet /\ ~Returned
  /\ quiet' = TRUE
  /\ UNCHANGED <<clientVars, remoteVars, callVars, up, lost, chan>>

\* Mutant: the connection is watched only while output is awaited.
InactiveCollecting ==
  /\ up /\ quiet /\ pc = "collect"
  /\ up' = FALSE /\ lost' = TRUE
  /\ UNCHANGED <<clientVars, remoteVars, callVars, quiet, chan>>

\* inactivity_timeout: the session ends.  What was received before stays.
Inactive ==
  /\ up /\ quiet /\ ~Returned
  /\ up' = FALSE /\ lost' = TRUE
  /\ UNCHANGED <<clientVars, remoteVars, callVars, quiet, chan>>

ClientStep ==
  \/ Connect \/ Authenticate \/ Open \/ Exec \/ Send \/ SendEof \/ SendFails
  \/ Collect \/ CollectNone

RemoteStep ==
  Read \/ Write \/ Forward \/ End \/ \E m \in Ended \cup {"eof"} : Report(m)

Next == ClientStep \/ TimeOut \/ RemoteStep \/ Drop \/ Silence \/ Inactive

Spec == Init /\ [][Next]_vars

\* The client runs when it can, time passes and the two timers fire; nothing is owed
\* by the remote command.
FairSpec == /\ Spec
            /\ WF_vars(ClientStep) /\ WF_vars(TimeOut)
            /\ WF_vars(Silence) /\ WF_vars(Inactive)
-----------------------------------------------------------------------------
(* Properties                                                               *)

\* A failure was hidden from the client: the connection was lost, a signal ended
\* the command, or the status of a failed command came after its EOF.
Hidden == lost \/ cmd = "killed" \/ late

\* The command did all that was asked of it and the client has all it wrote.
Whole == cmd = "success" /\ read = input /\ output = product

\* While the connection lasts exec_command and exec_with_stdin return Ok only when
\* the command has ended and with all that it wrote, whatever the order of output,
\* status and EOF; and it has read its input and succeeded, unless a signal ended it
\* or its status came too late.
OkIsWhole ==
  pc = "ok" /\ ~lost =>
    /\ cmd \in Ended /\ output = wrote
    /\ ~Hidden => Whole

\* What the rest of the program may assume of a call is RemoteExec: it returns,
\* also when the command never ends (writing the input has no timeout of its own
\* and relies on the connection's), and what it returned is a failure, the whole
\* result, or, after a hidden failure, less.
Command == INSTANCE RemoteExec
          WITH result <- CASE pc = "err" -> "error"
                           [] pc = "ok"  -> IF Whole THEN "whole" ELSE "cut"
                           [] OTHER      -> "none",
               hidden <- Hidden

CallImplements == Command!FairSpec
-----------------------------------------------------------------------------
(* The inductive invariant                                                  *)

\* The command's counters agree with how far the call and the command are.
CommandSound ==
  /\ pc \in {"connect", "auth"} => attempt < MAX_AUTH_RETRIES
  /\ pc \in {"connect", "auth", "open", "exec"} => cmd = "absent"
  /\ cmd = "absent" => wrote = 0 /\ output = 0 /\ chan = <<>>
  /\ cmd = "success" => read = input /\ wrote = product
  /\ ending \subseteq IF cmd \in Ended THEN {cmd, "eof"} ELSE {}
  /\ cmd \in Ended /\ "eof" \notin ending => passed = wrote
  /\ pc \notin {"connect", "err"} /\ ~lost => up

At(m) == {i \in 1..Len(chan) : chan[i] = m}

\* Pieces of output among the first i messages: all but an exit status, when
\* they do not reach the EOF.
Pieces(i)    == IF \E j \in 1..i : chan[j] \in Ended THEN i - 1 ELSE i
BeforeEof(i) == \A j \in 1..i : chan[j] \notin {"eof", "close"}

\* What the client has not looked at: one status at most, no output after the
\* EOF, nothing that was not sent.
InTransitSound ==
  /\ \A i \in 1..Len(chan) : chan[i] \in Ended =>
       /\ chan[i] = cmd /\ cmd \notin ending
       /\ At(cmd) = {i}
  /\ \A i \in At("eof") : /\ cmd \in Ended /\ "eof" \notin ending
                          /\ \A j \in At("data") : j < i
                          /\ \A j \in At("close") : i < j
  /\ At("close") # {} => cmd \in Ended /\ ending = {}
  /\ \A i \in 0..Len(chan) : BeforeEof(i) => Pieces(i) <= passed - output

\* While the connection lasts nothing that was sent is missing, and an EOF that
\* overtook the status of a failed command has been noted.
NothingMissing ==
  /\ At("eof") = {} => BeforeEof(Len(chan)) /\ Pieces(Len(chan)) = passed - output
  /\ \A i \in At("eof") : BeforeEof(i - 1) /\ Pieces(i - 1) = passed - output
  /\ cmd \in Ended /\ "eof" \notin ending => At("eof") # {}
  /\ cmd = "failure" /\ cmd \notin ending => At(cmd) # {}
  /\ cmd = "failure" /\ ~late => \A i \in At("eof") : \E j \in At(cmd) : j < i

ChannelInv ==
  /\ TypeOK
  /\ CommandSound
  /\ ~Returned => InTransitSound
  /\ ~Returned /\ ~lost => NothingMissing
  /\ OkIsWhole
==============================================================================
