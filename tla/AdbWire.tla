------------------------------ MODULE AdbWire ------------------------------
(***************************************************************************)
(* The ADB line, in microseconds: the adapter as the host (AdbHost's       *)
(* send_command, send_register16 and receive_register16), adapters as the  *)
(* devices (ReceiveCommand, Send16bitRegister, Receive16bitRegister and    *)
(* the collision interrupt) and adbmon, which listens.                     *)
(*                                                                         *)
(* The line is low while anyone drives it low.  Who drives it follows a    *)
(* plan, a sequence of levels and how long each is held; who listens is in *)
(* a stage, a wait for a level that is to last a time within a window.     *)
(* Time passes from one event to the next; a delay may last longer and an  *)
(* edge be seen later than the code asks for, by Jitter and by Late.       *)
(***************************************************************************)
EXTENDS Integers, Sequences, SequencesExt, FiniteSetsExt

CONSTANTS
  Device,     (* the adapters in device mode                                *)
  host,       (* the adapter in host mode                                   *)
  monitor,    (* adbmon                                                     *)
  AddressOf,  (* the address of each device                                 *)
  Address,    (* the addresses the host uses, sequences of AddressBits bits *)
  AddressBits, WordBits,  (* the bits of an address (4) and a register (16) *)
  Kind,       (* what the host does: "talk", "listen", "reset"              *)
  Word,       (* the registers sent, sequences of WordBits bits             *)
  Extra,      (* of each sender, the values of rand() % 101 explored        *)
  Requesting, (* the devices that may request service                       *)
  Unplugs,    (* a device may be unplugged while it answers                 *)
  Jitter,     (* how much longer a delay may last                           *)
  Late        (* how much later an edge may be seen                         *)

Sender == Device \cup {host}
Listener == Device \cup {monitor}
Node == Sender \cup Listener

ASSUME WireAssumption ==
  /\ host \notin Listener /\ monitor \notin Sender
  /\ AddressBits \in Nat \ {0} /\ WordBits \in Nat \ {0}
  /\ Address \subseteq [1 .. AddressBits -> {0, 1}]
  /\ AddressOf \in [Device -> Address]
  /\ Kind \subseteq {"talk", "listen", "reset"}
  /\ Word \subseteq [1 .. WordBits -> {0, 1}]
  /\ Extra \in [Sender -> SUBSET (0 .. 100)]
  /\ Requesting \subseteq Device /\ Unplugs \in BOOLEAN
  /\ Jitter \subseteq Nat /\ Late \subseteq Nat

VARIABLES
  out,        (* the level each sender puts on the line                     *)
  plan,       (* the levels each sender has still to drive, with their times *)
  left,       (* how long each sender still holds the present one           *)
  stage,      (* what each node is doing                                    *)
  timer,      (* how long each listener has waited in its stage             *)
  lo,         (* the low time of the bit cell being received                *)
  bits,       (* the bits received                                          *)
  command,    (* of each node the command it has sent or received           *)
  result,     (* of each node what its last receive function returned       *)
  edge,       (* the line fell: the interrupt of a sending device is due    *)
  adb_collision,
  kind,       (* what the host is doing                                     *)
  said,       (* the register each sender is sending, or last sent, and     *)
              (* whether its random delay was short enough (history)        *)
  outcome,    (* of each sender: "none", "sent", "lost" or "gone"           *)
  stretched,  (* history: a device has stretched the stop bit               *)
  srq         (* the flag in adbmon's frame                                 *)

drive_vars == <<out, plan, left>>
wait_vars == <<timer, lo, bits>>
heard_vars == <<command, result, srq>>
vars == <<drive_vars, stage, wait_vars, heard_vars, edge, adb_collision, kind, said, outcome,
          stretched>>

NoWord == [word |-> <<>>, prompt |-> TRUE]
Silence == 0
Nothing == -1
ResetSeen == -100

Init ==
  /\ out = [p \in Sender |-> 1]
  /\ plan = [p \in Sender |-> <<>>]
  /\ left = [p \in Sender |-> 0]
  /\ stage = [p \in Node |-> IF p = host THEN "rest" ELSE "idle"]
  /\ timer = [p \in Node |-> 0]
  /\ lo = [p \in Node |-> 0]
  /\ bits = [p \in Node |-> <<>>]
  /\ command = [p \in Node |-> <<>>]
  /\ result = [p \in Node |-> Nothing]
  /\ edge = [d \in Device |-> FALSE]
  /\ adb_collision = [d \in Device |-> FALSE]
  /\ kind = "none"
  /\ said = [p \in Sender |-> NoWord]
  /\ outcome = [p \in Sender |-> "none"]
  /\ stretched = FALSE
  /\ srq = FALSE

LineOf(levels) == IF \E p \in Sender : levels[p] = 0 THEN 0 ELSE 1
Line == LineOf(out)

(* ------------------------------- driving ------------------------------- *)

place_bit0 == << <<0, 65>>, <<1, 35>> >>
place_bit1 == << <<0, 35>>, <<1, 65>> >>
send_bits(b) == FlattenSeq([i \in DOMAIN b |-> IF b[i] = 1 THEN place_bit1 ELSE place_bit0])

send_command(cmd) == << <<0, 765>> >> \o place_bit1 \o send_bits(cmd) \o place_bit0
\* Mutant: the shortest reset a device takes for one is half as long.
ShortReset == << <<0, 1500>>, <<1, 0>> >>
global_reset == << <<0, 3000>>, <<1, 0>> >>
\* Mutant: the time from stop to start is the extra alone.
SendAtOnce(word, extra) ==
  << <<1, 40 + extra>> >> \o place_bit1 \o send_bits(word) \o place_bit0
Send16bitRegister(word, extra) ==
  << <<1, 140 + extra>> >> \o place_bit1 \o send_bits(word) \o place_bit0
\* After the stop bit of its own command a host that takes this extra, and
\* jitter in both delays, still begins within the window of a receiver.
Prompt(extra) == 35 + 140 + extra + 2 * (1 + Max(Jitter)) <= 260
\* ReceiveCommand with a request for service
Stretch == << <<0, 250>>, <<1, 0>> >>

\* adb_delay_us: at least one microsecond more than asked for; a level may be
\* set for no time at all.
adb_delay_us(us) == IF us = 0 THEN {0} ELSE {us + 1 + j : j \in Jitter}

\* The commands of a host: an address, the operation, the register (here one).
CommandBits(k, a) == a \o (IF k = "talk" THEN <<1, 1>> ELSE <<1, 0>>)
IsTalk(cmd) == cmd[AddressBits + 2] = 1
AddressIn(cmd) == SubSeq(cmd, 1, AddressBits)

Driving(p) == stage[p] \in {"command", "send", "stretch"}

\* The next level of a plan; when it makes the line fall the interrupt of every
\* device that is sending is due.
Drive(p) ==
  /\ Driving(p) /\ left[p] = 0 /\ plan[p] # <<>>
  /\ p \in Device => ~adb_collision[p]
  /\ out' = [out EXCEPT ![p] = Head(plan[p])[1]]
  /\ \E us \in adb_delay_us(Head(plan[p])[2]) : left' = [left EXCEPT ![p] = us]
  /\ plan' = [plan EXCEPT ![p] = Tail(@)]
  /\ edge' = [d \in Device |-> edge[d] \/ (stage[d] = "send" /\ Line = 1 /\ LineOf(out') = 0)]
  /\ UNCHANGED <<stage, wait_vars, heard_vars, adb_collision, kind, said, outcome, stretched>>

\* Mutant: the interrupt is not enabled.
NothingCollides(d) == FALSE
\* adb_in_irq_callback: the line is low and our own pin is high
Collides(d) == out[d] = 1 /\ Line = 0

Interrupt(d) ==
  /\ edge[d]
  /\ edge' = [edge EXCEPT ![d] = FALSE]
  /\ adb_collision' = [adb_collision EXCEPT ![d] = @ \/ (stage[d] = "send" /\ Collides(d))]
  /\ UNCHANGED <<drive_vars, stage, wait_vars, heard_vars, kind, said, outcome, stretched>>

\* ResetCollision: the interrupt is disabled and acknowledged, the flag cleared.
ResetCollision(p) ==
  /\ edge' = [d \in Device |-> edge[d] /\ d # p]
  /\ adb_collision' = [d \in Device |-> adb_collision[d] /\ d # p]

\* A sender has come to the end of its plan, or gives it up and lets go.
Leave(p, how) ==
  /\ stage' = [stage EXCEPT ![p] = IF p = host THEN "rest" ELSE "busy"]
  /\ outcome' = [outcome EXCEPT ![p] = how]
  /\ out' = [out EXCEPT ![p] = 1]
  /\ plan' = [plan EXCEPT ![p] = <<>>]
  /\ left' = [left EXCEPT ![p] = 0]
  /\ ResetCollision(p)
  /\ UNCHANGED <<wait_vars, heard_vars, kind, said, stretched>>

\* Send16bitRegister returns true
Sent(p) ==
  /\ stage[p] = "send" /\ left[p] = 0 /\ plan[p] = <<>>
  /\ p \in Device => ~adb_collision[p]
  /\ Leave(p, "sent")

\* It returns false: after a collision every delay ends at once.
Aborted(d) ==
  /\ stage[d] = "send" /\ adb_collision[d]
  /\ Leave(d, "lost")

\* The user pulls the plug of a device that is sending.
Unplugged(d) ==
  /\ Unplugs
  /\ stage[d] = "send" /\ left[d] = 0 /\ plan[d] # <<>>
  /\ Leave(d, "gone")

\* Begin to send a register: its first level is high, as the line is left.
Begin(p, word, extra) ==
  /\ plan' = [plan EXCEPT ![p] = Send16bitRegister(word, extra)]
  /\ said' = [said EXCEPT ![p] = [word |-> word, prompt |-> Prompt(extra)]]
  /\ stage' = [stage EXCEPT ![p] = "send"]

(* -------------------------------- the host ----------------------------- *)

Quiet == Line = 1 /\ \A p \in Listener : stage[p] = "idle"
Rested == stage[host] = "rest" /\ Quiet

\* A new transaction, milliseconds after the last one; what was measured and
\* received in its calls is gone with them.
Start(k, a) ==
  /\ Rested
  /\ kind' = k
  /\ command' = [p \in Node |-> IF p = host /\ k # "reset" THEN CommandBits(k, a) ELSE <<>>]
  /\ plan' = [plan EXCEPT ![host] = IF k = "reset" THEN global_reset ELSE send_command(CommandBits(k, a))]
  /\ stage' = [stage EXCEPT ![host] = "command"]
  /\ result' = [p \in Node |-> Nothing]
  /\ said' = [p \in Sender |-> NoWord]
  /\ outcome' = [p \in Sender |-> "none"]
  /\ stretched' = FALSE
  /\ srq' = FALSE
  /\ timer' = [timer EXCEPT ![host] = 0]
  /\ lo' = [p \in Node |-> 0] /\ bits' = [p \in Node |-> <<>>]
  /\ UNCHANGED <<out, left, edge, adb_collision>>

HostDone == stage[host] = "command" /\ left[host] = 0 /\ plan[host] = <<>>

\* talk: send_command returns, then receive_register16
Talk ==
  /\ HostDone /\ kind = "talk"
  /\ stage' = [stage EXCEPT ![host] = "release"]
  /\ UNCHANGED <<drive_vars, wait_vars, heard_vars, edge, adb_collision, kind, said, outcome,
                 stretched>>

\* listen: send_register16, whatever is on the line
Listen ==
  /\ HostDone /\ kind = "listen"
  /\ \E word \in Word, extra \in Extra[host] : Begin(host, word, extra)
  /\ UNCHANGED <<out, left, wait_vars, heard_vars, edge, adb_collision, kind, outcome, stretched>>

Reset ==
  /\ HostDone /\ kind = "reset"
  /\ stage' = [stage EXCEPT ![host] = "rest"]
  /\ UNCHANGED <<drive_vars, wait_vars, heard_vars, edge, adb_collision, kind, said, outcome,
                 stretched>>

(* ------------------------------ listening ------------------------------ *)

\* The waits of the receive functions: for which level, how long at most, and
\* the times that are accepted.
Window ==
  [attention  |-> [level |-> 1, limit |-> 4000, from |-> 500, to |-> 1040],
   sync       |-> [level |-> 0, limit |->  150, from |->  40, to |->   95],
   low        |-> [level |-> 1, limit |->  130, from |->   1, to |->  131],
   high       |-> [level |-> 0, limit |->  100, from |->   1, to |->  100],
   stop       |-> [level |-> 1, limit |->  400, from |->   0, to |->  400],
   gap        |-> [level |-> 0, limit |-> 1000, from |-> 140, to |->  260],
   startLow   |-> [level |-> 1, limit |->  130, from |->  18, to |->   55],
   startHigh  |-> [level |-> 0, limit |->  130, from |->  40, to |->   90],
   end        |-> [level |-> 1, limit |->  130, from |->   1, to |->   85],
   release    |-> [level |-> 1, limit |->  500, from |->   0, to |->  500],
   silence    |-> [level |-> 0, limit |->  500, from |->   0, to |->  500]]

\* Between commands a listener waits for a falling edge without a limit.
Waiting(p) == stage[p] \in DOMAIN Window \cup {"busy", "idle"}
Timed(p) == stage[p] \in DOMAIN Window
Level(p) == IF Timed(p) THEN Window[stage[p]].level ELSE IF stage[p] = "busy" THEN 1 ELSE 0

\* The next stage when the time was right, but at the end of a bit or a frame.
Following ==
  [busy |-> "idle", idle |-> "attention", attention |-> "sync", sync |-> "low", low |-> "high",
   stop |-> "obey", release |-> "silence", silence |-> "startLow", gap |-> "startLow",
   startLow |-> "startHigh", startHigh |-> "low"]

\* A listener is in a command until it has one; the host only gets registers.
InCommand(p) == p # host /\ command[p] = <<>>

\* decode_bit and the loops of ReceiveCommand and Receive16bitRegister
CellAccepted(p, cell) ==
  IF p \in Device /\ ~InCommand(p) THEN cell \in 68 .. 132 ELSE cell \in 70 .. 130
BitOf(low, high) == IF low * 100 < 50 * (low + high) THEN 1 ELSE 0

ValueOf(b) == FoldLeft(LAMBDA value, bit : 2 * value + bit, 0, b)

\* Back to waiting for a command, or for the next transaction.
Return(p) == stage' = [stage EXCEPT ![p] = IF p = host THEN "rest" ELSE "busy"]
Answer(p, value) == Return(p) /\ result' = [result EXCEPT ![p] = value]

Error == [gap |-> -1, startLow |-> -2, startHigh |-> -3, low |-> -5, high |-> -5, end |-> -4]

\* A time out of its window: an error of the register, or no command.  A low
\* of 2800 us is a reset; adbmon, other than a device, wants to see its end.
Reject(p, t) ==
  /\ CASE stage[p] = "attention" /\ t >= 2800 /\ (p = monitor => Line = 1) -> Answer(p, ResetSeen)
       [] stage[p] \in DOMAIN Error /\ ~InCommand(p) -> Answer(p, Error[stage[p]])
       [] OTHER -> Return(p) /\ UNCHANGED result
  /\ UNCHANGED <<drive_vars, lo, bits, command, srq, stretched>>

\* The last bit of a command: a device that requests service stretches the stop
\* bit, everyone else waits for its end.
Received(p, cmd) ==
  /\ command' = [command EXCEPT ![p] = cmd]
  /\ \/ /\ stage' = [stage EXCEPT ![p] = "stop"]
        /\ UNCHANGED <<plan, stretched>>
     \/ /\ p \in Requesting
        /\ stage' = [stage EXCEPT ![p] = "stretch"]
        /\ plan' = [plan EXCEPT ![p] = Stretch]
        /\ stretched' = TRUE
  /\ UNCHANGED <<out, left, lo, bits, result, srq>>

BitReceived(p, t) ==
  LET b == Append(bits[p], BitOf(lo[p], t)) IN
  IF ~CellAccepted(p, lo[p] + t) THEN Reject(p, t)
  ELSE IF InCommand(p) /\ Len(b) = AddressBits + 2 THEN Received(p, b)
  ELSE /\ bits' = [bits EXCEPT ![p] = b]
       /\ stage' = [stage EXCEPT ![p] = IF ~InCommand(p) /\ Len(b) = WordBits THEN "end" ELSE "low"]
       /\ UNCHANGED <<drive_vars, lo, command, result, srq, stretched>>

\* Mutant: a bit 0 for a stop bit is taken for a request.
RequestsSoon(t) == t >= 60
RequestsService(t) == t >= 120

\* A time within its window, but at the end of a bit.
Accept(p, t) ==
  /\ stage[p] # "high"
  /\ lo' = IF stage[p] = "low" THEN [lo EXCEPT ![p] = t] ELSE lo
  /\ bits' = IF stage[p] \in {"sync", "startHigh"} THEN [bits EXCEPT ![p] = <<>>] ELSE bits
  /\ srq' = IF p = monitor /\ stage[p] = "stop" THEN RequestsService(t) ELSE srq
  /\ IF stage[p] = "end" THEN Answer(p, ValueOf(bits[p]))
     ELSE stage' = [stage EXCEPT ![p] = Following[stage[p]]] /\ UNCHANGED result
  /\ UNCHANGED <<drive_vars, command, stretched>>

\* Mutant: the host waits for the answer for ever.
NoSilence(p) == Timed(p) /\ stage[p] # "silence" /\ timer[p] > Window[stage[p]].limit
TimedOut(p) == Timed(p) /\ timer[p] > Window[stage[p]].limit

\* The level waited for is there.
See(p) == \E late \in Late :
  LET t == Max({timer[p] + late, 0}) IN
  /\ Waiting(p) /\ Line = Level(p)
  /\ timer' = [timer EXCEPT ![p] = 0 - late]
  /\ IF Timed(p) /\ t \notin Window[stage[p]].from .. Window[stage[p]].to THEN Reject(p, t)
     ELSE Accept(p, t) \/ (stage[p] = "high" /\ BitReceived(p, t))
  /\ UNCHANGED <<edge, adb_collision, kind, said, outcome>>

\* The wait took too long.  After a command it does not matter; no answer to a
\* Talk reads as 0.
Expired(p) ==
  /\ TimedOut(p) /\ Line # Level(p)
  /\ timer' = [timer EXCEPT ![p] = 0]
  /\ CASE stage[p] = "stop" ->
            /\ stage' = [stage EXCEPT ![p] = "obey"]
            /\ srq' = (srq \/ p = monitor)
            /\ UNCHANGED <<drive_vars, lo, bits, command, result, stretched>>
       [] stage[p] \in {"release", "silence"} ->
            /\ Answer(p, Silence)
            /\ UNCHANGED <<drive_vars, lo, bits, command, srq, stretched>>
       [] OTHER -> Reject(p, timer[p])
  /\ UNCHANGED <<edge, adb_collision, kind, said, outcome>>

(* --------------------------- obeying a command ------------------------- *)

\* ReceiveCommand returns from its stretch of the stop bit.
Stretched(d) ==
  /\ stage[d] = "stretch" /\ left[d] = 0 /\ plan[d] = <<>>
  /\ stage' = [stage EXCEPT ![d] = "obey"]
  /\ timer' = [timer EXCEPT ![d] = 0]
  /\ UNCHANGED <<drive_vars, lo, bits, heard_vars, edge, adb_collision, kind, said, outcome,
                 stretched>>

IsFor(d, cmd) == AddressIn(cmd) = AddressOf[d]

\* A Talk for the device: it answers if it has anything to say.
AnswerTalk(d) ==
  /\ stage[d] = "obey" /\ IsFor(d, command[d]) /\ IsTalk(command[d])
  /\ \E word \in Word, extra \in Extra[d] : Begin(d, word, extra)
  /\ UNCHANGED <<out, left, wait_vars, heard_vars, edge, adb_collision, kind, outcome, stretched>>

\* Otherwise it goes on to the next command.
Ignore(d) ==
  /\ stage[d] = "obey" /\ (IsFor(d, command[d]) => IsTalk(command[d]))
  /\ Return(d)
  /\ UNCHANGED <<drive_vars, wait_vars, heard_vars, edge, adb_collision, kind, said, outcome,
                 stretched>>

\* A Listen for the device, or any command for adbmon: a register follows.
AwaitRegister(p) ==
  /\ stage[p] = "obey"
  /\ p \in Device => IsFor(p, command[p]) /\ ~IsTalk(command[p])
  /\ stage' = [stage EXCEPT ![p] = "gap"]
  /\ UNCHANGED <<drive_vars, wait_vars, heard_vars, edge, adb_collision, kind, said, outcome,
                 stretched>>

(* ------------------------------ time passes ---------------------------- *)

Due ==
  \/ \E p \in Sender : Driving(p) /\ left[p] = 0
  \/ \E p \in Node : stage[p] = "obey" \/ TimedOut(p) \/ (Waiting(p) /\ Line = Level(p))
  \/ \E d \in Device : edge[d] \/ (stage[d] = "send" /\ adb_collision[d])

\* To the end of the first delay or wait.
Pass ==
  LET ends == {left[p] : p \in {q \in Sender : Driving(q)}}
              \cup {Window[stage[p]].limit + 1 - timer[p] : p \in {q \in Node : Timed(q)}}
  IN
  /\ ~Due /\ ends # {}
  /\ left' = [p \in Sender |-> IF Driving(p) THEN left[p] - Min(ends) ELSE left[p]]
  /\ timer' = [p \in Node |-> IF Timed(p) THEN timer[p] + Min(ends) ELSE timer[p]]
  /\ UNCHANGED <<out, plan, stage, lo, bits, heard_vars, edge, adb_collision, kind, said, outcome,
                 stretched>>

Sends(p) == Drive(p) \/ Sent(p)
Obeys(d) == Interrupt(d) \/ Aborted(d) \/ Stretched(d) \/ AnswerTalk(d) \/ Ignore(d)
Listens(p) == See(p) \/ Expired(p) \/ AwaitRegister(p)
Works ==
  \/ Talk \/ Listen \/ Reset \/ Pass
  \/ \E p \in Sender : Sends(p)
  \/ \E d \in Device : Obeys(d)
  \/ \E p \in Node : Listens(p)

Next ==
  \/ Works
  \/ \E k \in Kind, a \in Address : Start(k, a)
  \/ \E d \in Device : Unplugged(d)

Spec == Init /\ [][Next]_vars

\* Nobody stops in the middle of what it does, and time goes on.
FairSpec == Spec /\ WF_vars(Works)

(* ----------------------------- properties ------------------------------ *)

TypeOK ==
  /\ out \in [Sender -> {0, 1}]
  /\ plan \in [Sender -> Seq({0, 1} \X Nat)] /\ left \in [Sender -> Nat]
  /\ stage \in [Node -> DOMAIN Window \cup {"rest", "command", "send", "stretch", "obey", "busy", "idle"}]
  /\ timer \in [Node -> Int] /\ lo \in [Node -> Nat] /\ bits \in [Node -> Seq({0, 1})]
  /\ command \in [Node -> Seq({0, 1})] /\ result \in [Node -> Int]
  /\ edge \in [Device -> BOOLEAN] /\ adb_collision \in [Device -> BOOLEAN]
  /\ kind \in {"none", "talk", "listen", "reset"}
  /\ said \in [Sender -> [word : Word, prompt : BOOLEAN] \cup {NoWord}]
  /\ outcome \in [Sender -> {"none", "sent", "lost", "gone"}]
  /\ stretched \in BOOLEAN /\ srq \in BOOLEAN

\* A device that is told its register went out was heard: when Send16bitRegister
\* returns true the host has received that register, whoever else answered the
\* same Talk, stretched the stop bit or was unplugged.
SentIsHeard ==
  Rested /\ kind = "talk" =>
    \A d \in Device : outcome[d] = "sent" => result[host] = ValueOf(said[d].word)

\* The host receives nothing that no device said: a collision, or a device that
\* goes silent in the middle of its answer, never reads as a register.
NothingInvented ==
  Rested /\ kind = "talk" /\ result[host] > 0 =>
    \E d \in Device : said[d] # NoWord /\ result[host] = ValueOf(said[d].word)

\* When devices answer a Talk one of them gets through, unless it is unplugged.
OneGetsThrough ==
  Rested /\ (\E d \in Device : said[d] # NoWord) =>
    \E d \in Device : outcome[d] \in {"sent", "gone"}

\* "a possible collision occurs when ABD is meant to be high but the the bus is
\* set low by another device" (adb_platform.cpp:54-55): a device that is sending
\* notices it, at the latest when its interrupt is served.
CollisionNoticed ==
  \A d \in Device :
    stage[d] = "send" /\ out[d] = 1 /\ Line = 0 => edge[d] \/ adb_collision[d]

\* The register of a Listen may be dropped as a whole: a host that takes a long
\* random delay begins after the window of the receiver (its delay starts where
\* the stop bit ends, which is itself 35 us long), and one that cannot see a
\* stretched stop bit begins before it.
MayBeDropped == stretched \/ ~said[host].prompt

\* Else the register a host sends is received by the device it addresses; a
\* device never takes another value for it, be it that two lows run into one
\* or that it starts to listen in the middle of the register, nor does a device
\* that was not addressed.
ListenHeard ==
  Rested /\ kind = "listen" =>
    \A d \in Device :
      IF IsFor(d, command[host])
      THEN \/ result[d] = ValueOf(said[host].word)
           \/ result[d] < 0 /\ MayBeDropped
      ELSE result[d] = Nothing

\* Every listener makes of the line the commands the host sent and no other, and
\* a reset of the line is a reset to all of them.
CommandsUnderstood ==
  Rested => \A p \in Listener :
    /\ command[p] = command[host]
    /\ (result[p] = ResetSeen) <=> (kind = "reset")

\* adbmon's frame says what happened on the line: whether a device requested
\* service, and the register that went over it, but for the register of a Listen
\* that a device may drop too: this may be left out, never another shown.
MonitorFollows ==
  Rested /\ kind \in {"talk", "listen"} =>
    /\ srq = stretched
    /\ \A p \in Sender : outcome[p] = "sent" =>
         \/ result[monitor] = ValueOf(said[p].word)
         \/ kind = "listen" /\ result[monitor] < 0 /\ MayBeDropped

\* Every transaction ends, with or without an answer.
TransactionEnds == ~Rested ~> Rested
=============================================================================
