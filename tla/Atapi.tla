------------------------------- MODULE Atapi -------------------------------
(***************************************************************************)
(* The ATAPI driver, atapi.c: the probe of the four drives, and commands   *)
(* to the packet device that was found.  The driver polls: it reads the    *)
(* status register, and reads or writes the data register, one word a      *)
(* step, while the device goes on by itself between any two accesses.      *)
(*                                                                         *)
(* kernel.c:45 calls atapi_init only in a comment, and nothing calls       *)
(* atapi_getCapacityInternal: these are the driver's operations, on their  *)
(* own.  The drives are external.  A drive reports busy until it has its   *)
(* answer, but any of them may be late to notice a command, or the last    *)
(* word of a packet or an answer: it then shows its old status for a while.*)
(* An absent drive reads 0, a floating bus reads all ones.                 *)
(*                                                                         *)
(* Not here: the text of the names, the bytes of packets and answers, and  *)
(* the use of bWrite, which the only caller passes as 0.                   *)
(***************************************************************************)
EXTENDS Integers, FiniteSets

CONSTANTS
    DRIVES,          \* bound: drives to probe, 4 in atapi_init
    Kinds,           \* bound: what a drive may be
    IDENTIFY_WORDS,  \* the words of an identification, 256 in atapi.c:80
    PACKET_SIZES,    \* bytes of a packet: 12 and 16 in atapi.c:164
    RESP_BYTES,      \* bytes that the caller wants, 8 for READ CAPACITY
    Counts,          \* bound: bytes that a device sends as its answer
    HELD_MAX         \* bound: packet buffers that were not freed

ASSUME AtapiAssumption ==
    /\ DRIVES \in Nat \ {0}
    /\ Kinds \subseteq {"absent", "floating", "ata", "atapi"}
    /\ IDENTIFY_WORDS \in Nat \ {0} /\ HELD_MAX \in Nat \ {0}
    /\ PACKET_SIZES \subseteq Nat \ {0, 1}
    /\ RESP_BYTES \in Nat /\ RESP_BYTES % 2 = 0
    /\ Counts \subseteq Nat \ {0} /\ \A n \in Counts : n % 2 = 0   \* devices send whole words

VARIABLES
    pc,          \* where the driver is, "idle" between its operations
    drive,       \* the drive selected: of the probe, or of the command
    i,           \* words of the current transfer done
    packet_size, unit,   \* of atapi_device: 0 until a packet device is found
    held,        \* packet buffers allocated and not freed
    kind, status, command, left, count
                 \* of each drive: what it is, its status register, the command
                 \* not yet noticed or answered, words to transfer, bytes of an answer
VARIABLE early   \* history: a poll since the last command ended too early

driver == <<pc, drive, i, packet_size, unit, held>>
device == <<status, command, left, count>>
vars == <<driver, kind, device, early>>

Drives == 1 .. DRIVES  \* primary master and slave, secondary master and slave
Bits == {"BSY", "DRDY", "DRQ", "ERR"}

-----------------------------------------------------------------------------
(* Registers, as the driver sees them *)

Status == CASE kind[drive] = "absent"   -> {}
            [] kind[drive] = "floating" -> Bits
            [] OTHER                    -> status[drive]

\* The condition of the polling loops, and that of the first one in
\* atapi_identify_device.
UntilAnswer(s) == s \cap {"DRQ", "ERR"} = {}   \* mutant: a device without data hangs it
Busy(s) == "BSY" \in s /\ s \cap {"DRQ", "ERR"} = {}
BusyIdentify(s) == "BSY" \in s /\ "DRQ" \notin s

\* A drive that was given something to do is busy, at once or a little later.
Starts == \E s \in {status[drive], {"BSY", "DRDY"}} : status' = [status EXCEPT ![drive] = s]

\* A write to the command register.  Only a drive that is there takes it, and
\* drops what it was doing.
Issue(c) ==
    /\ IF kind[drive] \in {"ata", "atapi"}
       THEN /\ command' = [command EXCEPT ![drive] = c]
            /\ left' = [left EXCEPT ![drive] = 0]
            /\ Starts /\ UNCHANGED count
       ELSE UNCHANGED device
    /\ early' = FALSE

\* The end of a polling loop: too early when the drive has not yet noticed
\* what it was given to do, and what the driver saw is its old status.
PollEnds == early' = (early \/ (command[drive] # "none" /\ "BSY" \notin status[drive]))

\* One word through the data register.  After the last word the device goes
\* on: to answer a packet, to complete a command, or to rest.
Transfer(then) ==
    /\ left' = [left EXCEPT ![drive] = IF @ = 0 THEN 0 ELSE @ - 1]
    /\ IF left[drive] = 1
       THEN /\ command' = [command EXCEPT ![drive] = then]
            /\ IF then = "none" THEN status' = [status EXCEPT ![drive] = {"DRDY"}] ELSE Starts
       ELSE UNCHANGED <<command, status>>
    /\ UNCHANGED <<count, early>>

-----------------------------------------------------------------------------
(* Drives (external) *)

Says(d, s, words) ==
    /\ status' = [status EXCEPT ![d] = s] /\ left' = [left EXCEPT ![d] = words]
    /\ command' = [command EXCEPT ![d] = "none"]
Fails(d) == Says(d, {"DRDY", "ERR"}, 0) /\ UNCHANGED count
Offers(d, words) == Says(d, {"DRDY", "DRQ"}, words) /\ UNCHANGED count

\* A drive shows that it is busy.
Notice(d) ==
    /\ command[d] # "none" /\ "BSY" \notin status[d]
    /\ status' = [status EXCEPT ![d] = {"BSY", "DRDY"}]
    /\ UNCHANGED <<driver, kind, command, left, count, early>>

DeviceAnswers(d) ==
    /\ command[d] # "none" /\ "BSY" \in status[d]
    /\ \/ Fails(d)
       \/ /\ \/ command[d] = "IDENTIFY" /\ kind[d] = "ata"
             \/ command[d] = "IDENTIFY_PACKET" /\ kind[d] = "atapi"
          /\ Offers(d, IDENTIFY_WORDS)
       \/ command[d] = "PACKET" /\ Offers(d, packet_size \div 2)
       \/ /\ command[d] = "packet"
          /\ \/ Says(d, {"DRDY"}, 0) /\ UNCHANGED count
             \/ \E n \in Counts : /\ Says(d, {"DRDY", "DRQ"}, (n + 1) \div 2)
                                  /\ count' = [count EXCEPT ![d] = n]
       \/ command[d] = "complete" /\ Says(d, {"DRDY"}, 0) /\ UNCHANGED count
    /\ UNCHANGED <<driver, kind, early>>

-----------------------------------------------------------------------------
(* Probe: atapi_init tries both identifications on each drive in turn *)

At(label) == pc = label /\ UNCHANGED kind
Go(label) == pc' = label /\ i' = 0 /\ UNCHANGED <<drive, packet_size, unit, held>>
NextDrive ==
    /\ i' = 0
    /\ IF drive = DRIVES THEN pc' = "idle" /\ UNCHANGED drive
                         ELSE pc' = "ata" /\ drive' = drive + 1

\* The identification of a disk; a failure leads to that of a packet device.
AtaIdentify == At("ata") /\ Issue("IDENTIFY") /\ Go("ata_poll")
AtaPoll ==
    /\ At("ata_poll") /\ ~Busy(Status) /\ PollEnds /\ UNCHANGED device
    /\ Go(IF Status = {} \/ "ERR" \in Status THEN "atapi" ELSE "ata_data")
AtaData ==
    /\ At("ata_data") /\ Transfer("none")
    /\ IF i + 1 < IDENTIFY_WORDS THEN i' = i + 1 /\ UNCHANGED <<pc, drive>> ELSE NextDrive
    /\ UNCHANGED <<packet_size, unit, held>>

AtapiIdentify == At("atapi") /\ Issue("IDENTIFY") /\ Go("atapi_poll")
NotAtapi == NextDrive /\ UNCHANGED <<packet_size, unit, held>>

\* The four signature registers are those of a packet device.
AtapiSignature ==
    /\ At("atapi_poll") /\ ~BusyIdentify(Status)
    /\ IF Status # {} /\ kind[drive] = "atapi"
       THEN Issue("IDENTIFY_PACKET") /\ Go("packet_id_poll")
       ELSE NotAtapi /\ PollEnds /\ UNCHANGED device
AtapiPoll ==
    /\ At("packet_id_poll") /\ ~Busy(Status) /\ PollEnds /\ UNCHANGED device
    /\ IF "ERR" \in Status THEN NotAtapi ELSE Go("packet_id_data")
AtapiData ==
    /\ At("packet_id_data") /\ Transfer("none")
    /\ IF i + 1 < IDENTIFY_WORDS
       THEN i' = i + 1 /\ UNCHANGED <<pc, drive, packet_size, unit>>
       ELSE NextDrive /\ packet_size' \in PACKET_SIZES /\ unit' = drive
    /\ UNCHANGED held

-----------------------------------------------------------------------------
(* atapi_send_command, for atapi_getCapacityInternal *)

\* Nothing is sent, and 0 returned, while the packet size is not known.  The
\* driver does not wait for the end of the command before; its callers must.
SendPacket ==
    /\ At("idle") /\ packet_size # 0 /\ held < HELD_MAX /\ "BSY" \notin status[unit]
    /\ drive' = unit /\ held' = held + 1 /\ i' = 0 /\ pc' = "select"
    /\ UNCHANGED <<packet_size, unit, device, early>>
PacketCommand == At("select") /\ Issue("PACKET") /\ Go("packet_poll")

\* The end of a command: the packet buffer is freed.
Return == pc' = "idle" /\ i' = 0 /\ held' = held - 1 /\ UNCHANGED <<drive, packet_size, unit>>
PacketPoll ==
    /\ At("packet_poll") /\ ~Busy(Status) /\ PollEnds /\ UNCHANGED device
    /\ IF "ERR" \in Status THEN Return ELSE Go("packet_data")
PacketData ==
    /\ At("packet_data") /\ Transfer("packet")
    /\ IF i + 1 < packet_size \div 2
       THEN i' = i + 1 /\ UNCHANGED <<pc, drive, packet_size, unit, held>>
       ELSE Go("answer_poll")

\* A command without data returns at once, and keeps its packet buffer.
UntestedAnswer(s) == "answer_data"     \* mutant: data are expected in any case
AfterAnswer(s) == IF "DRQ" \in s THEN "answer_data" ELSE "idle"
AnswerPoll ==
    /\ At("answer_poll") /\ ~Busy(Status) /\ PollEnds /\ UNCHANGED device
    /\ IF "ERR" \in Status THEN Return ELSE Go(AfterAnswer(Status))

\* What the caller asked for, then the rest of the answer, discarded.
WordsRead(realSz) ==
    IF realSz > RESP_BYTES THEN RESP_BYTES \div 2 + (realSz - RESP_BYTES + 1) \div 2
                           ELSE realSz \div 2
AnswerData ==
    /\ At("answer_data") /\ i < WordsRead(count[drive]) /\ Transfer("complete")
    /\ i' = i + 1
    /\ UNCHANGED <<pc, drive, packet_size, unit, held>>
Complete ==
    /\ At("answer_data") /\ i >= WordsRead(count[drive]) /\ UNCHANGED <<device, early>>
    /\ Return

-----------------------------------------------------------------------------
Init ==
    /\ pc = "ata" /\ drive = 1 /\ i = 0 /\ packet_size = 0 /\ unit = 0 /\ held = 0
    /\ early = FALSE
    /\ kind \in [Drives -> Kinds]
    /\ status = [d \in Drives |-> {"DRDY"}] /\ command = [d \in Drives |-> "none"]
    /\ left = [d \in Drives |-> 0] /\ count = [d \in Drives |-> 0]

Probe == AtaIdentify \/ AtaPoll \/ AtaData
         \/ AtapiIdentify \/ AtapiSignature \/ AtapiPoll \/ AtapiData
Command == PacketCommand \/ PacketPoll \/ PacketData \/ AnswerPoll
           \/ AnswerData \/ Complete
Next == Probe \/ SendPacket \/ Command \/ \E d \in Drives : Notice(d) \/ DeviceAnswers(d)
Spec == Init /\ [][Next]_vars

\* The driver loops for ever until it sees what it waits for, and a drive that
\* is busy answers some time; nobody has to call atapi_send_command.
FairSpec == Spec /\ WF_vars(Probe \/ Command)
                 /\ \A d \in Drives : WF_vars(Notice(d) \/ DeviceAnswers(d))

-----------------------------------------------------------------------------
(* Properties *)

\* As long as no poll of this command ended before the drive had noticed what
\* it was given to do, the data register is read or written only when the drive
\* has asked for it and is not busy (the loops of atapi.c that follow a poll
\* count their words without another look at the status), and a command ends
\* with no word left in it.  Such an early end is possible at each poll, as
\* the driver reads the status right after the write (atapi.c:68, 131, 243,
\* 259); see PolledReady.
Ready(s) == "DRQ" \in s /\ "BSY" \notin s
Answered == pc = "answer_data" /\ i >= WordsRead(count[drive])
DataWhenReady ==
    ~early =>
        /\ pc \in {"ata_data", "packet_id_data", "packet_data", "answer_data"} /\ ~Answered
           => Ready(Status)
        /\ Answered => left[drive] = 0

\* The probe of the drives, and every command, ends: no polling loop waits for
\* something that the drive never says (atapi.c:73, 121, 133, 244, 260).
Ends == pc # "idle" ~> pc = "idle"

\* What the comment at atapi.c:72 says of the loop below it: "Poll until BSY is
\* clear and either ERR or DRQ are set".
Polled(s) == "BSY" \notin s /\ s \cap {"ERR", "DRQ"} # {}
PolledReady == [][AtaPoll /\ Status # {} => Polled(Status)]_vars
=============================================================================
