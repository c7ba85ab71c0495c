---------------------------- MODULE AtapiProofs ----------------------------
(***************************************************************************)
(* Proofs about the ATAPI driver: for any number of drives of the modelled *)
(* kinds and any sizes, a word moves only when the drive has asked for it, *)
(* unless a poll ended before the drive had noticed its command.  The      *)
(* driver looks at the status once and then counts; so the invariant says  *)
(* for each place of the driver how many words the drive has left.         *)
(***************************************************************************)
EXTENDS Atapi, TLAPS

ProbePlaces == {"ata", "ata_poll", "ata_data", "atapi", "atapi_poll", "packet_id_poll", "packet_id_data"}
CommandPlaces == {"select", "packet_poll", "packet_data", "answer_poll", "answer_data"}
Commands == {"none", "IDENTIFY", "IDENTIFY_PACKET", "PACKET", "packet", "complete"}
DriveKinds == {"absent", "floating", "ata", "atapi"}

TypeOK ==
    /\ pc \in ProbePlaces \cup CommandPlaces \cup {"idle"}
    /\ drive \in Drives /\ i \in Nat
    /\ packet_size \in PACKET_SIZES \cup {0} /\ unit \in Drives \cup {0}
    /\ kind \in [Drives -> DriveKinds]
    /\ status \in [Drives -> SUBSET Bits] /\ command \in [Drives -> Commands]
    /\ left \in [Drives -> Nat] /\ count \in [Drives -> Nat]
    /\ early \in BOOLEAN

\* A drive that is there.
Present(d) == kind[d] \in {"ata", "atapi"}

\* A drive with a command has no word to move; it is busy only with a command,
\* and then asks for nothing.
DriveSound ==
    \A d \in Drives : Present(d) =>
        /\ command[d] # "none" => left[d] = 0
        /\ command[d] = "none" => "BSY" \notin status[d]
        /\ "BSY" \in status[d] => status[d] = {"BSY", "DRDY"}

\* Command c is not answered, failed, or offers n words ...
Asked(d, c, n) ==
    \/ command[d] = c
    \/ command[d] = "none" /\ "ERR" \in status[d] /\ left[d] = 0
    \/ command[d] = "none" /\ "ERR" \notin status[d] /\ "DRQ" \in status[d] /\ left[d] = n
\* ... of which i moved.
Moving(d, n) == command[d] = "none" /\ "DRQ" \in status[d] /\ i < n /\ left[d] = n - i

AnswerWords(d) == count[d] \in Counts /\ left[d] = WordsRead(count[d]) - i

\* What the driver may rely on at each place, unless a poll ended too early.
PlaceSound ==
    Present(drive) /\ ~early =>
        /\ pc = "ata_poll" => Asked(drive, "IDENTIFY", IDENTIFY_WORDS)
        /\ pc \in {"ata_data", "packet_id_data"} => Moving(drive, IDENTIFY_WORDS)
        /\ pc = "packet_id_poll" => Asked(drive, "IDENTIFY_PACKET", IDENTIFY_WORDS)
        /\ pc = "packet_poll" => Asked(drive, "PACKET", packet_size \div 2)
        /\ pc = "packet_data" => Moving(drive, packet_size \div 2)
        /\ pc = "answer_poll" =>
             /\ i = 0 /\ command[drive] \in {"packet", "none"}
             /\ command[drive] = "none" /\ left[drive] # 0 =>
                    "ERR" \notin status[drive] /\ "DRQ" \in status[drive] /\ AnswerWords(drive)
             /\ command[drive] = "none" /\ left[drive] = 0 => "DRQ" \notin status[drive]
        /\ pc = "answer_data" =>
             /\ AnswerWords(drive) /\ command[drive] \in {"complete", "none"}
             /\ left[drive] # 0 => command[drive] = "none" /\ "DRQ" \in status[drive]

\* Identifications are read from drives that are there, and commands go to the
\* packet device.
UnitSound ==
    /\ pc = "ata_data" => Present(drive)
    /\ pc \in {"packet_id_poll", "packet_id_data"} => kind[drive] = "atapi"
    /\ pc \in CommandPlaces => unit # 0 /\ drive = unit
    /\ unit = 0 <=> packet_size = 0
    /\ unit # 0 => kind[unit] = "atapi"

DriverInv == TypeOK /\ DriveSound /\ PlaceSound /\ UnitSound

(***************************************************************************)
(* What a step does to the drives                                          *)
(***************************************************************************)
DeviceTypes ==
    /\ status' \in [Drives -> SUBSET Bits] /\ command' \in [Drives -> Commands]
    /\ left' \in [Drives -> Nat] /\ count' \in [Drives -> Nat]

\* A drive that was given something to do shows its old status or is busy.
LEMMA Started ==
    ASSUME TypeOK, Starts
    PROVE  /\ status' \in [Drives -> SUBSET Bits]
           /\ status'[drive] \in {status[drive], {"BSY", "DRDY"}}
           /\ \A d \in Drives \ {drive} : status'[d] = status[d]
<1>1. PICK s \in {status[drive], {"BSY", "DRDY"}} : status' = [status EXCEPT ![drive] = s]
  BY DEF Starts
<1>2. drive \in Drives /\ status \in [Drives -> SUBSET Bits] /\ {"BSY", "DRDY"} \in SUBSET Bits
  BY DEF TypeOK, Bits
<1>3. s \in SUBSET Bits
  BY <1>1, <1>2
<1> QED BY <1>1, <1>2, <1>3

\* Each drive is sound when it is not the selected one, or has this status.
LEMMA StillSound ==
    ASSUME TypeOK, DriveSound, kind' = kind,
           \A d \in Drives \ {drive} :
               status'[d] = status[d] /\ command'[d] = command[d] /\ left'[d] = left[d],
           Present(drive) =>
               /\ command'[drive] # "none" => left'[drive] = 0
               /\ command'[drive] = "none" => "BSY" \notin status'[drive]
               /\ "BSY" \in status'[drive] => status'[drive] = {"BSY", "DRDY"}
    PROVE  DriveSound'
<1>1. ASSUME NEW d \in Drives, Present(d)
      PROVE  /\ command'[d] # "none" => left'[d] = 0
             /\ command'[d] = "none" => "BSY" \notin status'[d]
             /\ "BSY" \in status'[d] => status'[d] = {"BSY", "DRDY"}
  <2>1. CASE d = drive
    BY <1>1, <2>1
  <2>2. CASE d # drive
    <3>1. status'[d] = status[d] /\ command'[d] = command[d] /\ left'[d] = left[d]
      BY <2>2
    <3> QED BY <3>1, <1>1 DEF DriveSound
  <2> QED BY <2>1, <2>2
<1> QED BY <1>1 DEF DriveSound, Present

\* A command is written, and whatever the drive was doing is dropped.
LEMMA Issued ==
    ASSUME TypeOK, DriveSound, kind' = kind, NEW c \in Commands \ {"none"}, Issue(c)
    PROVE  /\ DeviceTypes /\ DriveSound' /\ early' = FALSE
           /\ Present(drive) => command'[drive] = c
<1>1. /\ drive \in Drives /\ status \in [Drives -> SUBSET Bits]
      /\ command \in [Drives -> Commands] /\ left \in [Drives -> Nat] /\ count \in [Drives -> Nat]
  BY DEF TypeOK
<1>2. early' = FALSE
  BY DEF Issue
<1>3. CASE Present(drive)
  <2>1. /\ command' = [command EXCEPT ![drive] = c] /\ left' = [left EXCEPT ![drive] = 0]
        /\ Starts /\ count' = count
    BY <1>3 DEF Issue, Present
  <2>2. /\ status' \in [Drives -> SUBSET Bits]
        /\ status'[drive] \in {status[drive], {"BSY", "DRDY"}}
        /\ \A d \in Drives \ {drive} : status'[d] = status[d]
    BY <2>1, Started
  <2>3. /\ command' \in [Drives -> Commands] /\ left' \in [Drives -> Nat]
        /\ command'[drive] = c /\ left'[drive] = 0
        /\ \A d \in Drives \ {drive} : command'[d] = command[d] /\ left'[d] = left[d]
    BY <1>1, <2>1
  <2>4. "BSY" \in status[drive] => status[drive] = {"BSY", "DRDY"}
    BY <1>1, <1>3 DEF DriveSound
  <2>5. DriveSound'
    BY <2>2, <2>3, <2>4, StillSound
  <2> QED BY <1>1, <1>2, <2>1, <2>2, <2>3, <2>5 DEF DeviceTypes
<1>4. CASE ~Present(drive)
  <2>1. command' = command /\ status' = status /\ left' = left /\ count' = count
    BY <1>4 DEF Issue, device, Present
  <2> QED BY <2>1, <1>1, <1>2, <1>4 DEF DeviceTypes, DriveSound, Present
<1> QED BY <1>3, <1>4

\* A word moves.
LEMMA Transferred ==
    ASSUME TypeOK, DriveSound, kind' = kind, NEW then \in Commands, Transfer(then)
    PROVE  /\ DeviceTypes /\ DriveSound' /\ count' = count /\ early' = early
           /\ left'[drive] = IF left[drive] = 0 THEN 0 ELSE left[drive] - 1
           /\ command'[drive] = IF left[drive] = 1 THEN then ELSE command[drive]
           /\ left[drive] # 1 => status'[drive] = status[drive]
<1>1. /\ drive \in Drives /\ status \in [Drives -> SUBSET Bits]
      /\ command \in [Drives -> Commands] /\ left \in [Drives -> Nat] /\ count \in [Drives -> Nat]
  BY DEF TypeOK
<1>2. /\ left' = [left EXCEPT ![drive] = IF left[drive] = 0 THEN 0 ELSE left[drive] - 1]
      /\ count' = count /\ early' = early
  BY DEF Transfer
<1>3. /\ left' \in [Drives -> Nat] /\ left'[drive] = (IF left[drive] = 0 THEN 0 ELSE left[drive] - 1)
      /\ \A d \in Drives \ {drive} : left'[d] = left[d]
  BY <1>1, <1>2
<1>4. CASE left[drive] = 1
  <2>1. /\ command' = [command EXCEPT ![drive] = then]
        /\ IF then = "none" THEN status' = [status EXCEPT ![drive] = {"DRDY"}] ELSE Starts
    BY <1>4 DEF Transfer
  <2>2. /\ command' \in [Drives -> Commands] /\ command'[drive] = then /\ left'[drive] = 0
        /\ \A d \in Drives \ {drive} : command'[d] = command[d]
    BY <1>1, <1>3, <1>4, <2>1
  <2>3. Present(drive) => "BSY" \notin status[drive]
    BY <1>1, <1>4 DEF DriveSound
  <2>4. /\ status' \in [Drives -> SUBSET Bits]
        /\ status'[drive] \in (IF then = "none" THEN {{"DRDY"}} ELSE {status[drive], {"BSY", "DRDY"}})
        /\ \A d \in Drives \ {drive} : status'[d] = status[d]
    <3>1. CASE then = "none"
      <4>1. {"DRDY"} \in SUBSET Bits /\ status' = [status EXCEPT ![drive] = {"DRDY"}]
        BY <3>1, <2>1 DEF Bits
      <4> QED BY <3>1, <4>1, <1>1
    <3>2. CASE then # "none"
      BY <3>2, <2>1, Started
    <3> QED BY <3>1, <3>2
  <2>5. DriveSound'
    <3>1. \A d \in Drives \ {drive} :
             status'[d] = status[d] /\ command'[d] = command[d] /\ left'[d] = left[d]
      BY <1>3, <2>2, <2>4
    <3>2. Present(drive) =>
             /\ command'[drive] # "none" => left'[drive] = 0
             /\ command'[drive] = "none" => "BSY" \notin status'[drive]
             /\ "BSY" \in status'[drive] => status'[drive] = {"BSY", "DRDY"}
      BY <2>2, <2>3, <2>4
    <3> QED BY <3>1, <3>2, StillSound
  <2> QED BY <1>1, <1>2, <1>3, <1>4, <2>2, <2>4, <2>5 DEF DeviceTypes
<1>5. CASE left[drive] # 1
  <2>1. command' = command /\ status' = status
    BY <1>5 DEF Transfer
  <2>2. left[drive] = 0 => left'[drive] = 0
    BY <1>3
  <2>3. DriveSound'
    <3>1. Present(drive) => /\ command'[drive] # "none" => left'[drive] = 0
                            /\ command'[drive] = "none" => "BSY" \notin status'[drive]
                            /\ "BSY" \in status'[drive] => status'[drive] = {"BSY", "DRDY"}
      BY <1>1, <2>1, <2>2 DEF DriveSound
    <3> QED BY <1>3, <2>1, <3>1, StillSound
  <2> QED BY <1>1, <1>2, <1>3, <1>5, <2>1, <2>3 DEF DeviceTypes
<1> QED BY <1>4, <1>5

\* No access to the device.
LEMMA DeviceSame ==
    ASSUME DriverInv, UNCHANGED <<device, kind>>
    PROVE  DeviceTypes /\ DriveSound' /\ UNCHANGED <<status, command, left, count>>
  BY DEF DriverInv, TypeOK, device, DeviceTypes, DriveSound, Present

LEMMA StatusOf ==
    ASSUME Present(drive) PROVE Status = status[drive]
  BY DEF Present, Status

\* A poll that did not end too early ended with the answer of the drive.
LEMMA PollEnded ==
    ASSUME DriverInv, ~Busy(Status), PollEnds
    PROVE  /\ early' \in BOOLEAN
           /\ Present(drive) /\ ~early' => ~early /\ command[drive] = "none" /\ Status = status[drive]
<1>1. early \in BOOLEAN /\ drive \in Drives /\ early' \in BOOLEAN
  BY DEF DriverInv, TypeOK, PollEnds
<1>2. ASSUME Present(drive), ~early'
      PROVE  ~early /\ command[drive] = "none" /\ Status = status[drive]
  <2>1. ~early /\ (command[drive] = "none" \/ "BSY" \in status[drive]) /\ Status = status[drive]
    BY <1>1, <1>2, StatusOf DEF PollEnds
  <2>2. "BSY" \notin status[drive]
    BY <1>1, <1>2, <2>1 DEF DriverInv, DriveSound, Busy
  <2> QED BY <2>1, <2>2
<1> QED BY <1>1, <1>2

(***************************************************************************)
(* Where the driver goes                                                   *)
(***************************************************************************)
\* To the next drive, or to the end of the probe; the drive that was probed
\* may be the packet device.
LEMMA Leaves ==
    ASSUME DriverInv, pc \in ProbePlaces, NextDrive, kind' = kind, DeviceTypes, DriveSound',
           early' \in BOOLEAN,
           \/ unit' = unit /\ packet_size' = packet_size
           \/ unit' = drive /\ packet_size' \in PACKET_SIZES /\ kind[drive] = "atapi"
    PROVE  DriverInv'
<1>1. /\ TypeOK /\ UnitSound
      /\ DRIVES \in Nat \ {0} /\ Drives = 1 .. DRIVES /\ drive \in Drives /\ unit \in Drives \cup {0}
      /\ 0 \notin PACKET_SIZES /\ 0 \notin Drives
  BY AtapiAssumption DEF DriverInv, TypeOK, Drives
<1>2. i' = 0 /\ ((pc' = "idle" /\ drive' = drive) \/ (pc' = "ata" /\ drive' = drive + 1 /\ drive # DRIVES))
  BY DEF NextDrive
<1>3. drive' \in Drives /\ pc' \in {"idle", "ata"}
  <2>1. drive # DRIVES => drive + 1 \in 1 .. DRIVES
    BY <1>1
  <2> QED BY <2>1, <1>1, <1>2
<1>4. TypeOK'
  BY <1>1, <1>2, <1>3 DEF TypeOK, DeviceTypes, ProbePlaces
<1>5. PlaceSound'
  BY <1>3 DEF PlaceSound
<1>6. UnitSound'
  <2>1. (unit' = 0 <=> packet_size' = 0) /\ (unit' # 0 => kind[unit'] = "atapi")
    BY <1>1 DEF UnitSound
  <2> QED BY <1>3, <2>1 DEF UnitSound, CommandPlaces
<1> QED BY <1>4, <1>5, <1>6 DEF DriverInv

Stays == drive' = drive /\ unit' = unit /\ packet_size' = packet_size /\ kind' = kind

\* On, within the probe of a drive.
LEMMA Goes ==
    ASSUME DriverInv, pc' \in ProbePlaces, Stays,
           pc' = "ata_data" => Present(drive),
           pc' \in {"packet_id_poll", "packet_id_data"} => kind[drive] = "atapi"
    PROVE  UnitSound'
<1>1. pc' \notin CommandPlaces
  BY DEF ProbePlaces, CommandPlaces
<1> QED BY <1>1 DEF DriverInv, UnitSound, Present, Stays

\* On, within a command, or to its end.
LEMMA Proceeds ==
    ASSUME DriverInv, pc \in CommandPlaces, pc' \in CommandPlaces \cup {"idle"}, Stays
    PROVE  UnitSound' /\ (pc' = "idle" => PlaceSound')
<1>1. unit # 0 /\ drive = unit /\ packet_size # 0 /\ kind[unit] = "atapi"
  BY DEF DriverInv, UnitSound
<1>2. pc' \notin {"ata_data", "packet_id_poll", "packet_id_data"}
  BY DEF CommandPlaces
<1> QED BY <1>1, <1>2 DEF UnitSound, PlaceSound, Stays

(***************************************************************************)
(* The steps of the driver                                                 *)
(***************************************************************************)
LEMMA AtaIdentifyKeeps == ASSUME DriverInv, AtaIdentify PROVE DriverInv'
<1>1. /\ pc' = "ata_poll" /\ i' = 0 /\ Stays /\ Issue("IDENTIFY")
  BY DEF AtaIdentify, At, Go, Stays
<1>2. TypeOK /\ DriveSound /\ "IDENTIFY" \in Commands \ {"none"} /\ pc' \in ProbePlaces
  BY <1>1 DEF DriverInv, Commands, ProbePlaces
<1>3. /\ DeviceTypes /\ DriveSound' /\ early' = FALSE
      /\ Present(drive) => command'[drive] = "IDENTIFY"
  BY <1>1, <1>2, Issued DEF Stays
<1>4. TypeOK'
  BY <1>1, <1>2, <1>3 DEF TypeOK, DeviceTypes, Stays
<1>5. PlaceSound'
  BY <1>1, <1>3 DEF PlaceSound, Present, Asked, Stays
<1>6. UnitSound'
  BY <1>1, <1>2, Goes
<1> QED BY <1>3, <1>4, <1>5, <1>6 DEF DriverInv

LEMMA AtaPollKeeps == ASSUME DriverInv, AtaPoll PROVE DriverInv'
<1>1. /\ pc = "ata_poll" /\ i' = 0 /\ Stays /\ UNCHANGED <<device, kind>>
      /\ ~Busy(Status) /\ PollEnds /\ pc' = IF Status = {} \/ "ERR" \in Status THEN "atapi" ELSE "ata_data"
  BY DEF AtaPoll, At, Go, Stays
<1>2. DeviceTypes /\ DriveSound' /\ UNCHANGED <<status, command, left, count>>
  BY <1>1, DeviceSame
<1>3. pc' \in {"atapi", "ata_data"} /\ pc' \in ProbePlaces
  BY <1>1 DEF ProbePlaces
<1>4. /\ early' \in BOOLEAN
      /\ Present(drive) /\ ~early' => ~early /\ command[drive] = "none" /\ Status = status[drive]
  BY <1>1, PollEnded
<1>5. TypeOK'
  BY <1>1, <1>2, <1>3, <1>4 DEF DriverInv, TypeOK, DeviceTypes, Stays
<1>6. PlaceSound'
  <2> SUFFICES ASSUME Present(drive), ~early', pc' = "ata_data" PROVE PlaceSound'
    BY <1>1, <1>3 DEF PlaceSound, Present, Stays
  <2>1. ~early /\ command[drive] = "none" /\ "ERR" \notin status[drive]
    BY <1>1, <1>4
  <2>2. Asked(drive, "IDENTIFY", IDENTIFY_WORDS) /\ IDENTIFY_WORDS \in Nat \ {0}
    BY <1>1, <2>1, AtapiAssumption DEF DriverInv, PlaceSound
  <2>3. "DRQ" \in status[drive] /\ left[drive] = IDENTIFY_WORDS
    BY <2>1, <2>2 DEF Asked
  <2>4. /\ command'[drive'] = "none" /\ "DRQ" \in status'[drive']
        /\ i' = 0 /\ left'[drive'] = IDENTIFY_WORDS
    BY <2>1, <2>3, <1>1, <1>2 DEF Stays
  <2>5. left'[drive'] = IDENTIFY_WORDS - i' /\ i' < IDENTIFY_WORDS
    BY <2>2, <2>4
  <2> QED BY <2>4, <2>5 DEF PlaceSound, Moving
<1>7. UnitSound'
  <2>1. pc' = "ata_data" => Present(drive)
    BY <1>1 DEF DriverInv, TypeOK, DriveKinds, Present, Status, Bits
  <2> QED BY <2>1, <1>1, <1>3, Goes
<1> QED BY <1>2, <1>5, <1>6, <1>7 DEF DriverInv

\* A word of an identification, and what is left for the next.
LEMMA IdentifyWord ==
    ASSUME DriverInv, pc \in {"ata_data", "packet_id_data"}, Transfer("none"), kind' = kind,
           i + 1 < IDENTIFY_WORDS, i' = i + 1, drive' = drive, Present(drive), ~early'
    PROVE  Moving(drive, IDENTIFY_WORDS)'
<1>1. TypeOK /\ DriveSound /\ "none" \in Commands
  BY DEF DriverInv, Commands
<1>2. IDENTIFY_WORDS \in Nat /\ i \in Nat /\ left[drive] \in Nat
  BY <1>1, AtapiAssumption DEF TypeOK
<1>3. /\ early' = early
      /\ left'[drive] = IF left[drive] = 0 THEN 0 ELSE left[drive] - 1
      /\ command'[drive] = IF left[drive] = 1 THEN "none" ELSE command[drive]
      /\ left[drive] # 1 => status'[drive] = status[drive]
  <2>1. /\ DeviceTypes /\ DriveSound' /\ count' = count /\ early' = early
        /\ left'[drive] = IF left[drive] = 0 THEN 0 ELSE left[drive] - 1
        /\ command'[drive] = IF left[drive] = 1 THEN "none" ELSE command[drive]
        /\ left[drive] # 1 => status'[drive] = status[drive]
    BY <1>1, Transferred
  <2> QED BY <2>1
<1>4. /\ command[drive] = "none" /\ "DRQ" \in status[drive] /\ i < IDENTIFY_WORDS
      /\ left[drive] = IDENTIFY_WORDS - i
  BY <1>3 DEF DriverInv, PlaceSound, Moving
<1>5. left[drive] # 1 /\ left[drive] # 0 /\ left[drive] - 1 = IDENTIFY_WORDS - (i + 1)
  <2> DEFINE k == left[drive]
  <2>1. k = IDENTIFY_WORDS - i /\ k \in Nat
    BY <1>2, <1>4
  <2> HIDE DEF k
  <2>2. k # 1 /\ k # 0 /\ k - 1 = IDENTIFY_WORDS - (i + 1)
    BY <2>1, <1>2
  <2> QED BY <2>2 DEF k
<1>6. /\ command'[drive] = "none" /\ "DRQ" \in status'[drive]
      /\ left'[drive] = IDENTIFY_WORDS - (i + 1)
  BY <1>3, <1>4, <1>5
<1> QED BY <1>6 DEF Moving

LEMMA AtaDataKeeps == ASSUME DriverInv, AtaData PROVE DriverInv'
<1>1. /\ pc = "ata_data" /\ kind' = kind /\ Transfer("none")
      /\ unit' = unit /\ packet_size' = packet_size
      /\ IF i + 1 < IDENTIFY_WORDS THEN i' = i + 1 /\ pc' = pc /\ drive' = drive ELSE NextDrive
  BY DEF AtaData, At
<1>2. TypeOK /\ DriveSound /\ "none" \in Commands /\ pc \in ProbePlaces /\ early \in BOOLEAN
  BY <1>1 DEF DriverInv, TypeOK, Commands, ProbePlaces
<1>3. DeviceTypes /\ DriveSound' /\ early' = early
  <2>1. /\ DeviceTypes /\ DriveSound' /\ count' = count /\ early' = early
        /\ left'[drive] = IF left[drive] = 0 THEN 0 ELSE left[drive] - 1
        /\ command'[drive] = IF left[drive] = 1 THEN "none" ELSE command[drive]
        /\ left[drive] # 1 => status'[drive] = status[drive]
    BY <1>1, <1>2, Transferred
  <2> QED BY <2>1
<1>4. CASE i + 1 < IDENTIFY_WORDS
  <2>1. i' = i + 1 /\ pc' = "ata_data" /\ drive' = drive
    BY <1>1, <1>4
  <2>2. TypeOK'
    <3>1. i \in Nat => i + 1 \in Nat
      OBVIOUS
    <3> QED BY <3>1, <2>1, <1>1, <1>2, <1>3 DEF TypeOK, DeviceTypes
  <2>3. PlaceSound'
    <3>1. Present(drive) /\ ~early' => Moving(drive, IDENTIFY_WORDS)'
      BY <1>1, <1>4, <2>1, IdentifyWord
    <3> QED BY <3>1, <2>1, <1>1 DEF PlaceSound, Present
  <2>4. UnitSound'
    <3>1. Present(drive)
      BY <1>1 DEF DriverInv, UnitSound
    <3> QED BY <3>1, <2>1, <1>1, <1>2, Goes DEF Stays
  <2> QED BY <2>2, <2>3, <2>4, <1>3 DEF DriverInv
<1>5. CASE ~(i + 1 < IDENTIFY_WORDS)
  BY <1>1, <1>2, <1>3, <1>5, Leaves
<1> QED BY <1>4, <1>5

LEMMA AtapiIdentifyKeeps == ASSUME DriverInv, AtapiIdentify PROVE DriverInv'
<1>1. /\ pc' = "atapi_poll" /\ i' = 0 /\ Stays /\ Issue("IDENTIFY")
  BY DEF AtapiIdentify, At, Go, Stays
<1>2. TypeOK /\ DriveSound /\ "IDENTIFY" \in Commands \ {"none"} /\ pc' \in ProbePlaces
  BY <1>1 DEF DriverInv, Commands, ProbePlaces
<1>3. /\ DeviceTypes /\ DriveSound' /\ early' = FALSE
      /\ Present(drive) => command'[drive] = "IDENTIFY"
  BY <1>1, <1>2, Issued DEF Stays
<1>4. TypeOK'
  BY <1>1, <1>2, <1>3 DEF TypeOK, DeviceTypes, Stays
<1>5. PlaceSound'
  BY <1>1 DEF PlaceSound
<1>6. UnitSound'
  BY <1>1, <1>2, Goes
<1> QED BY <1>3, <1>4, <1>5, <1>6 DEF DriverInv

LEMMA AtapiSignatureKeeps == ASSUME DriverInv, AtapiSignature PROVE DriverInv'
<1>1. pc = "atapi_poll" /\ ~BusyIdentify(Status) /\ kind' = kind /\ pc \in ProbePlaces
  BY DEF AtapiSignature, At, ProbePlaces
<1>2. CASE Status # {} /\ kind[drive] = "atapi"
  <2>1. Issue("IDENTIFY_PACKET") /\ pc' = "packet_id_poll" /\ i' = 0 /\ Stays
    BY <1>1, <1>2 DEF AtapiSignature, Go, Stays
  <2>2. TypeOK /\ DriveSound /\ "IDENTIFY_PACKET" \in Commands \ {"none"} /\ pc' \in ProbePlaces
    BY <2>1 DEF DriverInv, Commands, ProbePlaces
  <2>3. /\ DeviceTypes /\ DriveSound' /\ early' = FALSE
        /\ Present(drive) => command'[drive] = "IDENTIFY_PACKET"
    BY <1>1, <2>1, <2>2, Issued
  <2>4. TypeOK'
    BY <2>1, <2>2, <2>3 DEF TypeOK, DeviceTypes, Stays
  <2>5. PlaceSound'
    BY <2>1, <2>3 DEF PlaceSound, Present, Asked, Stays
  <2>6. UnitSound'
    BY <1>2, <2>1, <2>2, Goes
  <2> QED BY <2>3, <2>4, <2>5, <2>6 DEF DriverInv
<1>3. CASE ~(Status # {} /\ kind[drive] = "atapi")
  <2>1. NextDrive /\ unit' = unit /\ packet_size' = packet_size /\ PollEnds /\ UNCHANGED <<device, kind>>
    BY <1>1, <1>3 DEF AtapiSignature, NotAtapi
  <2>2. DeviceTypes /\ DriveSound' /\ early' \in BOOLEAN
    BY <2>1, DeviceSame DEF PollEnds
  <2> QED BY <1>1, <2>1, <2>2, Leaves
<1> QED BY <1>2, <1>3

LEMMA AtapiPollKeeps == ASSUME DriverInv, AtapiPoll PROVE DriverInv'
<1>1. /\ pc = "packet_id_poll" /\ ~Busy(Status) /\ PollEnds /\ UNCHANGED <<device, kind>>
      /\ pc \in ProbePlaces /\ unit' = unit /\ packet_size' = packet_size
  BY DEF AtapiPoll, At, ProbePlaces, NotAtapi, Go
<1>2. DeviceTypes /\ DriveSound' /\ UNCHANGED <<status, command, left, count>>
  BY <1>1, DeviceSame
<1>3. /\ early' \in BOOLEAN
      /\ Present(drive) /\ ~early' => ~early /\ command[drive] = "none" /\ Status = status[drive]
  BY <1>1, PollEnded
<1>4. CASE "ERR" \in Status
  <2>1. NextDrive
    BY <1>4 DEF AtapiPoll, NotAtapi
  <2> QED BY <1>1, <1>2, <1>3, <2>1, Leaves
<1>5. CASE "ERR" \notin Status
  <2>1. pc' = "packet_id_data" /\ i' = 0 /\ Stays /\ pc' \in ProbePlaces
    BY <1>1, <1>5 DEF AtapiPoll, Go, Stays, ProbePlaces
  <2>2. kind[drive] = "atapi" /\ Present(drive)
    BY <1>1 DEF DriverInv, UnitSound, Present
  <2>3. TypeOK'
    BY <1>2, <1>3, <2>1 DEF DriverInv, TypeOK, DeviceTypes, Stays
  <2>4. PlaceSound'
    <3> SUFFICES ASSUME ~early' PROVE PlaceSound'
      BY DEF PlaceSound
    <3>1. ~early /\ command[drive] = "none" /\ "ERR" \notin status[drive]
      BY <1>3, <1>5, <2>2
    <3>2. Asked(drive, "IDENTIFY_PACKET", IDENTIFY_WORDS) /\ IDENTIFY_WORDS \in Nat \ {0}
      BY <1>1, <2>2, <3>1, AtapiAssumption DEF DriverInv, PlaceSound
    <3>3. "DRQ" \in status[drive] /\ left[drive] = IDENTIFY_WORDS
      BY <3>1, <3>2 DEF Asked
    <3>4. /\ command'[drive'] = "none" /\ "DRQ" \in status'[drive']
          /\ i' = 0 /\ left'[drive'] = IDENTIFY_WORDS
      BY <3>1, <3>3, <2>1, <1>2 DEF Stays
    <3>5. left'[drive'] = IDENTIFY_WORDS - i' /\ i' < IDENTIFY_WORDS
      BY <3>2, <3>4
    <3> QED BY <3>4, <3>5, <2>1 DEF PlaceSound, Moving
  <2>5. UnitSound'
    BY <2>1, <2>2, Goes
  <2> QED BY <1>2, <2>3, <2>4, <2>5 DEF DriverInv
<1> QED BY <1>4, <1>5

LEMMA AtapiDataKeeps == ASSUME DriverInv, AtapiData PROVE DriverInv'
<1>1. /\ pc = "packet_id_data" /\ kind' = kind /\ Transfer("none")
      /\ IF i + 1 < IDENTIFY_WORDS
         THEN i' = i + 1 /\ pc' = pc /\ drive' = drive /\ packet_size' = packet_size /\ unit' = unit
         ELSE NextDrive /\ packet_size' \in PACKET_SIZES /\ unit' = drive
  BY DEF AtapiData, At
<1>2. TypeOK /\ DriveSound /\ "none" \in Commands /\ pc \in ProbePlaces /\ early \in BOOLEAN
  BY <1>1 DEF DriverInv, TypeOK, Commands, ProbePlaces
<1>3. DeviceTypes /\ DriveSound' /\ early' = early
  <2>1. /\ DeviceTypes /\ DriveSound' /\ count' = count /\ early' = early
        /\ left'[drive] = IF left[drive] = 0 THEN 0 ELSE left[drive] - 1
        /\ command'[drive] = IF left[drive] = 1 THEN "none" ELSE command[drive]
        /\ left[drive] # 1 => status'[drive] = status[drive]
    BY <1>1, <1>2, Transferred
  <2> QED BY <2>1
<1>4. kind[drive] = "atapi" /\ Present(drive)
  BY <1>1 DEF DriverInv, UnitSound, Present
<1>5. CASE i + 1 < IDENTIFY_WORDS
  <2>1. i' = i + 1 /\ pc' = "packet_id_data" /\ Stays /\ drive' = drive
    BY <1>1, <1>5 DEF Stays
  <2>2. TypeOK'
    <3>1. i \in Nat => i + 1 \in Nat
      OBVIOUS
    <3> QED BY <3>1, <2>1, <1>1, <1>2, <1>3 DEF TypeOK, DeviceTypes, Stays
  <2>3. PlaceSound'
    <3>1. ~early' => Moving(drive, IDENTIFY_WORDS)'
      BY <1>1, <1>4, <1>5, <2>1, IdentifyWord
    <3> QED BY <3>1, <2>1 DEF PlaceSound
  <2>4. UnitSound'
    BY <2>1, <1>1, <1>2, <1>4, Goes
  <2> QED BY <2>2, <2>3, <2>4, <1>3 DEF DriverInv
<1>6. CASE ~(i + 1 < IDENTIFY_WORDS)
  BY <1>1, <1>2, <1>3, <1>4, <1>6, Leaves
<1> QED BY <1>5, <1>6

LEMMA SendPacketKeeps == ASSUME DriverInv, SendPacket PROVE DriverInv'
<1>1. /\ packet_size # 0 /\ drive' = unit /\ pc' = "select" /\ i' = 0 /\ unit' = unit
      /\ packet_size' = packet_size /\ UNCHANGED <<device, kind>> /\ early' = early
  BY DEF SendPacket, At
<1>2. DeviceTypes /\ DriveSound'
  BY <1>1, DeviceSame
<1>3. unit # 0 /\ unit \in Drives /\ kind[unit] = "atapi"
  BY <1>1 DEF DriverInv, UnitSound, TypeOK
<1>4. TypeOK'
  BY <1>1, <1>2, <1>3 DEF DriverInv, TypeOK, DeviceTypes, CommandPlaces
<1>5. PlaceSound'
  BY <1>1 DEF PlaceSound
<1>6. UnitSound'
  BY <1>1, <1>3 DEF DriverInv, UnitSound
<1> QED BY <1>2, <1>4, <1>5, <1>6 DEF DriverInv

LEMMA PacketCommandKeeps == ASSUME DriverInv, PacketCommand PROVE DriverInv'
<1>1. pc = "select" /\ pc' = "packet_poll" /\ i' = 0 /\ Stays /\ Issue("PACKET")
  BY DEF PacketCommand, At, Go, Stays
<1>2. TypeOK /\ DriveSound /\ "PACKET" \in Commands \ {"none"}
      /\ pc \in CommandPlaces /\ pc' \in CommandPlaces \cup {"idle"}
  BY <1>1 DEF DriverInv, Commands, CommandPlaces
<1>3. /\ DeviceTypes /\ DriveSound' /\ early' = FALSE
      /\ Present(drive) => command'[drive] = "PACKET"
  BY <1>1, <1>2, Issued DEF Stays
<1>4. TypeOK'
  BY <1>1, <1>2, <1>3 DEF TypeOK, DeviceTypes, CommandPlaces, Stays
<1>5. PlaceSound'
  BY <1>1, <1>3 DEF PlaceSound, Present, Asked, Stays
<1>6. UnitSound'
  BY <1>1, <1>2, Proceeds
<1> QED BY <1>3, <1>4, <1>5, <1>6 DEF DriverInv

LEMMA PacketPollKeeps == ASSUME DriverInv, PacketPoll PROVE DriverInv'
<1>1. /\ pc = "packet_poll" /\ ~Busy(Status) /\ PollEnds /\ UNCHANGED <<device, kind>>
      /\ Stays /\ i' = 0 /\ pc' = IF "ERR" \in Status THEN "idle" ELSE "packet_data"
  BY DEF PacketPoll, At, Return, Go, Stays
<1>2. DeviceTypes /\ DriveSound' /\ UNCHANGED <<status, command, left, count>>
  BY <1>1, DeviceSame
<1>3. /\ early' \in BOOLEAN
      /\ Present(drive) /\ ~early' => ~early /\ command[drive] = "none" /\ Status = status[drive]
  BY <1>1, PollEnded
<1>4. pc \in CommandPlaces /\ pc' \in CommandPlaces \cup {"idle"}
  BY <1>1 DEF CommandPlaces
<1>5. TypeOK'
  BY <1>1, <1>2, <1>3, <1>4 DEF DriverInv, TypeOK, DeviceTypes, Stays
<1>6. UnitSound' /\ (pc' = "idle" => PlaceSound')
  BY <1>1, <1>4, Proceeds
<1>7. PlaceSound'
  <2> SUFFICES ASSUME Present(drive), ~early', pc' = "packet_data" PROVE PlaceSound'
    BY <1>1, <1>6 DEF PlaceSound, Present, Stays
  <2>1. ~early /\ command[drive] = "none" /\ "ERR" \notin status[drive]
    BY <1>1, <1>3
  <2>2. packet_size # 0
    BY <1>4 DEF DriverInv, UnitSound
  <2>3. packet_size \in Nat \ {0, 1}
    BY <2>2, AtapiAssumption DEF DriverInv, TypeOK
  <2>4. Asked(drive, "PACKET", packet_size \div 2)
    BY <1>1, <2>1 DEF DriverInv, PlaceSound
  <2> DEFINE n == packet_size \div 2
  <2>5. n \in Nat /\ 0 < n
    BY <2>3
  <2>6. "DRQ" \in status[drive] /\ left[drive] = n
    BY <2>1, <2>4 DEF Asked
  <2>7. /\ command'[drive'] = "none" /\ "DRQ" \in status'[drive']
        /\ i' = 0 /\ left'[drive'] = n /\ packet_size' \div 2 = n
    BY <2>1, <2>6, <1>1, <1>2 DEF Stays
  <2> HIDE DEF n
  <2>8. i' < packet_size' \div 2 /\ left'[drive'] = packet_size' \div 2 - i'
    BY <2>5, <2>7
  <2> QED BY <2>7, <2>8 DEF PlaceSound, Moving
<1> QED BY <1>2, <1>5, <1>6, <1>7 DEF DriverInv

LEMMA PacketDataKeeps == ASSUME DriverInv, PacketData PROVE DriverInv'
<1>1. /\ pc = "packet_data" /\ Transfer("packet") /\ kind' = kind
      /\ drive' = drive /\ unit' = unit /\ packet_size' = packet_size /\ Stays
      /\ IF i + 1 < packet_size \div 2 THEN i' = i + 1 /\ pc' = pc ELSE pc' = "answer_poll" /\ i' = 0
  BY DEF PacketData, At, Go, Stays
<1>2. TypeOK /\ DriveSound /\ "packet" \in Commands
  BY DEF DriverInv, Commands
<1>3. /\ DeviceTypes /\ DriveSound' /\ count' = count /\ early' = early
      /\ left'[drive] = IF left[drive] = 0 THEN 0 ELSE left[drive] - 1
      /\ command'[drive] = IF left[drive] = 1 THEN "packet" ELSE command[drive]
      /\ left[drive] # 1 => status'[drive] = status[drive]
  BY <1>1, <1>2, Transferred
<1>4. pc \in CommandPlaces /\ pc' \in CommandPlaces /\ pc' \in CommandPlaces \cup {"idle"} /\ pc' # "idle"
  BY <1>1 DEF CommandPlaces
<1>5. TypeOK'
  <2>1. i' \in Nat
    BY <1>1, <1>2 DEF TypeOK
  <2> QED BY <1>1, <1>2, <1>3, <1>4, <2>1 DEF TypeOK, DeviceTypes
<1>6. UnitSound'
  BY <1>1, <1>4, Proceeds
<1>7. kind[drive] = "atapi" /\ Present(drive) /\ drive \in Drives /\ packet_size # 0
  BY <1>4 DEF DriverInv, UnitSound, Present, TypeOK
<1> DEFINE n == packet_size \div 2
           k == left[drive]
<1>8. n \in Nat /\ k \in Nat /\ i \in Nat
  BY <1>2, <1>7, AtapiAssumption DEF TypeOK
<1>9. ~early => command[drive] = "none" /\ "DRQ" \in status[drive] /\ i < n /\ k = n - i
  BY <1>1, <1>7 DEF DriverInv, PlaceSound, Moving
<1>10. packet_size' \div 2 = n /\ left'[drive] = (IF k = 0 THEN 0 ELSE k - 1)
  BY <1>1, <1>3
<1>11. /\ command'[drive] = IF k = 1 THEN "packet" ELSE command[drive]
       /\ k # 1 => status'[drive] = status[drive]
  BY <1>3
<1>12. IF i + 1 < n THEN i' = i + 1 /\ pc' = pc ELSE pc' = "answer_poll" /\ i' = 0
  BY <1>1
<1> HIDE DEF n, k
<1>13. PlaceSound'
  <2> SUFFICES ASSUME ~early PROVE PlaceSound'
    BY <1>3 DEF PlaceSound
  <2>1. CASE i + 1 < n
    <3>1. k # 1 /\ k # 0 /\ k - 1 = n - (i + 1) /\ i' = i + 1
      BY <2>1, <1>8, <1>9, <1>12
    <3>2. command'[drive'] = "none" /\ "DRQ" \in status'[drive'] /\ left'[drive'] = k - 1
      BY <3>1, <1>1, <1>9, <1>10, <1>11
    <3>3. i' < packet_size' \div 2 /\ left'[drive'] = packet_size' \div 2 - i'
      BY <3>1, <3>2, <2>1, <1>10
    <3>4. pc' = "packet_data"
      BY <1>1, <2>1, <1>12
    <3> QED BY <3>2, <3>3, <3>4 DEF PlaceSound, Moving
  <2>2. CASE ~(i + 1 < n)
    <3>1. k = 1
      BY <2>2, <1>8, <1>9
    <3>2. command'[drive'] = "packet" /\ left'[drive'] = 0 /\ i' = 0 /\ pc' = "answer_poll"
      BY <3>1, <2>2, <1>1, <1>10, <1>11, <1>12
    <3> QED BY <3>2 DEF PlaceSound
  <2> QED BY <2>1, <2>2
<1> QED BY <1>3, <1>5, <1>6, <1>13 DEF DriverInv

\* Answers have whole words, so the driver reads as many as the device sends.
LEMMA AllWordsRead ==
    ASSUME NEW n \in Counts
    PROVE  WordsRead(n) = (n + 1) \div 2 /\ WordsRead(n) \in Nat \ {0}
<1>1. n \in Nat \ {0} /\ n % 2 = 0 /\ RESP_BYTES \in Nat /\ RESP_BYTES % 2 = 0
  BY AtapiAssumption
<1>2. CASE n > RESP_BYTES
  <2>1. RESP_BYTES \div 2 + (n - RESP_BYTES + 1) \div 2 = (n + 1) \div 2 /\ (n + 1) \div 2 \in Nat \ {0}
    BY <1>1, <1>2
  <2> QED BY <2>1, <1>2 DEF WordsRead
<1>3. CASE ~(n > RESP_BYTES)
  <2>1. n \div 2 = (n + 1) \div 2 /\ n \div 2 \in Nat \ {0}
    BY <1>1
  <2> QED BY <2>1, <1>3 DEF WordsRead
<1> QED BY <1>2, <1>3

\* What the invariant says of an answer.
LEMMA AnswerPlace ==
    ASSUME DriverInv, pc \in {"answer_poll", "answer_data"}
    PROVE  /\ pc \in CommandPlaces /\ kind[drive] = "atapi" /\ Present(drive)
           /\ Status = status[drive] /\ drive \in Drives
           /\ i \in Nat /\ left[drive] \in Nat /\ count[drive] \in Nat
<1>1. pc \in CommandPlaces
  BY DEF CommandPlaces
<1>2. kind[drive] = "atapi" /\ drive \in Drives
  BY <1>1 DEF DriverInv, UnitSound, TypeOK
<1> QED BY <1>1, <1>2, StatusOf DEF DriverInv, TypeOK, Present

LEMMA AnswerPollKeeps == ASSUME DriverInv, AnswerPoll PROVE DriverInv'
<1>1. /\ pc = "answer_poll" /\ ~Busy(Status) /\ PollEnds /\ UNCHANGED <<device, kind>>
      /\ drive' = drive /\ Stays /\ i' = 0
      /\ IF "ERR" \in Status THEN pc' = "idle"
         ELSE IF "DRQ" \in Status THEN pc' = "answer_data" ELSE pc' = "idle"
  BY DEF AnswerPoll, At, Return, Go, AfterAnswer, Stays
<1>2. DeviceTypes /\ DriveSound' /\ UNCHANGED <<status, command, left, count>>
  BY <1>1, DeviceSame
<1>3. /\ early' \in BOOLEAN
      /\ Present(drive) /\ ~early' => ~early /\ command[drive] = "none" /\ Status = status[drive]
  BY <1>1, PollEnded
<1>4. pc \in CommandPlaces /\ pc' \in CommandPlaces \cup {"idle"}
  BY <1>1 DEF CommandPlaces
<1>5. TypeOK'
  BY <1>1, <1>2, <1>3, <1>4 DEF DriverInv, TypeOK, DeviceTypes, Stays
<1>6. UnitSound' /\ (pc' = "idle" => PlaceSound')
  BY <1>1, <1>4, Proceeds
<1>7. PlaceSound'
  <2> SUFFICES ASSUME Present(drive), ~early', pc' = "answer_data" PROVE PlaceSound'
    BY <1>1, <1>6 DEF PlaceSound, Present, Stays
  <2>1. ~early /\ command[drive] = "none" /\ "DRQ" \in status[drive]
    BY <1>1, <1>3
  <2>2. i = 0 /\ AnswerWords(drive)
    BY <1>1, <2>1 DEF DriverInv, PlaceSound
  <2>3. AnswerWords(drive)'
    BY <2>2, <1>1, <1>2 DEF AnswerWords, WordsRead
  <2> QED BY <2>1, <2>3, <1>1, <1>2 DEF PlaceSound
<1> QED BY <1>2, <1>5, <1>6, <1>7 DEF DriverInv

LEMMA AnswerDataKeeps == ASSUME DriverInv, AnswerData PROVE DriverInv'
<1>1. /\ pc = "answer_data" /\ i < WordsRead(count[drive]) /\ Transfer("complete") /\ i' = i + 1
      /\ UNCHANGED <<pc, drive, packet_size, unit, kind>>
  BY DEF AnswerData, At
<1>2. TypeOK /\ DriveSound /\ "complete" \in Commands
  BY DEF DriverInv, Commands
<1>3. /\ DeviceTypes /\ DriveSound' /\ count' = count /\ early' = early
      /\ left'[drive] = IF left[drive] = 0 THEN 0 ELSE left[drive] - 1
      /\ command'[drive] = IF left[drive] = 1 THEN "complete" ELSE command[drive]
      /\ left[drive] # 1 => status'[drive] = status[drive]
  BY <1>1, <1>2, Transferred
<1>4. /\ pc \in CommandPlaces /\ Present(drive) /\ i \in Nat /\ left[drive] \in Nat
      /\ pc' \in CommandPlaces \cup {"idle"} /\ pc' # "idle"
  BY <1>1, AnswerPlace
<1>5. TypeOK'
  <2>1. i' \in Nat
    BY <1>1, <1>4
  <2> QED BY <1>1, <1>2, <1>3, <2>1 DEF TypeOK, DeviceTypes
<1>6. UnitSound'
  BY <1>1, <1>4, Proceeds DEF Stays
<1>7. PlaceSound'
  <2> SUFFICES ASSUME ~early PROVE PlaceSound'
    BY <1>3 DEF PlaceSound
  <2>1. /\ count[drive] \in Counts /\ left[drive] = WordsRead(count[drive]) - i
        /\ command[drive] \in {"complete", "none"}
        /\ left[drive] # 0 => command[drive] = "none" /\ "DRQ" \in status[drive]
    BY <1>1, <1>4 DEF DriverInv, PlaceSound, AnswerWords
  <2>2. WordsRead(count[drive]) \in Nat
    BY <2>1, AllWordsRead
  <2>3. left[drive] # 0 /\ left[drive] - 1 = WordsRead(count[drive]) - (i + 1)
    <3> DEFINE k == left[drive]
               w == WordsRead(count[drive])
    <3>1. k \in Nat /\ w \in Nat /\ i \in Nat /\ i < w /\ k = w - i
      BY <1>1, <1>4, <2>1, <2>2
    <3> HIDE DEF k, w
    <3>2. k # 0 /\ k - 1 = w - (i + 1)
      BY <3>1
    <3> QED BY <3>2 DEF k, w
  <2>4. AnswerWords(drive)'
    <3>1. left'[drive] = WordsRead(count[drive]) - (i + 1)
      BY <1>3, <2>3
    <3> QED BY <3>1, <1>1, <1>3, <2>1 DEF AnswerWords, WordsRead
  <2>5. command'[drive] \in {"complete", "none"}
    BY <1>3, <2>1
  <2>6. left'[drive] # 0 => left[drive] # 1
    BY <1>3
  <2>7. left'[drive] # 0 => command'[drive] = "none" /\ "DRQ" \in status'[drive]
    BY <2>6, <1>3, <2>1, <2>3
  <2> QED BY <2>4, <2>5, <2>7, <1>1 DEF PlaceSound
<1> QED BY <1>3, <1>5, <1>6, <1>7 DEF DriverInv

LEMMA CompleteKeeps == ASSUME DriverInv, Complete PROVE DriverInv'
<1>1. /\ pc = "answer_data" /\ pc' = "idle" /\ i' = 0 /\ Stays
      /\ UNCHANGED <<device, kind>> /\ early' = early
  BY DEF Complete, At, Return, Stays
<1>2. DeviceTypes /\ DriveSound'
  BY <1>1, DeviceSame
<1>3. pc \in CommandPlaces /\ pc' \in CommandPlaces \cup {"idle"}
  BY <1>1 DEF CommandPlaces
<1>4. TypeOK'
  BY <1>1, <1>2 DEF DriverInv, TypeOK, DeviceTypes, Stays
<1>5. UnitSound' /\ (pc' = "idle" => PlaceSound')
  BY <1>1, <1>3, Proceeds
<1> QED BY <1>1, <1>2, <1>4, <1>5 DEF DriverInv

(***************************************************************************)
(* The steps of the drives                                                 *)
(***************************************************************************)
\* What the driver may rely on is about its own drive, when one of the drives
\* takes a step.
Fixed ==
    /\ pc' = pc /\ drive' = drive /\ i' = i /\ packet_size' = packet_size /\ unit' = unit
    /\ kind' = kind /\ early' = early

LEMMA UnitKept == ASSUME UnitSound, Fixed PROVE UnitSound'
  BY DEF UnitSound, Present, Fixed

\* The selected drive keeps what is said of it when another one moves.
LEMMA PlaceKept ==
    ASSUME PlaceSound, Fixed, command'[drive] = command[drive], left'[drive] = left[drive],
           status'[drive] = status[drive], count'[drive] = count[drive]
    PROVE  PlaceSound'
<1> USE DEF Fixed
<1>1. Present(drive)' <=> Present(drive)
  BY DEF Present
<1>2. AnswerWords(drive)' <=> AnswerWords(drive)
  BY DEF AnswerWords, WordsRead
<1>3. ASSUME NEW n PROVE Moving(drive, n)' <=> Moving(drive, n)
  BY DEF Moving
<1>4. ASSUME NEW n, NEW c PROVE Asked(drive, c, n)' <=> Asked(drive, c, n)
  BY DEF Asked
<1>5. Moving(drive, packet_size \div 2)' <=> Moving(drive, packet_size \div 2)
  BY DEF Moving
<1>6. Asked(drive, "PACKET", packet_size \div 2)' <=> Asked(drive, "PACKET", packet_size \div 2)
  BY DEF Asked
<1> QED BY <1>1, <1>2, <1>3, <1>4, <1>5, <1>6 DEF PlaceSound

LEMMA NoticeKeeps == ASSUME DriverInv, NEW d \in Drives, Notice(d) PROVE DriverInv'
<1>1. /\ command[d] # "none" /\ "BSY" \notin status[d] /\ Fixed
      /\ status' = [status EXCEPT ![d] = {"BSY", "DRDY"}]
      /\ command' = command /\ left' = left /\ count' = count
  BY DEF Notice, driver, Fixed
<1>2. TypeOK /\ {"BSY", "DRDY"} \in SUBSET Bits /\ drive \in Drives
  BY DEF DriverInv, TypeOK, Bits
<1>3. TypeOK'
  BY <1>1, <1>2 DEF TypeOK, Fixed
<1>4. status'[d] = {"BSY", "DRDY"} /\ \A e \in Drives \ {d} : status'[e] = status[e]
  BY <1>1, <1>2 DEF TypeOK
<1>5. DriveSound'
  BY <1>1, <1>4 DEF DriverInv, DriveSound, Present, Fixed
<1>6. PlaceSound'
  <2>1. CASE d = drive
    <3> SUFFICES ASSUME Present(drive), ~early PROVE PlaceSound'
      BY <1>1 DEF PlaceSound, Present, Fixed
    <3>1. left[drive] = 0 /\ command[drive] # "none"
      BY <2>1, <1>1, <1>2 DEF DriverInv, DriveSound
    <3>2. /\ pc \notin {"ata_data", "packet_id_data", "packet_data"}
          /\ pc = "ata_poll" => command[drive] = "IDENTIFY"
          /\ pc = "packet_id_poll" => command[drive] = "IDENTIFY_PACKET"
          /\ pc = "packet_poll" => command[drive] = "PACKET"
          /\ pc = "answer_poll" => i = 0 /\ command[drive] = "packet"
          /\ pc = "answer_data" => AnswerWords(drive) /\ command[drive] = "complete"
      BY <3>1 DEF DriverInv, PlaceSound, Asked, Moving
    <3>3. pc = "answer_data" => AnswerWords(drive)'
      BY <3>2, <1>1 DEF AnswerWords, WordsRead, Fixed
    <3> QED BY <3>1, <3>2, <3>3, <1>1 DEF PlaceSound, Asked, Fixed
  <2>2. CASE d # drive
    <3>1. status'[drive] = status[drive]
      BY <2>2, <1>2, <1>4
    <3> QED BY <3>1, <1>1, PlaceKept DEF DriverInv
  <2> QED BY <2>1, <2>2
<1>7. UnitSound'
  BY <1>1, UnitKept DEF DriverInv
<1> QED BY <1>3, <1>5, <1>6, <1>7 DEF DriverInv

\* A drive d that failed, or answered with status s and n words; `last' is the
\* command that it had.
Outcome(d, last, s, n) ==
    /\ s \in SUBSET Bits /\ "BSY" \notin s /\ n \in Nat
    /\ "ERR" \in s => n = 0 /\ "DRQ" \notin s
    /\ "DRQ" \notin s => n = 0
    /\ last = "complete" => n = 0
    /\ last \in {"IDENTIFY", "IDENTIFY_PACKET"} /\ "ERR" \notin s => "DRQ" \in s /\ n = IDENTIFY_WORDS
    /\ last = "PACKET" /\ "ERR" \notin s => "DRQ" \in s /\ n = packet_size \div 2
    /\ last = "packet" /\ "DRQ" \in s =>
         count'[d] \in Counts /\ n = (count'[d] + 1) \div 2
    /\ last # "packet" => count'[d] = count[d]

LEMMA Spoke ==
    ASSUME TypeOK, NEW d \in Drives, NEW s, NEW n, Says(d, s, n)
    PROVE  /\ status'[d] = s /\ left'[d] = n /\ command'[d] = "none"
           /\ \A e \in Drives \ {d} : status'[e] = status[e] /\ command'[e] = command[e] /\ left'[e] = left[e]
           /\ s \in SUBSET Bits /\ n \in Nat =>
                /\ status' \in [Drives -> SUBSET Bits] /\ command' \in [Drives -> Commands]
                /\ left' \in [Drives -> Nat]
  BY DEF Says, TypeOK, Commands

Moved(d) ==
    /\ command'[d] = "none" /\ DeviceTypes
    /\ \A e \in Drives \ {d} : /\ status'[e] = status[e] /\ command'[e] = command[e]
                               /\ left'[e] = left[e] /\ count'[e] = count[e]
    /\ Outcome(d, command[d], status'[d], left'[d])

LEMMA Answer ==
    ASSUME DriverInv, NEW d \in Drives, DeviceAnswers(d)
    PROVE  command[d] # "none" /\ Fixed /\ Moved(d)
<1>1. command[d] # "none" /\ Fixed
  BY DEF DeviceAnswers, driver, Fixed
<1>2. /\ TypeOK /\ IDENTIFY_WORDS \in Nat /\ packet_size \in Nat
      /\ \A n \in Counts : n \in Nat /\ (n + 1) \div 2 \in Nat
      /\ {"DRDY", "ERR"} \in SUBSET Bits /\ {"DRDY", "DRQ"} \in SUBSET Bits /\ {"DRDY"} \in SUBSET Bits
  BY AtapiAssumption DEF DriverInv, TypeOK, Bits
<1>3. packet_size \div 2 \in Nat
  BY <1>2
<1>4. ASSUME NEW s \in SUBSET Bits, NEW n \in Nat, Says(d, s, n), count' \in [Drives -> Nat],
             \A e \in Drives \ {d} : count'[e] = count[e], Outcome(d, command[d], s, n)
      PROVE  Moved(d)
  <2>1. /\ status'[d] = s /\ left'[d] = n /\ command'[d] = "none"
        /\ \A e \in Drives \ {d} : status'[e] = status[e] /\ command'[e] = command[e] /\ left'[e] = left[e]
        /\ s \in SUBSET Bits /\ n \in Nat =>
             /\ status' \in [Drives -> SUBSET Bits] /\ command' \in [Drives -> Commands]
             /\ left' \in [Drives -> Nat]
    BY <1>4, <1>2, Spoke
  <2> QED BY <1>4, <2>1 DEF DeviceTypes, Moved
<1>5. ASSUME NEW s, NEW n, Says(d, s, n), count' = count, s \in SUBSET Bits, n \in Nat,
             Outcome(d, command[d], s, n)
      PROVE  Moved(d)
  <2>1. count' \in [Drives -> Nat] /\ \A e \in Drives \ {d} : count'[e] = count[e]
    BY <1>5, <1>2 DEF TypeOK
  <2> QED BY <2>1, <1>5, <1>4
<1>6. CASE Fails(d)
  <2>1. Says(d, {"DRDY", "ERR"}, 0) /\ count' = count
    BY <1>6 DEF Fails
  <2>2. Outcome(d, command[d], {"DRDY", "ERR"}, 0)
    BY <2>1, <1>2 DEF Outcome
  <2> QED BY <2>1, <2>2, <1>5, <1>1, <1>2
<1>7. CASE /\ \/ command[d] = "IDENTIFY" /\ kind[d] = "ata"
              \/ command[d] = "IDENTIFY_PACKET" /\ kind[d] = "atapi"
           /\ Offers(d, IDENTIFY_WORDS)
  <2>1. Says(d, {"DRDY", "DRQ"}, IDENTIFY_WORDS) /\ count' = count
    BY <1>7 DEF Offers
  <2>2. Outcome(d, command[d], {"DRDY", "DRQ"}, IDENTIFY_WORDS)
    BY <1>7, <2>1, <1>2 DEF Outcome
  <2> QED BY <2>1, <2>2, <1>5, <1>1, <1>2
<1>8. CASE command[d] = "PACKET" /\ Offers(d, packet_size \div 2)
  <2>1. Says(d, {"DRDY", "DRQ"}, packet_size \div 2) /\ count' = count
    BY <1>8 DEF Offers
  <2>2. Outcome(d, command[d], {"DRDY", "DRQ"}, packet_size \div 2)
    BY <1>8, <2>1, <1>2, <1>3 DEF Outcome
  <2> QED BY <2>1, <2>2, <1>5, <1>1, <1>2, <1>3
<1>9. CASE command[d] \in {"packet", "complete"} /\ Says(d, {"DRDY"}, 0) /\ UNCHANGED count
  <2>1. Outcome(d, command[d], {"DRDY"}, 0)
    BY <1>9, <1>2 DEF Outcome
  <2> QED BY <2>1, <1>9, <1>5, <1>1, <1>2
<1>10. ASSUME NEW m \in Counts, command[d] = "packet", Says(d, {"DRDY", "DRQ"}, (m + 1) \div 2),
             count' = [count EXCEPT ![d] = m]
      PROVE  Moved(d)
  <2>1. /\ count' \in [Drives -> Nat] /\ count'[d] = m
        /\ \A e \in Drives \ {d} : count'[e] = count[e]
    BY <1>10, <1>2 DEF TypeOK
  <2>2. Outcome(d, command[d], {"DRDY", "DRQ"}, (m + 1) \div 2)
    BY <1>10, <2>1, <1>2 DEF Outcome
  <2> QED BY <2>1, <2>2, <1>10, <1>4, <1>2
<1>11. \/ Fails(d)
       \/ /\ \/ command[d] = "IDENTIFY" /\ kind[d] = "ata"
             \/ command[d] = "IDENTIFY_PACKET" /\ kind[d] = "atapi"
          /\ Offers(d, IDENTIFY_WORDS)
       \/ command[d] = "PACKET" /\ Offers(d, packet_size \div 2)
       \/ command[d] \in {"packet", "complete"} /\ Says(d, {"DRDY"}, 0) /\ UNCHANGED count
       \/ /\ command[d] = "packet"
          /\ \E m \in Counts : /\ Says(d, {"DRDY", "DRQ"}, (m + 1) \div 2)
                               /\ count' = [count EXCEPT ![d] = m]
  BY DEF DeviceAnswers
<1> QED BY <1>1, <1>6, <1>7, <1>8, <1>9, <1>10, <1>11

LEMMA DeviceAnswersKeeps == ASSUME DriverInv, NEW d \in Drives, DeviceAnswers(d) PROVE DriverInv'
<1>1. command[d] # "none" /\ Fixed /\ Moved(d)
  BY Answer
<1>2. /\ command'[d] = "none" /\ DeviceTypes
      /\ \A e \in Drives \ {d} : /\ status'[e] = status[e] /\ command'[e] = command[e]
                                 /\ left'[e] = left[e] /\ count'[e] = count[e]
      /\ Outcome(d, command[d], status'[d], left'[d])
  BY <1>1 DEF Moved
<1>3. TypeOK /\ drive \in Drives /\ command[d] \in Commands /\ left'[d] \in Nat
      /\ kind[d] \in DriveKinds
  BY <1>2 DEF DriverInv, TypeOK, DeviceTypes
<1>4. TypeOK'
  BY <1>1, <1>2, <1>3 DEF TypeOK, DeviceTypes, Fixed
<1>5. DriveSound'
  <2>1. "BSY" \notin status'[d]
    BY <1>2 DEF Outcome
  <2> QED BY <1>1, <1>2, <2>1 DEF DriverInv, DriveSound, Present, Fixed
<1>6. UnitSound'
  BY <1>1, UnitKept DEF DriverInv
<1>7. PlaceSound'
  <2>1. CASE d # drive
    <3>1. /\ command'[drive] = command[drive] /\ left'[drive] = left[drive]
          /\ status'[drive] = status[drive] /\ count'[drive] = count[drive]
      BY <2>1, <1>2, <1>3
    <3> QED BY <3>1, <1>1, PlaceKept DEF DriverInv
  <2>2. CASE d = drive /\ ~(Present(drive) /\ ~early)
    BY <2>2, <1>1 DEF PlaceSound, Present, Fixed
  <2>3. CASE d = drive /\ Present(drive) /\ ~early
    <3>1. PlaceSound /\ drive' = drive /\ i' = i /\ pc' = pc /\ packet_size' = packet_size /\ kind' = kind
          /\ early' = early
      BY <1>1 DEF DriverInv, Fixed
    <3>2. /\ command[drive] # "none" /\ command'[drive] = "none" /\ left'[drive] \in Nat
          /\ Outcome(drive, command[drive], status'[drive], left'[drive])
      BY <2>3, <1>1, <1>2, <1>3
    <3>3. command[drive] # "none" => left[drive] = 0
      BY <2>3, <1>3 DEF DriverInv, DriveSound
    <3>4. pc = "ata_poll" => Asked(drive, "IDENTIFY", IDENTIFY_WORDS)'
      <4>1. pc = "ata_poll" => command[drive] = "IDENTIFY"
        BY <3>1, <3>2, <2>3 DEF PlaceSound, Asked
      <4> QED BY <4>1, <3>1, <3>2 DEF Outcome, Asked
    <3>5. pc \notin {"ata_data", "packet_id_data", "packet_data"}
      BY <3>1, <3>2, <2>3 DEF PlaceSound, Moving
    <3>6. pc = "packet_id_poll" => Asked(drive, "IDENTIFY_PACKET", IDENTIFY_WORDS)'
      <4>1. pc = "packet_id_poll" => command[drive] = "IDENTIFY_PACKET"
        BY <3>1, <3>2, <2>3 DEF PlaceSound, Asked
      <4> QED BY <4>1, <3>1, <3>2 DEF Outcome, Asked
    <3>7. pc = "packet_poll" => Asked(drive, "PACKET", packet_size \div 2)'
      <4>1. pc = "packet_poll" => command[drive] = "PACKET"
        BY <3>1, <3>2, <2>3 DEF PlaceSound, Asked
      <4>2. ASSUME pc = "packet_poll", "ERR" \notin status'[drive]
            PROVE  "DRQ" \in status'[drive] /\ left'[drive] = packet_size \div 2
        BY <4>1, <4>2, <3>2 DEF Outcome
      <4>3. "ERR" \in status'[drive] => left'[drive] = 0
        BY <3>2 DEF Outcome
      <4>4. packet_size' \div 2 = packet_size \div 2
        BY <3>1
      <4> QED BY <4>2, <4>3, <4>4, <3>1, <3>2 DEF Asked
    <3>8. pc = "answer_poll" =>
            /\ i = 0
            /\ left'[drive] # 0 => /\ "ERR" \notin status'[drive] /\ "DRQ" \in status'[drive]
                                   /\ count'[drive] \in Counts
                                   /\ left'[drive] = WordsRead(count'[drive]) - 0
            /\ left'[drive] = 0 => "DRQ" \notin status'[drive]
      <4> SUFFICES ASSUME pc = "answer_poll" PROVE
            /\ i = 0
            /\ left'[drive] # 0 => /\ "ERR" \notin status'[drive] /\ "DRQ" \in status'[drive]
                                   /\ count'[drive] \in Counts
                                   /\ left'[drive] = WordsRead(count'[drive]) - 0
            /\ left'[drive] = 0 => "DRQ" \notin status'[drive]
        OBVIOUS
      <4>1. i = 0 /\ command[drive] = "packet"
        BY <3>1, <3>2, <2>3 DEF PlaceSound
      <4>2. /\ "ERR" \in status'[drive] => left'[drive] = 0 /\ "DRQ" \notin status'[drive]
            /\ "DRQ" \notin status'[drive] => left'[drive] = 0
            /\ "DRQ" \in status'[drive] =>
                 count'[drive] \in Counts /\ left'[drive] = (count'[drive] + 1) \div 2
        BY <4>1, <3>2 DEF Outcome
      <4>3. "DRQ" \in status'[drive] => /\ left'[drive] = WordsRead(count'[drive])
                                        /\ left'[drive] \in Nat \ {0}
        BY <4>2, AllWordsRead
      <4>4. left'[drive] \in Nat => left'[drive] = left'[drive] - 0
        OBVIOUS
      <4> QED BY <4>1, <4>2, <4>3, <4>4, <3>2
    <3>9. pc = "answer_data" =>
             /\ count'[drive] \in Counts /\ left'[drive] = WordsRead(count'[drive]) - i
             /\ left'[drive] = 0
      <4> SUFFICES ASSUME pc = "answer_data"
                   PROVE  /\ count'[drive] \in Counts /\ left'[drive] = WordsRead(count'[drive]) - i
                          /\ left'[drive] = 0
        OBVIOUS
      <4>1. /\ count[drive] \in Counts /\ left[drive] = WordsRead(count[drive]) - i
            /\ command[drive] = "complete"
        BY <3>1, <3>2, <2>3 DEF PlaceSound, AnswerWords
      <4>2. count'[drive] = count[drive] /\ left'[drive] = 0
        BY <4>1, <3>2 DEF Outcome
      <4> QED BY <4>1, <4>2, <3>2, <3>3
    <3>10. AnswerWords(drive)' <=> count'[drive] \in Counts /\ left'[drive] = WordsRead(count'[drive]) - i
      BY <3>1 DEF AnswerWords, WordsRead
    <3>11. pc = "answer_poll" /\ left'[drive] # 0 => AnswerWords(drive)'
      BY <3>8, <3>10
    <3>12. pc = "answer_data" => AnswerWords(drive)'
      BY <3>9, <3>10
    <3> QED BY <3>1, <3>2, <3>4, <3>5, <3>6, <3>7, <3>8, <3>9, <3>11, <3>12 DEF PlaceSound
  <2> QED BY <2>1, <2>2, <2>3
<1> QED BY <1>4, <1>5, <1>6, <1>7 DEF DriverInv

(***************************************************************************)
(* The theorems                                                            *)
(***************************************************************************)
LEMMA DriverInit == ASSUME Init PROVE DriverInv
<1>1. /\ pc = "ata" /\ drive = 1 /\ i = 0 /\ packet_size = 0 /\ unit = 0
      /\ kind \in [Drives -> Kinds]
      /\ status = [d \in Drives |-> {"DRDY"}] /\ command = [d \in Drives |-> "none"]
      /\ left = [d \in Drives |-> 0] /\ count = [d \in Drives |-> 0] /\ early = FALSE
  BY DEF Init
<1>2. /\ DRIVES \in Nat \ {0} /\ Kinds \subseteq DriveKinds
  BY AtapiAssumption DEF DriveKinds
<1>3. 1 \in Drives
  BY <1>2 DEF Drives
<1>4. TypeOK
  <2>1. kind \in [Drives -> DriveKinds]
    BY <1>1, <1>2
  <2> QED BY <2>1, <1>1, <1>3 DEF TypeOK, Bits, Commands, ProbePlaces
<1>5. \A d \in Drives : command[d] = "none" /\ left[d] = 0 /\ status[d] = {"DRDY"}
  BY <1>1
<1>6. DriveSound
  BY <1>5 DEF DriveSound
<1>7. PlaceSound
  BY <1>1 DEF PlaceSound
<1>8. UnitSound
  BY <1>1 DEF UnitSound, CommandPlaces
<1> QED BY <1>4, <1>6, <1>7, <1>8 DEF DriverInv

LEMMA DriverNext == ASSUME DriverInv, [Next]_vars PROVE DriverInv'
<1>1. ASSUME UNCHANGED vars PROVE DriverInv'
  <2>1. Fixed /\ UNCHANGED <<status, command, left, count>>
    BY <1>1 DEF vars, driver, device, Fixed
  <2>2. TypeOK' /\ DriveSound'
    BY <2>1 DEF DriverInv, TypeOK, DriveSound, Present, Fixed
  <2>3. PlaceSound'
    BY <2>1, PlaceKept DEF DriverInv
  <2>4. UnitSound'
    BY <2>1, UnitKept DEF DriverInv
  <2> QED BY <2>2, <2>3, <2>4 DEF DriverInv
<1>2. ASSUME Probe PROVE DriverInv'
  BY <1>2, AtaIdentifyKeeps, AtaPollKeeps, AtaDataKeeps, AtapiIdentifyKeeps, AtapiSignatureKeeps,
     AtapiPollKeeps, AtapiDataKeeps DEF Probe
<1>3. ASSUME Command PROVE DriverInv'
  BY <1>3, PacketCommandKeeps, PacketPollKeeps, PacketDataKeeps, AnswerPollKeeps, AnswerDataKeeps,
     CompleteKeeps DEF Command
<1>4. ASSUME NEW d \in Drives, Notice(d) \/ DeviceAnswers(d) PROVE DriverInv'
  BY <1>4, NoticeKeeps, DeviceAnswersKeeps
<1> QED BY <1>1, <1>2, <1>3, <1>4, SendPacketKeeps DEF Next

LEMMA DriverInvariant == Spec => []DriverInv
  BY DriverInit, DriverNext, PTL DEF Spec

\* What the driver may rely on is enough.
LEMMA InvSuffices == ASSUME DriverInv PROVE DataWhenReady
<1> SUFFICES ASSUME ~early PROVE DataWhenReady
  BY DEF DataWhenReady
<1>1. ASSUME pc \in {"ata_data", "packet_id_data", "packet_data", "answer_data"}, ~Answered
      PROVE  Ready(Status)
  <2>1. Present(drive) /\ drive \in Drives /\ Status = status[drive]
    <3>1. Present(drive)
      BY <1>1 DEF DriverInv, UnitSound, CommandPlaces, Present
    <3> QED BY <3>1, StatusOf DEF DriverInv, TypeOK
  <2>2. "DRQ" \in status[drive] /\ command[drive] = "none"
    <3>1. CASE pc # "answer_data"
      BY <3>1, <2>1, <1>1 DEF DriverInv, PlaceSound, Moving
    <3>2. CASE pc = "answer_data"
      <4>1. /\ count[drive] \in Counts /\ left[drive] = WordsRead(count[drive]) - i
            /\ left[drive] # 0 => command[drive] = "none" /\ "DRQ" \in status[drive]
        BY <3>2, <2>1 DEF DriverInv, PlaceSound, AnswerWords
      <4>2. ~(i >= WordsRead(count[drive])) /\ i \in Nat
        BY <3>2, <1>1 DEF Answered, DriverInv, TypeOK
      <4>3. WordsRead(count[drive]) \in Nat
        BY <4>1, AllWordsRead
      <4>4. left[drive] # 0
        BY <4>1, <4>2, <4>3
      <4> QED BY <4>1, <4>4
    <3> QED BY <3>1, <3>2
  <2>3. "BSY" \notin status[drive]
    BY <2>1, <2>2 DEF DriverInv, DriveSound
  <2> QED BY <2>1, <2>2, <2>3 DEF Ready
<1>2. ASSUME Answered PROVE left[drive] = 0
  <2>1. pc = "answer_data" /\ i >= WordsRead(count[drive])
    BY <1>2 DEF Answered
  <2>2. Present(drive) /\ i \in Nat /\ left[drive] \in Nat
    BY <2>1, AnswerPlace
  <2>3. count[drive] \in Counts /\ left[drive] = WordsRead(count[drive]) - i
    BY <2>1, <2>2 DEF DriverInv, PlaceSound, AnswerWords
  <2>4. WordsRead(count[drive]) \in Nat
    BY <2>3, AllWordsRead
  <2> DEFINE k == left[drive]
             w == WordsRead(count[drive])
  <2>5. k \in Nat /\ w \in Nat /\ i \in Nat /\ i >= w /\ k = w - i
    BY <2>1, <2>2, <2>3, <2>4
  <2> HIDE DEF k, w
  <2>6. k = 0
    BY <2>5
  <2> QED BY <2>6 DEF k
<1> QED BY <1>1, <1>2 DEF DataWhenReady

\* The driver polls the status once and then moves words without another look
\* (the loops at atapi.c:80, 144, 255, 279 and 291): in every reachable state
\* where it is about to move one, the drive has asked for it, and a command
\* ends with no word left in the drive, provided that no poll since the command
\* was written ended before the drive had noticed what it was given to do.  So
\* the reads of the status right after a write (atapi.c:68, 131, 243, 259) are
\* the only way to a word that the drive did not ask for.
THEOREM WordsWhenReady == Spec => []DataWhenReady
  BY DriverInvariant, InvSuffices, PTL
=============================================================================
