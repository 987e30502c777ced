------------------------------- MODULE Eeprom -------------------------------
(***************************************************************************)
(* EEPROM emulation in two pages of flash (spark_wiring_eeprom.cpp).  A    *)
(* page is a status and a log of slots: data first, then the address that  *)
(* makes the slot count.  A write appends a slot to the valid page; when   *)
(* that is full, the last value of every variable is transferred to the    *)
(* other page.  EEPROM_Init repairs what a power cut leaves behind.        *)
(*                                                                         *)
(* A call looks at the flash as it finds it and then does one flash        *)
(* operation after the other.  Each is a step, "at" is the next one; power *)
(* may be cut before each, and each may fail.                              *)
(***************************************************************************)
EXTENDS Integers, Sequences

CONSTANTS
  NumVars,   \* EEPROM_SIZE (100)
  Slots,     \* slots of a page (255)
  Values,    \* bytes written
  MaxFaults  \* bound: flash operations that fail

ASSUME EepromAssumption ==
  /\ NumVars \in Nat \ {0} /\ Slots \in Nat /\ Slots >= NumVars
  /\ Values \subseteq 0 .. 255
  /\ MaxFaults \in Nat

Addresses == 0 .. NumVars - 1
Pages == {0, 1}
Other(p) == 1 - p
Blank == 255                       \* what read() returns for no value
NoAddress == NumVars               \* an address half-word still erased
NoPage == 2                        \* NO_VALID_PAGE
NoWrite == [data |-> Blank, address |-> NoAddress]
Argument == -1                     \* before the first variable of a transfer

VARIABLES
  status,        \* of each page
  slots,         \* of each page
  call,          \* EEPROM_Init, WriteVariable, PageTransfer, or none
  at,            \* what the call does next
  new,           \* the page that will be valid
  index,         \* EepromAddressIdx; Argument while the argument is put
  pending,       \* the write under way
  allowed,       \* what each variable may read as
  faults,        \* flash operations that have failed
  disturbed      \* was a page transfer ever cut short?

vars == <<status, slots, call, at, new, index, pending, allowed, faults, disturbed>>

\* "data" and "address" put a slot; "copy" looks at the next variable; "erase"
\* and "valid" end a transfer, "mark" and "clean" a repair.
Places == {"idle", "receive", "data", "address", "copy", "erase", "valid",
           "format", "mark", "clean"}

Slot == [data : Values, address : Addresses \cup {NoAddress}]

TypeOK ==
  /\ status \in [Pages -> {"ERASED", "RECEIVE_DATA", "VALID_PAGE"}]
  /\ slots \in [Pages -> Seq(Slot)]
  /\ \A p \in Pages : Len(slots[p]) <= Slots /\ (status[p] = "ERASED" => slots[p] = <<>>)
  /\ call \in {"INIT", "WRITE", "TRANSFER", "NONE"} /\ at \in Places
  /\ call = "NONE" <=> at = "idle"
  /\ new \in Pages /\ index \in Argument .. NumVars
  /\ pending \in [data : Values, address : Addresses] \cup {NoWrite}
  /\ allowed \in [Addresses -> (SUBSET (Values \cup {Blank})) \ {{}}]
  /\ faults \in 0 .. MaxFaults /\ disturbed \in BOOLEAN

-----------------------------------------------------------------------------
(* Reading.                                                                *)

IsStatus(p, s) == status[p] = s

\* EEPROM_FindValidPage for reading and for writing.
ReadPage ==
  IF IsStatus(0, "VALID_PAGE") THEN 0
  ELSE IF IsStatus(1, "VALID_PAGE") THEN 1 ELSE NoPage
WritePage ==
  CASE IsStatus(1, "VALID_PAGE") -> IF IsStatus(0, "RECEIVE_DATA") THEN 0 ELSE 1
    [] ~IsStatus(1, "VALID_PAGE") /\ IsStatus(0, "VALID_PAGE") ->
         IF IsStatus(1, "RECEIVE_DATA") THEN 1 ELSE 0
    [] OTHER -> NoPage

\* EEPROM_ReadVariable searches the page from its end.
SlotsOf(log, a) == {i \in 1 .. Len(log) : log[i].address = a}
LastSlot(log, a) ==
  CHOOSE i \in SlotsOf(log, a) : \A j \in SlotsOf(log, a) : j <= i
LastData(log, a) ==
  IF SlotsOf(log, a) = {} THEN Blank ELSE log[LastSlot(log, a)].data

EEPROM_ReadVariable(a) ==
  IF ReadPage = NoPage THEN Blank ELSE LastData(slots[ReadPage], a)

-----------------------------------------------------------------------------
(* A call begins.                                                          *)

\* EEPROM_WriteVariable; without a valid page it does nothing.
EEPROM_WriteVariable(a, d) ==
  /\ WritePage # NoPage
  /\ pending' = [data |-> d, address |-> a] /\ index' = Argument
  /\ \/ /\ Len(slots[WritePage]) < Slots
        /\ call' = "WRITE" /\ at' = "data"
        /\ UNCHANGED new
     \/ /\ Len(slots[WritePage]) >= Slots
        /\ call' = "TRANSFER" /\ at' = "receive"
        /\ new' = Other(ReadPage)

EEPROM_write(a, d) ==
  /\ call = "NONE"
  /\ \/ EEPROM_WriteVariable(a, d)
     \/ WritePage = NoPage /\ UNCHANGED <<pending, index, call, at, new>>
  /\ allowed' = [allowed EXCEPT ![a] = @ \cup {d}]
  /\ UNCHANGED <<status, slots, faults, disturbed>>

\* EEPROM_Init: what it does about the status of page p and of the other one.
Repair(p) ==
  /\ IsStatus(p, "VALID_PAGE") /\ IsStatus(Other(p), "ERASED")
  /\ at' = "clean" /\ new' = p
Finish(p) ==
  /\ IsStatus(p, "RECEIVE_DATA") /\ IsStatus(Other(p), "ERASED")
  /\ at' = "erase" /\ new' = p
Resume(p) ==
  /\ IsStatus(p, "RECEIVE_DATA") /\ IsStatus(Other(p), "VALID_PAGE")
  /\ at' = "copy" /\ new' = p
EEPROM_Init ==
  \/ \E p \in Pages : Repair(p) \/ Finish(p) \/ Resume(p)
  \/ status[0] = status[1] /\ at' = "format" /\ new' = 0

\* A transfer of which the old page was not erased.
Halfway == \E p \in Pages : IsStatus(p, "RECEIVE_DATA") /\ IsStatus(Other(p), "VALID_PAGE")

\* A power cut, and the next boot.
PowerCut ==
  /\ EEPROM_Init /\ call' = "INIT" /\ index' = 0 /\ pending' = NoWrite
  /\ disturbed' = (disturbed \/ Halfway)
  /\ UNCHANGED <<status, slots, allowed, faults>>

-----------------------------------------------------------------------------
(* A call goes on.                                                         *)

\* The constructor fills EepromAddressTab after EEPROM_Init.
EepromAddressTab(i) == IF call = "INIT" THEN 0 ELSE i

\* What EEPROM_VerifyPageFullWriteVariable is called with.
Entry ==
  IF index = Argument THEN pending
  ELSE [data    |-> EEPROM_ReadVariable(EepromAddressTab(index)),
        address |-> EepromAddressTab(index)]

\* Flash can be programmed only where it is erased, or to zero; a slot only
\* while the page has room (PAGE_FULL).
CanDo_NoLimit == at = "receive" => IsStatus(new, "ERASED")
CanDo ==
  /\ at = "receive" => IsStatus(new, "ERASED")
  /\ at = "data" => Len(slots[WritePage]) < Slots

\* The rest of the call is at p, or the call has ended.
GoOn(p) ==
  /\ at' = p
  /\ UNCHANGED <<call, pending, allowed>>
Return ==
  /\ at' = "idle" /\ call' = "NONE" /\ pending' = NoWrite
  /\ allowed' = IF pending = NoWrite THEN allowed
                ELSE [allowed EXCEPT ![pending.address] = {pending.data}]

EraseFlash(p) ==
  /\ status' = [status EXCEPT ![p] = "ERASED"]
  /\ slots' = [slots EXCEPT ![p] = <<>>]
ProgramStatus(p, s) ==
  /\ status' = [status EXCEPT ![p] = s]
  /\ UNCHANGED slots

MarkReceive ==
  /\ at = "receive"
  /\ ProgramStatus(new, "RECEIVE_DATA")
  /\ GoOn("data") /\ UNCHANGED index

PutData ==
  /\ at = "data"
  /\ slots' = [slots EXCEPT ![WritePage] =
                 Append(@, [data |-> Entry.data, address |-> NoAddress])]
  /\ GoOn("address") /\ UNCHANGED <<status, index>>

\* The slot counts.  A plain write is done, a transfer takes the next variable.
PutAddress ==
  /\ at = "address"
  /\ slots' = [slots EXCEPT ![WritePage][Len(slots[WritePage])].address = Entry.address]
  /\ \/ call = "WRITE" /\ Return /\ UNCHANGED index
     \/ call # "WRITE" /\ GoOn("copy") /\ index' = index + 1
  /\ UNCHANGED status

EraseOld ==
  /\ at \in {"erase", "clean"}
  /\ EraseFlash(Other(new))
  /\ \/ at = "erase" /\ GoOn("valid")
     \/ at = "clean" /\ Return
  /\ UNCHANGED index

MarkValid ==
  /\ at \in {"valid", "mark"}
  /\ ProgramStatus(new, "VALID_PAGE")
  /\ \/ at = "valid" /\ Return
     \/ at = "mark" /\ GoOn("clean")
  /\ UNCHANGED index

\* EEPROM_Format begins.
EEPROM_Format_NoMark ==
  /\ at = "format"
  /\ EraseFlash(new)
  /\ GoOn("clean") /\ UNCHANGED index
EEPROM_Format ==
  /\ at = "format"
  /\ EraseFlash(new)
  /\ GoOn("mark") /\ UNCHANGED index

FlashOperation ==
  /\ CanDo
  /\ MarkReceive \/ PutData \/ PutAddress \/ EraseOld \/ MarkValid \/ EEPROM_Format
  /\ UNCHANGED <<new, faults, disturbed>>

\* A transfer skips the variable being written.  A resumed one takes it to be
\* that of the first slot of the new page.
Skipped_Never(i) == FALSE
Skipped(i) ==
  IF call = "INIT" THEN slots[new] # <<>> /\ slots[new][1].address = EepromAddressTab(i)
  ELSE EepromAddressTab(i) = pending.address

CopyVariable ==
  /\ at = "copy" /\ index < NumVars
  /\ IF Skipped(index) \/ SlotsOf(slots[ReadPage], EepromAddressTab(index)) = {}
       THEN index' = index + 1 /\ UNCHANGED at
       ELSE at' = "data" /\ UNCHANGED index
  /\ UNCHANGED <<status, slots, call, new, pending, allowed, faults, disturbed>>

\* EEPROM_PageTransfer erases the old page and then marks the new one valid,
\* EEPROM_Init the other way round.
CopyEnds ==
  /\ at = "copy" /\ index = NumVars
  /\ at' = IF call = "TRANSFER" THEN "erase" ELSE "mark"
  /\ UNCHANGED <<status, slots, call, new, index, pending, allowed, faults, disturbed>>

\* A flash operation cannot be done or fails: the call returns.
GiveUp ==
  /\ at \notin {"idle", "copy"}
  /\ \/ ~CanDo /\ UNCHANGED faults
     \/ CanDo /\ faults < MaxFaults /\ faults' = faults + 1
  /\ at' = "idle" /\ call' = "NONE" /\ pending' = NoWrite
  /\ disturbed' = (disturbed \/ Halfway)
  /\ UNCHANGED <<status, slots, new, index, allowed>>

\* The first boot, with both pages erased.
Init ==
  /\ status = [p \in Pages |-> "ERASED"] /\ slots = [p \in Pages |-> <<>>]
  /\ call = "INIT" /\ at = "format" /\ new = 0 /\ index = 0
  /\ pending = NoWrite
  /\ allowed = [a \in Addresses |-> {Blank}]
  /\ faults = 0 /\ disturbed = FALSE

Next ==
  \/ \E a \in Addresses, d \in Values : EEPROM_write(a, d)
  \/ FlashOperation \/ CopyVariable \/ CopyEnds \/ GiveUp \/ PowerCut

Spec == Init /\ [][Next]_vars

-----------------------------------------------------------------------------
(* Properties.                                                             *)

\* A transfer of which only the end is missing; nothing can be read.
Unfinished == \E p \in Pages : IsStatus(p, "RECEIVE_DATA") /\ IsStatus(Other(p), "ERASED")

Remembers == call = "NONE" => \A a \in Addresses : EEPROM_ReadVariable(a) \in allowed[a]

(* A variable reads as the value written last, or, if that write was cut   *)
(* short or failed, as that value or the one before; over any number of    *)
(* power cuts and page transfers, as long as no transfer was itself cut    *)
(* short before it erased the old page.  If an operation fails after that, *)
(* only until the next boot nothing is read (WriteVariable, PageTransfer,  *)
(* Init).                                                                  *)
RemembersUndisturbed == disturbed \/ (Unfinished /\ faults > 0) \/ Remembers

(* The page that a transfer fills never runs full, whatever happened       *)
(* before and even if it has no more slots than there are variables: the   *)
(* variable that is written does not get a second slot (PageTransfer,      *)
(* VerifyPageFullWriteVariable).                                           *)
TransferHasRoom == call = "TRANSFER" /\ at = "data" => Len(slots[WritePage]) < Slots

(* However transfers and repairs were cut short before, by power or by the *)
(* flash: a boot whose repairs run to their end leaves a page to read from *)
(* and writes go to that page, so that they can be read back (Init,        *)
(* Format, FindValidPage).                                                 *)
ReadyAfterBoot ==
  [][call = "INIT" /\ FlashOperation /\ call' = "NONE"
       => ReadPage' # NoPage /\ WritePage' = ReadPage']_vars

(* EEPROM_Init has to "Restore the pages to a known good state in case of  *)
(* page's status corruption after a power loss" (lines 44-45).  It does so *)
(* with an EepromAddressTab that is still all zero, and the transfer that  *)
(* it completes keeps variable 0 only.                                     *)
RemembersAfterPowerCut == Remembers
=============================================================================
