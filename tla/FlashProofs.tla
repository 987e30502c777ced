----------------------------- MODULE FlashProofs -----------------------------
(***************************************************************************)
(* What the two users of flash keep over power cuts.                       *)
(*                                                                         *)
(* EEPROM emulation, for every number of variables and every size of page  *)
(* that has room for them, every number of failing flash operations: a     *)
(* variable reads as it was written, a transfer does not run out of slots, *)
(* a boot leaves a page to use.                                            *)
(*                                                                         *)
(* Seeds do not repeat, for every size of the table, every set of seeds    *)
(* that begin with a zero word and any number of restarts, as long as the  *)
(* table has not gone round.                                               *)
(***************************************************************************)
EXTENDS SeedRotation, Eeprom, WellFoundedInduction, SequenceTheorems, TLAPS

(***************************************************************************)
(* The log of a page.                                                      *)
(***************************************************************************)

\* A set of numbers below a bound has a greatest one.
LEMMA GreatestExists ==
  ASSUME NEW n \in Nat, NEW S, S \subseteq 1 .. n, S # {}
  PROVE  \E i \in S : \A j \in S : j <= i
<1> DEFINE T == {k \in Nat : n - k \in S}
<1>1. PICK s \in S : TRUE
  OBVIOUS
<1>2. n - s \in Nat /\ n - (n - s) = s
  BY <1>1
<1>3. n - s \in T
  BY <1>1, <1>2
<1>4. PICK k \in T : \A l \in T : ~(<<l, k>> \in OpToRel(<, Nat))
  <2>1. T \subseteq Nat /\ T # {}
    BY <1>3
  <2>2. QED
    BY <2>1, WFMin, NatLessThanWellFounded, Zenon
<1>5. k \in Nat /\ n - k \in S
  OBVIOUS
<1>6. ASSUME NEW j \in S
      PROVE  j <= n - k
  <2>1. n - j \in Nat /\ n - (n - j) = j
    OBVIOUS
  <2>2. n - j \in T
    BY <2>1
  <2>3. ~(n - j < k)
    BY <1>4, <2>2 DEF OpToRel
  <2>4. QED
    BY <1>5, <2>1, <2>3
<1>7. QED
  BY <1>5, <1>6

LEMMA LastSlotIsLast ==
  ASSUME NEW log \in Seq(Slot), NEW a, SlotsOf(log, a) # {}
  PROVE  /\ LastSlot(log, a) \in SlotsOf(log, a)
         /\ \A j \in SlotsOf(log, a) : j <= LastSlot(log, a)
<1>1. SlotsOf(log, a) \subseteq 1 .. Len(log) /\ Len(log) \in Nat
  BY DEF SlotsOf
<1>2. \E i \in SlotsOf(log, a) : \A j \in SlotsOf(log, a) : j <= i
  BY <1>1, GreatestExists
<1>3. QED
  BY <1>2 DEF LastSlot

LEMMA LastSlotIs ==
  ASSUME NEW log \in Seq(Slot), NEW a, NEW i \in SlotsOf(log, a),
         \A j \in SlotsOf(log, a) : j <= i
  PROVE  LastData(log, a) = log[i].data
<1>1. /\ LastSlot(log, a) \in SlotsOf(log, a)
      /\ i <= LastSlot(log, a) /\ LastSlot(log, a) <= i
  BY LastSlotIsLast
<1>2. LastSlot(log, a) \in Int /\ i \in Int
  BY <1>1 DEF SlotsOf
<1>3. LastSlot(log, a) = i
  BY <1>1, <1>2
<1>4. QED
  BY <1>3 DEF LastData

LEMMA LastDataType ==
  ASSUME NEW log \in Seq(Slot), NEW a
  PROVE  /\ LastData(log, a) \in Values \cup {Blank}
         /\ SlotsOf(log, a) # {} => LastData(log, a) \in Values
         /\ SlotsOf(log, a) = {} => LastData(log, a) = Blank
<1>1. CASE SlotsOf(log, a) = {}
  BY <1>1 DEF LastData
<1>2. CASE SlotsOf(log, a) # {}
  <2>1. LastSlot(log, a) \in 1 .. Len(log)
    BY <1>2, LastSlotIsLast DEF SlotsOf
  <2>2. log[LastSlot(log, a)] \in Slot
    BY <2>1
  <2>3. QED
    BY <1>2, <2>2 DEF LastData, Slot
<1>3. QED
  BY <1>1, <1>2

LEMMA NothingInEmptyLog ==
  ASSUME NEW a
  PROVE  SlotsOf(<<>>, a) = {} /\ LastData(<<>>, a) = Blank
BY DEF SlotsOf, LastData

\* Data without an address does not count.
LEMMA DataDoesNotCount ==
  ASSUME NEW log \in Seq(Slot), NEW d \in Values, NEW a \in Addresses, EepromAssumption
  PROVE  LET longer == Append(log, [data |-> d, address |-> NoAddress])
         IN  /\ SlotsOf(longer, a) = SlotsOf(log, a)
             /\ LastData(longer, a) = LastData(log, a)
<1> DEFINE s == [data |-> d, address |-> NoAddress]
           longer == Append(log, s)
<1>1. s \in Slot /\ NoAddress # a
  BY DEF Slot, Addresses, NoAddress, EepromAssumption
<1>2. /\ longer \in Seq(Slot) /\ Len(longer) = Len(log) + 1
      /\ longer[Len(log) + 1] = s
      /\ \A i \in 1 .. Len(log) : longer[i] = log[i]
  BY <1>1
<1>3. SlotsOf(longer, a) = SlotsOf(log, a)
  BY <1>1, <1>2 DEF SlotsOf
<1>4. CASE SlotsOf(log, a) = {}
  BY <1>3, <1>4 DEF LastData
<1>5. CASE SlotsOf(log, a) # {}
  <2>1. LastSlot(log, a) \in 1 .. Len(log)
    BY <1>5, LastSlotIsLast DEF SlotsOf
  <2>2. /\ LastSlot(log, a) \in SlotsOf(longer, a)
        /\ \A j \in SlotsOf(longer, a) : j <= LastSlot(log, a)
    BY <1>3, <1>5, LastSlotIsLast
  <2> HIDE DEF longer
  <2>3. LastData(longer, a) = longer[LastSlot(log, a)].data
    BY <1>2, <2>2, LastSlotIs
  <2>4. LastData(longer, a) = LastData(log, a)
    BY <1>2, <1>5, <2>1, <2>3 DEF LastData
  <2>5. QED
    BY <1>3, <2>4 DEF longer
<1>6. QED
  BY <1>3, <1>4, <1>5

\* With its address a slot gives the value of that variable and of no other.
LEMMA AddressCounts ==
  ASSUME NEW log \in Seq(Slot), log # <<>>, log[Len(log)].address = NoAddress,
         NEW b \in Addresses, EepromAssumption
  PROVE  LET done == [log EXCEPT ![Len(log)].address = b]
         IN  /\ done \in Seq(Slot) /\ Len(done) = Len(log)
             /\ SlotsOf(done, b) # {} /\ LastData(done, b) = log[Len(log)].data
             /\ \A a \in Addresses \ {b} : /\ SlotsOf(done, a) = SlotsOf(log, a)
                                           /\ LastData(done, a) = LastData(log, a)
<1> DEFINE n == Len(log)
           done == [log EXCEPT ![n].address = b]
<1>1. n \in Nat \ {0} /\ log[n] \in Slot /\ log \in [1 .. n -> Slot]
  OBVIOUS
<1>2. [log[n] EXCEPT !.address = b] \in Slot
  BY <1>1 DEF Slot
<1>3. /\ done \in [1 .. n -> Slot]
      /\ done[n] = [log[n] EXCEPT !.address = b]
      /\ \A i \in 1 .. n : i # n => done[i] = log[i]
  BY <1>1, <1>2
<1>4. done \in Seq(Slot) /\ Len(done) = n
  BY <1>1, <1>3
<1>5. done[n].address = b /\ done[n].data = log[n].data
  BY <1>1, <1>3 DEF Slot
<1>6. n \in SlotsOf(done, b) /\ \A j \in SlotsOf(done, b) : j <= n
  BY <1>1, <1>4, <1>5 DEF SlotsOf
<1>7. LastData(done, b) = log[n].data
  BY <1>4, <1>5, <1>6, LastSlotIs
<1>8. ASSUME NEW a \in Addresses, a # b
      PROVE  SlotsOf(done, a) = SlotsOf(log, a) /\ LastData(done, a) = LastData(log, a)
  <2>1. NoAddress # a
    BY DEF Addresses, NoAddress, EepromAssumption
  <2>2. SlotsOf(done, a) = SlotsOf(log, a) /\ n \notin SlotsOf(log, a)
    BY <1>3, <1>4, <1>5, <1>8, <2>1 DEF SlotsOf
  <2>3. CASE SlotsOf(log, a) = {}
    BY <2>2, <2>3 DEF LastData
  <2>4. CASE SlotsOf(log, a) # {}
    <3>1. LastSlot(log, a) \in 1 .. n /\ LastSlot(log, a) # n
      BY <2>2, <2>4, LastSlotIsLast DEF SlotsOf
    <3>2. /\ LastSlot(log, a) \in SlotsOf(done, a)
          /\ \A j \in SlotsOf(done, a) : j <= LastSlot(log, a)
      BY <2>2, <2>4, LastSlotIsLast
    <3> HIDE DEF done
    <3>3. LastData(done, a) = done[LastSlot(log, a)].data
      BY <1>4, <3>2, LastSlotIs
    <3>4. QED
      BY <1>3, <2>2, <2>4, <3>1, <3>3 DEF LastData
  <2>5. QED
    BY <2>2, <2>3, <2>4
<1>9. QED
  BY <1>4, <1>6, <1>7, <1>8

(***************************************************************************)
(* The invariant.                                                          *)
(***************************************************************************)

\* What each place of a call relies on, whatever was cut short before.
PlaceInv ==
  /\ call = "NONE" => pending = NoWrite
  /\ call = "WRITE" => at \in {"data", "address"} /\ index = Argument /\ WritePage # NoPage
  /\ call = "TRANSFER" => at \in {"receive", "data", "address", "copy", "erase", "valid"}
  /\ call = "INIT" => pending = NoWrite /\ at # "receive" /\ index # Argument
  /\ call \in {"WRITE", "TRANSFER"} => pending # NoWrite
  /\ at = "receive" => IsStatus(Other(new), "VALID_PAGE") /\ index = Argument
  /\ at \in {"data", "address", "copy"} /\ call # "WRITE"
       => IsStatus(new, "RECEIVE_DATA") /\ IsStatus(Other(new), "VALID_PAGE")
  /\ at \in {"data", "address"} => index < NumVars
  /\ at \in {"data", "address"} /\ index # Argument
       => SlotsOf(slots[ReadPage], EepromAddressTab(index)) # {}
  /\ at = "address"
       => /\ slots[WritePage] # <<>>
          /\ slots[WritePage][Len(slots[WritePage])]
               = [data |-> Entry.data, address |-> NoAddress]
  /\ at = "copy" => index # Argument
  /\ at = "erase" => /\ IsStatus(new, "RECEIVE_DATA")
                     /\ call = "TRANSFER"
                          => IsStatus(Other(new), "VALID_PAGE") /\ index = NumVars
                     /\ call = "INIT" => IsStatus(Other(new), "ERASED")
  /\ at = "valid" => /\ IsStatus(new, "RECEIVE_DATA") /\ IsStatus(Other(new), "ERASED")
                     /\ index # Argument
  /\ at = "clean" => IsStatus(new, "VALID_PAGE")

Filling == call = "TRANSFER" /\ at \in {"data", "address", "copy"}

\* A transfer has used one slot for its argument and at most one for every
\* other variable it has passed.
Saved == IF pending.address < index THEN 1 ELSE 0
Begun == IF at = "address" THEN 1 ELSE 0
RoomInv ==
  Filling => /\ Len(slots[new]) + Saved <= index + 1 + Begun
             /\ at # "copy" => index # pending.address

\* The variables it has passed have the same value on both pages.
CopyInv ==
  /\ Filling \/ (call = "TRANSFER" /\ at = "erase") =>
       \A a \in Addresses \ {pending.address} :
         IF a < index THEN LastData(slots[new], a) = LastData(slots[Other(new)], a)
         ELSE SlotsOf(slots[new], a) = {}
  /\ call = "TRANSFER" /\ index # Argument
       => LastData(slots[new], pending.address) = pending.data

Settled == \E p \in Pages : IsStatus(p, "VALID_PAGE") /\ IsStatus(Other(p), "ERASED")
Empty == \A p \in Pages : IsStatus(p, "ERASED")

\* The status of the pages as long as no transfer was cut short.
ShapeInv ==
  \/ Settled /\ at \notin {"format", "mark"}
  \/ /\ Empty /\ at \in {"idle", "format", "mark"}
     /\ \A a \in Addresses : Blank \in allowed[a]
  \/ Unfinished /\ (at \in {"erase", "valid"} \/ (at = "idle" /\ faults > 0))
  \/ Halfway /\ call = "TRANSFER" /\ at \in {"data", "address", "copy", "erase"}

\* A page that is read from, or will be after the next boot.
Current(p) ==
  \/ IsStatus(p, "VALID_PAGE")
  \/ IsStatus(p, "RECEIVE_DATA") /\ IsStatus(Other(p), "ERASED")
Holds(p) == \A a \in Addresses : LastData(slots[p], a) \in allowed[a]

\* One page has all the values that may be read.
ValueInv ==
  /\ pending # NoWrite => pending.data \in allowed[pending.address]
  /\ ~disturbed =>
       /\ ShapeInv
       /\ \A p \in Pages : Current(p) => Holds(p)

EepromInv == TypeOK /\ PlaceInv /\ RoomInv /\ CopyInv /\ ValueInv

---------------------------------------------------------------------------
(* Pages.                                                                  *)

LEMMA OtherPage ==
  ASSUME NEW p \in Pages
  PROVE  Other(p) \in Pages /\ Other(p) # p /\ Other(Other(p)) = p
BY DEF Pages, Other

LEMMA PagesOfTransfer ==
  ASSUME TypeOK, IsStatus(new, "RECEIVE_DATA"), IsStatus(Other(new), "VALID_PAGE")
  PROVE  ReadPage = Other(new) /\ WritePage = new
BY DEF TypeOK, ReadPage, WritePage, IsStatus, Pages, Other

LEMMA PageToWrite ==
  ASSUME TypeOK, WritePage # NoPage
  PROVE  /\ WritePage \in Pages /\ ~IsStatus(WritePage, "ERASED")
         /\ ReadPage \in Pages /\ IsStatus(ReadPage, "VALID_PAGE")
BY DEF TypeOK, ReadPage, WritePage, IsStatus, Pages, NoPage

LEMMA PagesOfValid ==
  ASSUME TypeOK, NEW p \in Pages, IsStatus(p, "VALID_PAGE"), IsStatus(Other(p), "ERASED")
  PROVE  ReadPage = p /\ WritePage = p
BY DEF TypeOK, ReadPage, WritePage, IsStatus, Pages, Other

\* What is put into a slot, and where.
LEMMA EntryType ==
  ASSUME EepromInv, EepromAssumption, at \in {"data", "address"}
  PROVE  /\ WritePage \in Pages /\ ~IsStatus(WritePage, "ERASED")
         /\ ReadPage \in Pages
         /\ Entry \in [data : Values, address : Addresses]
         /\ index = Argument => Entry = pending
         /\ index # Argument =>
              /\ index \in Addresses
              /\ Entry.address = EepromAddressTab(index)
              /\ Entry.data = LastData(slots[ReadPage], EepromAddressTab(index))
<1> USE DEF EepromInv, TypeOK
<1>1. /\ WritePage \in Pages /\ ~IsStatus(WritePage, "ERASED") /\ ReadPage \in Pages
  <2>1. CASE call = "WRITE"
    BY <2>1, PageToWrite DEF PlaceInv
  <2>2. CASE call # "WRITE"
    BY <2>2, PagesOfTransfer, OtherPage DEF PlaceInv, IsStatus
  <2>3. QED
    BY <2>1, <2>2
<1>2. CASE index = Argument
  <2>1. Entry = pending /\ pending # NoWrite
    BY <1>2 DEF Entry, PlaceInv
  <2>2. QED
    BY <1>1, <1>2, <2>1
<1>3. CASE index # Argument
  <2>1. index \in Addresses /\ EepromAddressTab(index) \in Addresses
    BY <1>3, EepromAssumption DEF PlaceInv, Addresses, Argument, EepromAddressTab
  <2>2. ReadPage # NoPage
    BY <1>1 DEF Pages, NoPage
  <2>3. /\ Entry = [data    |-> LastData(slots[ReadPage], EepromAddressTab(index)),
                    address |-> EepromAddressTab(index)]
    BY <1>3, <2>2 DEF Entry, EEPROM_ReadVariable
  <2>4. LastData(slots[ReadPage], EepromAddressTab(index)) \in Values
    BY <1>1, <1>3, LastDataType DEF PlaceInv
  <2>5. QED
    BY <1>1, <1>3, <2>1, <2>3, <2>4
<1>4. QED
  BY <1>2, <1>3

\* No variable changes its value.
SameValues ==
  \A p \in Pages, a \in Addresses : /\ SlotsOf(slots'[p], a) = SlotsOf(slots[p], a)
                                    /\ LastData(slots'[p], a) = LastData(slots[p], a)

LEMMA PutDataEffect ==
  ASSUME EepromInv, EepromAssumption, PutData, CanDo
  PROVE  /\ slots' \in [Pages -> Seq(Slot)]
         /\ slots'[WritePage]
              = Append(slots[WritePage], [data |-> Entry.data, address |-> NoAddress])
         /\ \A p \in Pages : p # WritePage => slots'[p] = slots[p]
         /\ SameValues
<1> USE DEF EepromInv, TypeOK, PutData
<1>1. WritePage \in Pages /\ Entry.data \in Values
  BY EntryType
<1>2. [data |-> Entry.data, address |-> NoAddress] \in Slot
  BY <1>1 DEF Slot
<1>3. /\ slots'[WritePage]
           = Append(slots[WritePage], [data |-> Entry.data, address |-> NoAddress])
      /\ \A p \in Pages : p # WritePage => slots'[p] = slots[p]
  BY <1>1
<1>4. slots' \in [Pages -> Seq(Slot)]
  BY <1>1, <1>2
<1>5. ASSUME NEW a \in Addresses
      PROVE  /\ SlotsOf(slots'[WritePage], a) = SlotsOf(slots[WritePage], a)
             /\ LastData(slots'[WritePage], a) = LastData(slots[WritePage], a)
  <2> DEFINE longer == Append(slots[WritePage], [data |-> Entry.data, address |-> NoAddress])
  <2>1. slots[WritePage] \in Seq(Slot)
    BY <1>1
  <2>2. /\ SlotsOf(longer, a) = SlotsOf(slots[WritePage], a)
        /\ LastData(longer, a) = LastData(slots[WritePage], a)
    BY <1>1, <2>1, DataDoesNotCount
  <2>3. QED
    BY <1>3, <2>2
<1>6. QED
  BY <1>3, <1>4, <1>5 DEF SameValues

LEMMA PutAddressEffect ==
  ASSUME EepromInv, EepromAssumption, PutAddress
  PROVE  /\ slots' \in [Pages -> Seq(Slot)]
         /\ \A p \in Pages : Len(slots'[p]) = Len(slots[p])
         /\ \A p \in Pages : p # WritePage => slots'[p] = slots[p]
         /\ SlotsOf(slots'[WritePage], Entry.address) # {}
         /\ LastData(slots'[WritePage], Entry.address) = Entry.data
         /\ \A a \in Addresses \ {Entry.address} :
              /\ SlotsOf(slots'[WritePage], a) = SlotsOf(slots[WritePage], a)
              /\ LastData(slots'[WritePage], a) = LastData(slots[WritePage], a)
<1> USE DEF EepromInv, TypeOK, PutAddress
<1> DEFINE log == slots[WritePage]
           done == [log EXCEPT ![Len(log)].address = Entry.address]
<1>1. WritePage \in Pages /\ Entry.address \in Addresses
  BY EntryType
<1>2. log \in Seq(Slot) /\ log # <<>>
      /\ log[Len(log)].address = NoAddress /\ log[Len(log)].data = Entry.data
  BY <1>1 DEF PlaceInv
<1>3. slots'[WritePage] = done /\ \A p \in Pages : p # WritePage => slots'[p] = slots[p]
  BY <1>1
<1>4. /\ done \in Seq(Slot) /\ Len(done) = Len(log)
      /\ SlotsOf(done, Entry.address) # {} /\ LastData(done, Entry.address) = Entry.data
      /\ \A a \in Addresses \ {Entry.address} : /\ SlotsOf(done, a) = SlotsOf(log, a)
                                                /\ LastData(done, a) = LastData(log, a)
  BY <1>1, <1>2, AddressCounts
<1>5. slots' \in [Pages -> Seq(Slot)]
  BY <1>1, <1>3, <1>4
<1>6. QED
  BY <1>3, <1>4, <1>5

---------------------------------------------------------------------------
(* Every step keeps the invariant.                                         *)

LEMMA InitEstablishes ==
  ASSUME Init, EepromAssumption
  PROVE  EepromInv
<1> USE DEF Init
<1>1. TypeOK
  <2>1. /\ slots \in [Pages -> Seq(Slot)] /\ \A p \in Pages : Len(slots[p]) = 0
    OBVIOUS
  <2>2. /\ {Blank} \subseteq Values \cup {Blank} /\ {Blank} # {}
        /\ 0 <= Slots
    BY DEF EepromAssumption
  <2>3. allowed \in [Addresses -> (SUBSET (Values \cup {Blank})) \ {{}}]
    BY <2>2
  <2>4. new \in Pages /\ index \in Argument .. NumVars /\ faults \in 0 .. MaxFaults
    BY DEF Pages, Argument, EepromAssumption
  <2>5. status \in [Pages -> {"ERASED", "RECEIVE_DATA", "VALID_PAGE"}]
    OBVIOUS
  <2>6. QED
    BY <2>1, <2>2, <2>3, <2>4, <2>5 DEF TypeOK, Places, EepromAssumption
<1>2. PlaceInv
  BY DEF PlaceInv, Argument, NoWrite
<1>3. RoomInv /\ CopyInv
  BY DEF RoomInv, CopyInv, Filling
<1>4. ValueInv
  BY NothingInEmptyLog DEF ValueInv, ShapeInv, Empty, IsStatus, Holds, Current
<1>5. QED
  BY <1>1, <1>2, <1>3, <1>4 DEF EepromInv

LEMMA WriteKeeps ==
  ASSUME EepromInv, EepromAssumption, NEW a \in Addresses, NEW d \in Values, EEPROM_write(a, d)
  PROVE  EepromInv'
<1> USE DEF EepromInv, EEPROM_write
<1>1. /\ UNCHANGED <<ReadPage, WritePage>> /\ UNCHANGED <<Settled, Empty, Halfway, Unfinished>>
      /\ \A p \in Pages : Current(p)' <=> Current(p)
  BY DEF ReadPage, WritePage, IsStatus, Settled, Empty, Halfway, Unfinished, Current
<1>2. allowed' \in [Addresses -> (SUBSET (Values \cup {Blank})) \ {{}}]
      /\ \A b \in Addresses : allowed[b] \subseteq allowed'[b]
      /\ d \in allowed'[a]
  <2>1. allowed' = [allowed EXCEPT ![a] = allowed[a] \cup {d}]
    OBVIOUS
  <2>2. /\ allowed \in [Addresses -> (SUBSET (Values \cup {Blank})) \ {{}}]
        /\ allowed[a] \cup {d} \in (SUBSET (Values \cup {Blank})) \ {{}}
    BY DEF TypeOK
  <2> HIDE DEF EepromInv, EEPROM_write
  <2>3. QED
    BY <2>1, <2>2
<1>3. at = "idle" /\ pending = NoWrite
  BY DEF TypeOK, PlaceInv
<1>4. CASE WritePage = NoPage /\ UNCHANGED <<pending, index, call, at, new>>
  <2>1. TypeOK'
    BY <1>2, <1>4 DEF TypeOK, IsStatus
  <2>2. PlaceInv' /\ RoomInv' /\ CopyInv'
    BY <1>3, <1>4 DEF PlaceInv, RoomInv, CopyInv, Filling
  <2>3. ValueInv'
    BY <1>1, <1>2, <1>3, <1>4 DEF ValueInv, ShapeInv, Holds
  <2>4. QED
    BY <2>1, <2>2, <2>3
<1>5. CASE EEPROM_WriteVariable(a, d)
  <2>1. /\ WritePage # NoPage /\ pending' = [data |-> d, address |-> a] /\ index' = Argument
        /\ \/ call' = "WRITE" /\ at' = "data" /\ new' = new
           \/ call' = "TRANSFER" /\ at' = "receive" /\ new' = Other(ReadPage)
    BY <1>5 DEF EEPROM_WriteVariable
  <2>2. pending' # NoWrite
    BY <2>1 DEF NoWrite, NoAddress, Addresses, EepromAssumption
  <2>3. ReadPage \in Pages /\ IsStatus(ReadPage, "VALID_PAGE")
    BY <2>1, PageToWrite
  <2>4. TypeOK'
    BY <1>2, <2>1, <2>3, OtherPage DEF TypeOK, Places, Argument, EepromAssumption
  <2>5. PlaceInv'
    BY <1>1, <2>1, <2>2, <2>3, OtherPage DEF PlaceInv, Argument, IsStatus, EepromAssumption
  <2>6. RoomInv' /\ CopyInv'
    BY <2>1 DEF RoomInv, CopyInv, Filling
  <2>7. ~Empty /\ ~Unfinished
    BY <2>3 DEF Empty, Unfinished, IsStatus, Pages, Other
  <2>8. ValueInv'
    BY <1>1, <1>2, <1>3, <2>1, <2>7 DEF ValueInv, ShapeInv, Holds, PlaceInv, TypeOK
  <2>9. QED
    BY <2>4, <2>5, <2>6, <2>8
<1>6. QED
  BY <1>4, <1>5

LEMMA PowerCutKeeps ==
  ASSUME EepromInv, EepromAssumption, PowerCut
  PROVE  EepromInv'
<1> USE DEF EepromInv, PowerCut
<1>1. /\ new' \in Pages
      /\ \/ at' = "clean" /\ IsStatus(new', "VALID_PAGE") /\ IsStatus(Other(new'), "ERASED")
         \/ at' = "erase" /\ IsStatus(new', "RECEIVE_DATA") /\ IsStatus(Other(new'), "ERASED")
         \/ /\ at' = "copy"
            /\ IsStatus(new', "RECEIVE_DATA") /\ IsStatus(Other(new'), "VALID_PAGE")
         \/ at' = "format" /\ status[0] = status[1]
  BY DEF EEPROM_Init, Repair, Finish, Resume, Pages
<1>2. TypeOK'
  BY <1>1 DEF TypeOK, Places, Argument, EepromAssumption
<1>3. PlaceInv'
  BY <1>1 DEF PlaceInv, IsStatus, Argument
<1>4. RoomInv' /\ CopyInv'
  BY DEF RoomInv, CopyInv, Filling
<1>5. /\ UNCHANGED <<Settled, Empty, Halfway, Unfinished>>
      /\ \A p \in Pages : Current(p)' <=> Current(p)
  BY DEF IsStatus, Settled, Empty, Halfway, Unfinished, Current
<1>6. ASSUME ~disturbed' PROVE ShapeInv'
  <2>1. ~disturbed /\ ~Halfway /\ ShapeInv
    BY <1>6 DEF ValueInv
  <2>2. CASE Settled
    <3>1. status[0] # status[1]
      BY <2>2 DEF Settled, IsStatus, Pages, Other
    <3>2. QED
      BY <1>1, <1>5, <2>2, <3>1 DEF ShapeInv
  <2>3. CASE Empty /\ \A a \in Addresses : Blank \in allowed[a]
    <3>1. at' = "format"
      BY <1>1, <2>3, OtherPage DEF Empty, IsStatus
    <3>2. QED
      BY <1>5, <2>3, <3>1 DEF ShapeInv
  <2>4. CASE Unfinished
    <3>1. at' = "erase"
      BY <1>1, <2>4 DEF Unfinished, IsStatus, Pages, Other
    <3>2. QED
      BY <1>5, <2>4, <3>1 DEF ShapeInv
  <2>5. QED
    BY <2>1, <2>2, <2>3, <2>4 DEF ShapeInv
<1>7. ValueInv'
  BY <1>5, <1>6 DEF ValueInv, Holds
<1>8. QED
  BY <1>2, <1>3, <1>4, <1>7

LEMMA GiveUpKeeps ==
  ASSUME EepromInv, EepromAssumption, GiveUp
  PROVE  EepromInv'
<1> USE DEF EepromInv, GiveUp
<1>1. TypeOK'
  BY DEF TypeOK, Places, EepromAssumption
<1>2. PlaceInv' /\ RoomInv' /\ CopyInv'
  BY DEF PlaceInv, RoomInv, CopyInv, Filling
<1>3. /\ UNCHANGED <<Settled, Empty, Halfway, Unfinished>>
      /\ \A p \in Pages : Current(p)' <=> Current(p)
  BY DEF IsStatus, Settled, Empty, Halfway, Unfinished, Current
<1>4. at \in {"erase", "valid"} => faults' > 0
  BY DEF CanDo, TypeOK
<1>5. ValueInv'
  BY <1>3, <1>4 DEF ValueInv, ShapeInv, Holds
<1>6. QED
  BY <1>1, <1>2, <1>5

LEMMA MarkReceiveKeeps ==
  ASSUME EepromInv, EepromAssumption, MarkReceive, CanDo, UNCHANGED <<new, faults, disturbed>>
  PROVE  EepromInv'
<1> USE DEF EepromInv, MarkReceive, ProgramStatus, GoOn
<1>1. /\ new \in Pages /\ call = "TRANSFER" /\ pending # NoWrite /\ index = Argument
      /\ pending \in [data : Values, address : Addresses]
      /\ IsStatus(new, "ERASED") /\ IsStatus(Other(new), "VALID_PAGE")
      /\ slots[new] = <<>>
  BY DEF TypeOK, PlaceInv, CanDo, IsStatus
<1>2. IsStatus(new, "RECEIVE_DATA")' /\ IsStatus(Other(new), "VALID_PAGE")'
  BY <1>1, OtherPage DEF IsStatus, TypeOK
<1>3. TypeOK'
  BY <1>1 DEF TypeOK, Places, IsStatus
<1>4. PlaceInv'
  BY <1>1, <1>2 DEF PlaceInv, Argument, EepromAssumption
<1>5. RoomInv' /\ CopyInv'
  BY <1>1, NothingInEmptyLog DEF RoomInv, Saved, Begun, CopyInv, Filling, Addresses, Argument,
                                 EepromAssumption
<1>6. Halfway'
  BY <1>1, <1>2 DEF Halfway
<1>7. \A p \in Pages : Current(p)' => Current(p)
  BY <1>1, <1>2, OtherPage DEF Current, IsStatus, Pages, Other, TypeOK
<1>8. ValueInv'
  BY <1>1, <1>6, <1>7 DEF ValueInv, ShapeInv, Holds
<1>9. QED
  BY <1>3, <1>4, <1>5, <1>8

LEMMA PutDataKeeps ==
  ASSUME EepromInv, EepromAssumption, PutData, CanDo, UNCHANGED <<new, faults, disturbed>>
  PROVE  EepromInv'
<1>1. /\ at = "data" /\ at' = "address"
      /\ UNCHANGED <<status, index, call, new, pending, allowed, faults, disturbed>>
  BY DEF PutData, GoOn
<1>2. /\ UNCHANGED <<ReadPage, WritePage>> /\ UNCHANGED <<Settled, Halfway>>
      /\ \A p \in Pages : Current(p)' <=> Current(p)
  BY <1>1 DEF ReadPage, WritePage, IsStatus, Settled, Halfway, Current
<1>3. /\ slots' \in [Pages -> Seq(Slot)]
      /\ slots'[WritePage]
           = Append(slots[WritePage], [data |-> Entry.data, address |-> NoAddress])
      /\ \A p \in Pages : p # WritePage => slots'[p] = slots[p]
      /\ SameValues
  BY PutDataEffect
<1>4. /\ WritePage \in Pages /\ ~IsStatus(WritePage, "ERASED") /\ ReadPage \in Pages
      /\ Entry \in [data : Values, address : Addresses]
      /\ index # Argument => index \in Addresses /\ EepromAddressTab(index) \in Addresses
  BY <1>1, EntryType
<1>5. /\ slots[WritePage] \in Seq(Slot) /\ Len(slots[WritePage]) < Slots
      /\ [data |-> Entry.data, address |-> NoAddress] \in Slot
  BY <1>1, <1>4 DEF EepromInv, TypeOK, CanDo, Slot
<1>6. /\ Len(slots'[WritePage]) = Len(slots[WritePage]) + 1
      /\ slots'[WritePage] # <<>>
      /\ slots'[WritePage][Len(slots'[WritePage])]
           = [data |-> Entry.data, address |-> NoAddress]
  BY <1>3, <1>5
<1>7. TypeOK'
  <2>1. \A p \in Pages : Len(slots'[p]) <= Slots /\ (status'[p] = "ERASED" => slots'[p] = <<>>)
    BY <1>1, <1>3, <1>4, <1>5, <1>6 DEF EepromInv, TypeOK, IsStatus, EepromAssumption
  <2>2. QED
    BY <1>1, <1>3, <2>1 DEF EepromInv, TypeOK, Places
<1>8. /\ UNCHANGED Entry
      /\ index # Argument => /\ UNCHANGED EepromAddressTab(index)
                             /\ UNCHANGED SlotsOf(slots[ReadPage], EepromAddressTab(index))
  <2>1. UNCHANGED EepromAddressTab(index)
    BY <1>1 DEF EepromAddressTab
  <2>2. CASE index = Argument
    BY <1>1, <2>2 DEF Entry
  <2>3. CASE index # Argument
    <3>1. /\ SlotsOf(slots'[ReadPage], EepromAddressTab(index))
               = SlotsOf(slots[ReadPage], EepromAddressTab(index))
          /\ LastData(slots'[ReadPage], EepromAddressTab(index))
               = LastData(slots[ReadPage], EepromAddressTab(index))
      BY <1>3, <1>4, <2>3 DEF SameValues
    <3>2. QED
      BY <1>1, <1>2, <2>1, <2>3, <3>1 DEF Entry, EEPROM_ReadVariable
  <2>4. QED
    BY <2>2, <2>3
<1>9. PlaceInv'
  BY <1>1, <1>2, <1>6, <1>8 DEF EepromInv, PlaceInv, IsStatus
<1>10. RoomInv'
  <2>1. CASE call = "TRANSFER"
    <3>1. WritePage = new
      BY <1>1, <2>1, PagesOfTransfer DEF EepromInv, PlaceInv
    <3>2. Len(slots[new]) \in Nat /\ index \in Int
      BY <1>5, <3>1 DEF EepromInv, TypeOK, Argument
    <3>3. Filling
      BY <1>1, <2>1 DEF Filling
    <3>4. Len(slots[new]) + Saved <= index + 1 + Begun /\ index # pending.address
      BY <1>1, <3>3 DEF EepromInv, RoomInv
    <3>5. /\ UNCHANGED Saved /\ Saved \in Int
          /\ Begun = 0 /\ Begun' = 1
      BY <1>1 DEF Saved, Begun
    <3>6. Len(slots'[new']) + Saved' <= index' + 1 + Begun'
      BY <1>1, <1>6, <3>1, <3>2, <3>4, <3>5
    <3>7. QED
      BY <1>1, <3>4, <3>6 DEF RoomInv
  <2>2. CASE call # "TRANSFER"
    BY <1>1, <2>2 DEF RoomInv, Filling
  <2>3. QED
    BY <2>1, <2>2
<1>11. CopyInv'
  <2>1. new \in Pages /\ Other(new) \in Pages
    BY OtherPage DEF EepromInv, TypeOK
  <2>2. CASE call = "TRANSFER"
    <3>1. pending.address \in Addresses
      BY <2>2 DEF EepromInv, TypeOK, PlaceInv
    <3>2. Filling
      BY <1>1, <2>2 DEF Filling
    <3>3. ASSUME NEW a \in Addresses
          PROVE  /\ SlotsOf(slots'[new], a) = SlotsOf(slots[new], a)
                 /\ LastData(slots'[new], a) = LastData(slots[new], a)
                 /\ LastData(slots'[Other(new)], a) = LastData(slots[Other(new)], a)
      BY <1>3, <2>1 DEF SameValues
    <3>4. ASSUME NEW a \in Addresses \ {pending.address}
          PROVE  IF a < index THEN LastData(slots'[new], a) = LastData(slots'[Other(new)], a)
                 ELSE SlotsOf(slots'[new], a) = {}
      <4>1. IF a < index THEN LastData(slots[new], a) = LastData(slots[Other(new)], a)
            ELSE SlotsOf(slots[new], a) = {}
        BY <3>2 DEF EepromInv, CopyInv
      <4>2. QED
        BY <3>3, <4>1
    <3>5. index # Argument => LastData(slots'[new], pending.address) = pending.data
      BY <2>2, <3>1, <3>3 DEF EepromInv, CopyInv
    <3>6. QED
      BY <1>1, <3>4, <3>5 DEF CopyInv
  <2>3. CASE call # "TRANSFER"
    BY <1>1, <2>3 DEF CopyInv, Filling
  <2>4. QED
    BY <2>2, <2>3
<1>12. ValueInv'
  <2>1. \A p \in Pages : Holds(p)' <=> Holds(p)
    BY <1>1, <1>3 DEF Holds, SameValues
  <2>2. ~disturbed => ShapeInv'
    BY <1>1, <1>2 DEF EepromInv, ValueInv, ShapeInv
  <2>3. QED
    BY <1>1, <1>2, <2>1, <2>2 DEF EepromInv, ValueInv
<1>13. QED
  BY <1>7, <1>9, <1>10, <1>11, <1>12 DEF EepromInv

LEMMA PutAddressKeeps ==
  ASSUME EepromInv, EepromAssumption, PutAddress, UNCHANGED <<new, faults, disturbed>>
  PROVE  EepromInv'
<1>1. at = "address" /\ UNCHANGED <<status, new, faults, disturbed>>
  BY DEF PutAddress
<1>2. /\ UNCHANGED <<ReadPage, WritePage>> /\ UNCHANGED <<Settled, Halfway>>
      /\ \A p \in Pages : Current(p)' <=> Current(p)
  BY <1>1 DEF ReadPage, WritePage, IsStatus, Settled, Halfway, Current
<1>3. /\ slots' \in [Pages -> Seq(Slot)]
      /\ \A p \in Pages : Len(slots'[p]) = Len(slots[p])
      /\ \A p \in Pages : p # WritePage => slots'[p] = slots[p]
      /\ SlotsOf(slots'[WritePage], Entry.address) # {}
      /\ LastData(slots'[WritePage], Entry.address) = Entry.data
      /\ \A a \in Addresses \ {Entry.address} :
           /\ SlotsOf(slots'[WritePage], a) = SlotsOf(slots[WritePage], a)
           /\ LastData(slots'[WritePage], a) = LastData(slots[WritePage], a)
  BY PutAddressEffect
<1>4. /\ WritePage \in Pages /\ ~IsStatus(WritePage, "ERASED") /\ ReadPage \in Pages
      /\ Entry \in [data : Values, address : Addresses]
      /\ index = Argument => Entry = pending
      /\ index # Argument => /\ index \in Addresses
                             /\ Entry.address = EepromAddressTab(index)
                             /\ Entry.data = LastData(slots[ReadPage], EepromAddressTab(index))
  BY <1>1, EntryType
<1>5. \A p \in Pages : Len(slots'[p]) <= Slots /\ (status'[p] = "ERASED" => slots'[p] = <<>>)
  BY <1>1, <1>3, <1>4 DEF EepromInv, TypeOK, IsStatus
<1>6. index \in Argument .. NumVars - 1
  BY <1>1, EepromAssumption DEF EepromInv, TypeOK, PlaceInv, Argument, EepromAssumption
<1>7. CASE call = "WRITE"
  <2>1. /\ call' = "NONE" /\ at' = "idle" /\ pending' = NoWrite /\ UNCHANGED index
        /\ pending # NoWrite /\ index = Argument /\ Entry = pending
        /\ allowed' = [allowed EXCEPT ![pending.address] = {pending.data}]
    BY <1>4, <1>7 DEF PutAddress, Return, EepromInv, PlaceInv
  <2>2. pending.address \in Addresses /\ pending.data \in Values
    BY <1>4, <2>1
  <2>3. /\ allowed' \in [Addresses -> (SUBSET (Values \cup {Blank})) \ {{}}]
        /\ allowed'[pending.address] = {pending.data}
        /\ \A a \in Addresses \ {pending.address} : allowed'[a] = allowed[a]
    <3> DEFINE Allowed == (SUBSET (Values \cup {Blank})) \ {{}}
    <3>1. allowed \in [Addresses -> Allowed]
      BY DEF EepromInv, TypeOK
    <3>2. {pending.data} \in Allowed
      BY <2>2
    <3> HIDE DEF Allowed
    <3>3. /\ allowed' \in [Addresses -> Allowed]
          /\ allowed'[pending.address] = {pending.data}
          /\ \A a \in Addresses \ {pending.address} : allowed'[a] = allowed[a]
      BY <2>1, <2>2, <3>1, <3>2
    <3>4. QED
      BY <3>3 DEF Allowed
  <2>4. TypeOK'
    <3>1. /\ status' \in [Pages -> {"ERASED", "RECEIVE_DATA", "VALID_PAGE"}]
          /\ slots' \in [Pages -> Seq(Slot)]
          /\ new' \in Pages /\ index' \in Argument .. NumVars
          /\ faults' \in 0 .. MaxFaults /\ disturbed' \in BOOLEAN
      BY <1>1, <1>3, <2>1 DEF EepromInv, TypeOK
    <3>2. /\ call' \in {"INIT", "WRITE", "TRANSFER", "NONE"} /\ at' \in Places
          /\ call' = "NONE" <=> at' = "idle"
          /\ pending' \in [data : Values, address : Addresses] \cup {NoWrite}
      BY <2>1 DEF Places
    <3>3. QED
      BY <1>5, <2>3, <3>1, <3>2, Zenon DEF TypeOK
  <2>5. PlaceInv' /\ RoomInv' /\ CopyInv'
    BY <2>1 DEF PlaceInv, RoomInv, CopyInv, Filling
  <2>6. ASSUME ~disturbed
        PROVE  ShapeInv' /\ \A p \in Pages : Current(p)' => Holds(p)'
    <3>1. Settled
      BY <1>1, <1>7, <2>6 DEF EepromInv, ValueInv, ShapeInv
    <3>2. ShapeInv'
      BY <1>2, <2>1, <3>1 DEF ShapeInv
    <3>3. PICK p \in Pages : IsStatus(p, "VALID_PAGE") /\ IsStatus(Other(p), "ERASED")
      BY <3>1 DEF Settled
    <3>4. WritePage = p
      BY <3>3, PagesOfValid DEF EepromInv
    <3>5. ASSUME NEW q \in Pages, Current(q)'
          PROVE  q = WritePage
      BY <1>2, <3>3, <3>4, <3>5 DEF Current, IsStatus, Pages, Other
    <3>6. Current(WritePage)
      BY <3>3, <3>4 DEF Current
    <3>7. Holds(WritePage)
      BY <1>4, <2>6, <3>6 DEF EepromInv, ValueInv
    <3>8. Holds(WritePage)'
      BY <1>2, <1>3, <2>1, <2>3, <3>7 DEF Holds
    <3>9. QED
      BY <1>2, <3>2, <3>5, <3>8
  <2>7. ValueInv'
    BY <1>1, <2>1, <2>6 DEF ValueInv
  <2>8. QED
    BY <2>4, <2>5, <2>7 DEF EepromInv
<1>8. CASE call # "WRITE"
  <2>1. /\ at' = "copy" /\ index' = index + 1 /\ UNCHANGED <<call, pending, allowed>>
    BY <1>1, <1>8 DEF PutAddress, GoOn
  <2>2. /\ index' \in 0 .. NumVars /\ index' # Argument
    BY <1>6, <2>1, EepromAssumption DEF Argument, EepromAssumption
  <2>3. /\ new \in Pages /\ Other(new) \in Pages /\ Other(new) # new
        /\ IsStatus(new, "RECEIVE_DATA") /\ IsStatus(Other(new), "VALID_PAGE")
        /\ WritePage = new /\ ReadPage = Other(new)
        /\ slots'[Other(new)] = slots[Other(new)]
    BY <1>1, <1>3, <1>8, PagesOfTransfer, OtherPage DEF EepromInv, TypeOK, PlaceInv
  <2>4. TypeOK'
    BY <1>1, <1>3, <1>5, <2>1, <2>2 DEF EepromInv, TypeOK, Places, Argument
  <2>5. PlaceInv'
    BY <1>1, <1>8, <2>1, <2>2, <2>3 DEF EepromInv, PlaceInv, IsStatus
  <2>6. ~Settled
    BY <2>3 DEF Settled, IsStatus, Pages, Other
  <2>7. CASE call = "TRANSFER"
    <3>1. Filling /\ pending.address \in Addresses /\ pending # NoWrite
      BY <1>1, <2>7 DEF Filling, EepromInv, TypeOK, PlaceInv
    <3>2. RoomInv'
      <4>1. Len(slots[new]) + Saved <= index + 1 + Begun /\ index # pending.address
        BY <1>1, <3>1 DEF EepromInv, RoomInv
      <4>2. index \in Int /\ pending.address \in Int /\ Len(slots[new]) \in Int
        BY <1>6, <2>3, <3>1 DEF Argument, Addresses, EepromInv, TypeOK
      <4>3. Begun = 1 /\ Begun' = 0 /\ Saved' = Saved /\ Saved \in Int
        BY <1>1, <2>1, <4>1, <4>2 DEF Begun, Saved
      <4>4. Len(slots'[new]) = Len(slots[new])
        BY <1>3, <2>3
      <4>5. Len(slots'[new']) + Saved' <= index' + 1 + Begun'
        BY <1>1, <2>1, <4>1, <4>2, <4>3, <4>4
      <4>6. QED
        BY <2>1, <4>5 DEF RoomInv
    <3>3. CopyInv'
      <4>1. ASSUME NEW a \in Addresses, a # pending.address
            PROVE  IF a < index' THEN LastData(slots'[new], a) = LastData(slots'[Other(new)], a)
                   ELSE SlotsOf(slots'[new], a) = {}
        <5>1. IF a < index THEN LastData(slots[new], a) = LastData(slots[Other(new)], a)
              ELSE SlotsOf(slots[new], a) = {}
          BY <3>1, <4>1 DEF EepromInv, CopyInv
        <5>2. a \in Int /\ a >= 0 /\ index \in Int
          BY <1>6 DEF Addresses, Argument
        <5>3. CASE index = Argument
          <6>1. Entry.address = pending.address /\ ~(a < index) /\ ~(a < index')
            BY <1>4, <2>1, <5>2, <5>3 DEF Argument
          <6>2. QED
            BY <1>3, <2>3, <4>1, <5>1, <6>1
        <5>4. CASE index # Argument /\ a = index
          <6>1. Entry.address = a /\ Entry.data = LastData(slots[ReadPage], a) /\ a < index'
            BY <1>4, <2>1, <2>7, <5>2, <5>4 DEF EepromAddressTab
          <6>2. QED
            BY <1>3, <2>3, <6>1
        <5>5. CASE index # Argument /\ a # index
          <6>1. Entry.address # a /\ (a < index' <=> a < index)
            BY <1>4, <2>1, <2>7, <5>2, <5>5 DEF EepromAddressTab
          <6>2. QED
            BY <1>3, <2>3, <5>1, <6>1
        <5>6. QED
          BY <5>3, <5>4, <5>5
      <4>2. LastData(slots'[new], pending.address) = pending.data
        <5>1. CASE index = Argument
          BY <1>3, <1>4, <2>3, <5>1
        <5>2. CASE index # Argument
          <6>1. Entry.address # pending.address
            BY <1>1, <1>4, <2>7, <3>1, <5>2 DEF EepromInv, RoomInv, EepromAddressTab
          <6>2. QED
            BY <1>3, <2>3, <2>7, <3>1, <5>2, <6>1 DEF EepromInv, CopyInv
        <5>3. QED
          BY <5>1, <5>2
      <4>3. QED
        BY <1>1, <2>1, <4>1, <4>2 DEF CopyInv
    <3>4. ValueInv'
      <4>1. Halfway
        BY <2>3 DEF Halfway
      <4>2. ASSUME NEW p \in Pages, Current(p)'
            PROVE  p = Other(new)
        BY <1>2, <2>3, <4>2 DEF Current, IsStatus, Pages, Other
      <4>3. Holds(Other(new)) <=> Holds(Other(new))'
        BY <1>1, <2>1, <2>3 DEF Holds
      <4>4. Current(Other(new))
        BY <2>3 DEF Current
      <4>5. ~disturbed => Holds(Other(new))
        BY <2>3, <4>4 DEF EepromInv, ValueInv
      <4>6. ~disturbed => \A p \in Pages : Current(p)' => Holds(p)'
        BY <1>1, <4>2, <4>3, <4>5
      <4>7. ShapeInv'
        BY <1>2, <2>1, <2>7, <4>1 DEF ShapeInv
      <4>8. QED
        BY <1>1, <2>1, <4>6, <4>7 DEF EepromInv, ValueInv
    <3>5. QED
      BY <2>4, <2>5, <3>2, <3>3, <3>4 DEF EepromInv
  <2>8. CASE call = "INIT"
    <3>1. RoomInv' /\ CopyInv'
      BY <2>1, <2>8 DEF RoomInv, CopyInv, Filling
    <3>2. disturbed
      BY <1>1, <2>6, <2>8 DEF EepromInv, TypeOK, ValueInv, ShapeInv
    <3>3. ValueInv'
      BY <1>1, <2>1, <2>8, <3>2 DEF EepromInv, PlaceInv, ValueInv
    <3>4. QED
      BY <2>4, <2>5, <3>1, <3>3 DEF EepromInv
  <2>9. QED
    BY <1>1, <1>8, <2>7, <2>8 DEF EepromInv, TypeOK
<1>9. QED
  BY <1>7, <1>8

LEMMA EraseOldKeeps ==
  ASSUME EepromInv, EepromAssumption, EraseOld, UNCHANGED <<new, faults, disturbed>>
  PROVE  EepromInv'
<1>1. /\ at \in {"erase", "clean"} /\ UNCHANGED <<new, index, faults, disturbed>>
      /\ status' = [status EXCEPT ![Other(new)] = "ERASED"]
      /\ slots' = [slots EXCEPT ![Other(new)] = <<>>]
  BY DEF EraseOld, EraseFlash
<1>2. new \in Pages /\ Other(new) \in Pages /\ Other(new) # new /\ Other(Other(new)) = new
  BY OtherPage DEF EepromInv, TypeOK
<1>3. /\ status' \in [Pages -> {"ERASED", "RECEIVE_DATA", "VALID_PAGE"}]
      /\ slots' \in [Pages -> Seq(Slot)]
      /\ status'[new] = status[new] /\ slots'[new] = slots[new]
      /\ status'[Other(new)] = "ERASED" /\ slots'[Other(new)] = <<>>
  BY <1>1, <1>2 DEF EepromInv, TypeOK
<1>4. \A p \in Pages : p = new \/ p = Other(new)
  BY <1>2 DEF Pages, Other
<1>5. \A p \in Pages : Len(slots'[p]) <= Slots /\ (status'[p] = "ERASED" => slots'[p] = <<>>)
  <2>1. Len(slots'[Other(new)]) = 0 /\ 0 <= Slots
    BY <1>3 DEF EepromAssumption
  <2>2. QED
    BY <1>3, <1>4, <2>1 DEF EepromInv, TypeOK
<1>6. CASE at = "erase"
  <2>1. at' = "valid" /\ UNCHANGED <<call, pending, allowed>> /\ call # "WRITE" /\ call # "NONE"
    BY <1>6 DEF EraseOld, GoOn, EepromInv, TypeOK, PlaceInv
  <2>2. IsStatus(new, "RECEIVE_DATA") /\ index # Argument
    BY <1>6, <2>1 DEF EepromInv, TypeOK, PlaceInv, Argument, EepromAssumption
  <2>3. TypeOK'
    BY <1>1, <1>3, <1>5, <2>1 DEF EepromInv, TypeOK, Places
  <2>4. PlaceInv'
    BY <1>1, <1>3, <2>1, <2>2 DEF EepromInv, PlaceInv, IsStatus
  <2>5. RoomInv' /\ CopyInv'
    BY <1>1, <1>3, <1>6, <2>1, <2>2 DEF EepromInv, RoomInv, CopyInv, Filling
  <2>6. Unfinished'
    BY <1>1, <1>2, <1>3, <2>2 DEF Unfinished, IsStatus
  <2>7. ASSUME NEW p \in Pages, Current(p)'
        PROVE  p = new
    BY <1>3, <1>4, <2>7 DEF Current, IsStatus
  <2>8. ~disturbed => Holds(new)
    <3>1. CASE call = "INIT"
      <4>1. Current(new)
        BY <1>6, <2>2, <3>1 DEF EepromInv, PlaceInv, Current
      <4>2. QED
        BY <1>2, <4>1 DEF EepromInv, ValueInv
    <3>2. CASE call = "TRANSFER"
      <4>1. /\ IsStatus(Other(new), "VALID_PAGE") /\ index = NumVars
            /\ pending # NoWrite /\ pending.address \in Addresses
        BY <1>6, <3>2 DEF EepromInv, TypeOK, PlaceInv
      <4>2. ~disturbed => Holds(Other(new))
        BY <1>2, <4>1 DEF EepromInv, ValueInv, Current
      <4>3. ASSUME NEW a \in Addresses, a # pending.address
            PROVE  LastData(slots[new], a) = LastData(slots[Other(new)], a)
        <5>1. a < index
          BY <4>1 DEF Addresses, EepromAssumption
        <5>2. QED
          BY <1>6, <3>2, <4>3, <5>1 DEF EepromInv, CopyInv
      <4>4. ~disturbed => LastData(slots[new], pending.address) \in allowed[pending.address]
        BY <2>2, <3>2, <4>1 DEF EepromInv, CopyInv, ValueInv
      <4>5. QED
        BY <4>2, <4>3, <4>4 DEF Holds
    <3>3. QED
      BY <2>1, <3>1, <3>2 DEF EepromInv, TypeOK
  <2>9. ValueInv'
    <3>1. Holds(new)' <=> Holds(new)
      BY <1>1, <1>3, <2>1 DEF Holds
    <3>2. ShapeInv'
      BY <2>1, <2>6 DEF ShapeInv
    <3>3. ~disturbed => \A p \in Pages : Current(p)' => Holds(p)'
      BY <1>1, <2>7, <2>8, <3>1
    <3>4. QED
      BY <1>1, <2>1, <3>2, <3>3 DEF EepromInv, ValueInv
  <2>10. QED
    BY <2>3, <2>4, <2>5, <2>9 DEF EepromInv
<1>7. CASE at = "clean"
  <2>1. call = "INIT" /\ pending = NoWrite
    BY <1>7 DEF EepromInv, TypeOK, PlaceInv
  <2>2. /\ at' = "idle" /\ call' = "NONE" /\ pending' = NoWrite /\ UNCHANGED allowed
    BY <1>7, <2>1 DEF EraseOld, Return
  <2>3. IsStatus(new, "VALID_PAGE")
    BY <1>7 DEF EepromInv, PlaceInv
  <2>4. TypeOK'
    BY <1>1, <1>3, <1>5, <2>2 DEF EepromInv, TypeOK, Places
  <2>5. PlaceInv' /\ RoomInv' /\ CopyInv'
    BY <2>2 DEF PlaceInv, RoomInv, CopyInv, Filling
  <2>6. Settled'
    BY <1>1, <1>2, <1>3, <2>3 DEF Settled, IsStatus
  <2>7. ASSUME NEW p \in Pages, Current(p)'
        PROVE  p = new
    BY <1>3, <1>4, <2>7 DEF Current, IsStatus
  <2>8. ~disturbed => Holds(new)
    BY <1>2, <2>3 DEF EepromInv, ValueInv, Current
  <2>9. ValueInv'
    <3>1. Holds(new)' <=> Holds(new)
      BY <1>1, <1>3, <2>2 DEF Holds
    <3>2. ShapeInv'
      BY <2>2, <2>6 DEF ShapeInv
    <3>3. ~disturbed => \A p \in Pages : Current(p)' => Holds(p)'
      BY <1>1, <2>7, <2>8, <3>1
    <3>4. QED
      BY <1>1, <2>2, <3>2, <3>3 DEF ValueInv
  <2>10. QED
    BY <2>4, <2>5, <2>9 DEF EepromInv
<1>8. QED
  BY <1>1, <1>6, <1>7

LEMMA MarkValidKeeps ==
  ASSUME EepromInv, EepromAssumption, MarkValid, UNCHANGED <<new, faults, disturbed>>
  PROVE  EepromInv'
<1>1. /\ at \in {"valid", "mark"} /\ UNCHANGED <<slots, new, index, faults, disturbed>>
      /\ status' = [status EXCEPT ![new] = "VALID_PAGE"]
  BY DEF MarkValid, ProgramStatus
<1>2. new \in Pages /\ Other(new) \in Pages /\ Other(new) # new /\ Other(Other(new)) = new
  BY OtherPage DEF EepromInv, TypeOK
<1>3. /\ status' \in [Pages -> {"ERASED", "RECEIVE_DATA", "VALID_PAGE"}]
      /\ status'[new] = "VALID_PAGE" /\ status'[Other(new)] = status[Other(new)]
  BY <1>1, <1>2 DEF EepromInv, TypeOK
<1>4. \A p \in Pages : p = new \/ p = Other(new)
  BY <1>2 DEF Pages, Other
<1>5. \A p \in Pages : Len(slots'[p]) <= Slots /\ (status'[p] = "ERASED" => slots'[p] = <<>>)
  BY <1>1, <1>3, <1>4 DEF EepromInv, TypeOK
<1>6. CASE at = "valid"
  <2>1. /\ IsStatus(new, "RECEIVE_DATA") /\ IsStatus(Other(new), "ERASED") /\ index # Argument
        /\ call = "INIT" => pending = NoWrite
        /\ call \in {"INIT", "TRANSFER"}
    BY <1>6 DEF EepromInv, TypeOK, PlaceInv
  <2>2. /\ at' = "idle" /\ call' = "NONE" /\ pending' = NoWrite
        /\ allowed' = IF pending = NoWrite THEN allowed
                      ELSE [allowed EXCEPT ![pending.address] = {pending.data}]
    BY <1>6 DEF MarkValid, Return
  <2>3. /\ pending # NoWrite => call = "TRANSFER" /\ pending.address \in Addresses
                                /\ pending.data \in Values
        /\ allowed \in [Addresses -> (SUBSET (Values \cup {Blank})) \ {{}}]
    BY <2>1 DEF EepromInv, TypeOK
  <2>4. /\ allowed' \in [Addresses -> (SUBSET (Values \cup {Blank})) \ {{}}]
        /\ \A a \in Addresses : \/ allowed'[a] = allowed[a]
                                \/ /\ pending # NoWrite /\ a = pending.address
                                   /\ allowed'[a] = {pending.data}
    <3>1. CASE pending = NoWrite
      BY <2>2, <2>3, <3>1
    <3>2. CASE pending # NoWrite
      <4>1. {pending.data} \in (SUBSET (Values \cup {Blank})) \ {{}}
        BY <2>3, <3>2
      <4>2. allowed' = [allowed EXCEPT ![pending.address] = {pending.data}]
        BY <2>2, <3>2
      <4>3. QED
        BY <2>3, <3>2, <4>1, <4>2
    <3>3. QED
      BY <3>1, <3>2
  <2>5. TypeOK'
    BY <1>1, <1>3, <1>5, <2>2, <2>4 DEF EepromInv, TypeOK, Places
  <2>6. PlaceInv' /\ RoomInv' /\ CopyInv'
    BY <2>2 DEF PlaceInv, RoomInv, CopyInv, Filling
  <2>7. Settled'
    BY <1>1, <1>2, <1>3, <2>1 DEF Settled, IsStatus
  <2>8. ASSUME NEW p \in Pages, Current(p)'
        PROVE  p = new
    BY <1>3, <1>4, <2>1, <2>8 DEF Current, IsStatus
  <2>9. ~disturbed => Holds(new)
    BY <1>2, <2>1 DEF EepromInv, ValueInv, Current
  <2>10. pending # NoWrite => LastData(slots[new], pending.address) = pending.data
    BY <2>1, <2>3 DEF EepromInv, CopyInv
  <2>11. ~disturbed => Holds(new)'
    BY <1>1, <2>4, <2>9, <2>10 DEF Holds
  <2>12. ValueInv'
    <3>1. ShapeInv'
      BY <2>2, <2>7 DEF ShapeInv
    <3>2. ~disturbed => \A p \in Pages : Current(p)' => Holds(p)'
      BY <1>1, <2>8, <2>11
    <3>3. QED
      BY <1>1, <2>2, <3>1, <3>2 DEF ValueInv
  <2>13. QED
    BY <2>5, <2>6, <2>12 DEF EepromInv
<1>7. CASE at = "mark"
  <2>1. call = "INIT" /\ pending = NoWrite /\ index # Argument
    BY <1>7 DEF EepromInv, TypeOK, PlaceInv
  <2>2. at' = "clean" /\ UNCHANGED <<call, pending, allowed>>
    BY <1>7 DEF MarkValid, GoOn
  <2>3. TypeOK'
    BY <1>1, <1>3, <1>5, <2>2 DEF EepromInv, TypeOK, Places
  <2>4. PlaceInv'
    BY <1>1, <1>3, <2>1, <2>2 DEF PlaceInv, IsStatus
  <2>5. RoomInv' /\ CopyInv'
    BY <2>1, <2>2 DEF RoomInv, CopyInv, Filling
  <2>6. ASSUME ~disturbed
        PROVE  ShapeInv' /\ \A p \in Pages : Current(p)' => Holds(p)'
    <3>1. Empty /\ \A a \in Addresses : Blank \in allowed[a]
      BY <1>7, <2>1, <2>6 DEF EepromInv, ValueInv, ShapeInv
    <3>2. IsStatus(Other(new), "ERASED") /\ slots[new] = <<>>
      BY <1>2, <3>1 DEF EepromInv, TypeOK, Empty, IsStatus
    <3>3. Settled'
      BY <1>1, <1>2, <1>3, <3>2 DEF Settled, IsStatus
    <3>4. Holds(new)'
      BY <1>1, <2>2, <3>1, <3>2, NothingInEmptyLog DEF Holds
    <3>5. ASSUME NEW p \in Pages, Current(p)'
          PROVE  p = new
      BY <1>3, <1>4, <3>2, <3>5 DEF Current, IsStatus
    <3>6. QED
      BY <1>1, <2>2, <3>3, <3>4, <3>5 DEF ShapeInv
  <2>7. ValueInv'
    BY <1>1, <2>1, <2>2, <2>6 DEF ValueInv
  <2>8. QED
    BY <2>3, <2>4, <2>5, <2>7 DEF EepromInv
<1>8. QED
  BY <1>1, <1>6, <1>7

LEMMA FormatKeeps ==
  ASSUME EepromInv, EepromAssumption, EEPROM_Format, UNCHANGED <<new, faults, disturbed>>
  PROVE  EepromInv'
<1>1. /\ at = "format" /\ at' = "mark"
      /\ UNCHANGED <<call, pending, allowed, new, index, faults, disturbed>>
      /\ status' = [status EXCEPT ![new] = "ERASED"]
      /\ slots' = [slots EXCEPT ![new] = <<>>]
  BY DEF EEPROM_Format, EraseFlash, GoOn
<1>2. call = "INIT" /\ pending = NoWrite /\ index # Argument
  BY <1>1 DEF EepromInv, TypeOK, PlaceInv
<1>3. new \in Pages
  BY DEF EepromInv, TypeOK
<1>4. /\ status' \in [Pages -> {"ERASED", "RECEIVE_DATA", "VALID_PAGE"}]
      /\ slots' \in [Pages -> Seq(Slot)]
      /\ status'[new] = "ERASED" /\ slots'[new] = <<>>
      /\ \A p \in Pages : p # new => status'[p] = status[p] /\ slots'[p] = slots[p]
  BY <1>1, <1>3 DEF EepromInv, TypeOK
<1>5. \A p \in Pages : Len(slots'[p]) <= Slots /\ (status'[p] = "ERASED" => slots'[p] = <<>>)
  <2>1. Len(slots'[new]) = 0 /\ 0 <= Slots
    BY <1>4 DEF EepromAssumption
  <2>2. QED
    BY <1>4, <2>1 DEF EepromInv, TypeOK
<1>6. TypeOK'
  BY <1>1, <1>4, <1>5 DEF EepromInv, TypeOK, Places
<1>7. PlaceInv' /\ RoomInv' /\ CopyInv'
  BY <1>1, <1>2 DEF PlaceInv, RoomInv, CopyInv, Filling
<1>8. ValueInv'
  <2>1. ~disturbed => Empty /\ \A a \in Addresses : Blank \in allowed[a]
    BY <1>1, <1>2 DEF EepromInv, ValueInv, ShapeInv
  <2>2. Empty => Empty'
    BY <1>4 DEF Empty, IsStatus
  <2>3. ASSUME NEW p \in Pages, Empty'
        PROVE  ~Current(p)'
    BY <2>3 DEF Empty, Current, IsStatus
  <2>4. ~disturbed => ShapeInv'
    BY <1>1, <2>1, <2>2 DEF ShapeInv
  <2>5. QED
    BY <1>1, <1>2, <2>1, <2>2, <2>3, <2>4 DEF ValueInv
<1>9. QED
  BY <1>6, <1>7, <1>8 DEF EepromInv

LEMMA CopyVariableKeeps ==
  ASSUME EepromInv, EepromAssumption, CopyVariable
  PROVE  EepromInv'
<1>1. /\ at = "copy" /\ index < NumVars
      /\ UNCHANGED <<status, slots, call, new, pending, allowed, faults, disturbed>>
  BY DEF CopyVariable
<1>2. /\ UNCHANGED <<ReadPage, WritePage>> /\ UNCHANGED <<Settled, Halfway>>
      /\ \A p \in Pages : (Current(p)' <=> Current(p)) /\ (Holds(p)' <=> Holds(p))
  BY <1>1 DEF ReadPage, WritePage, IsStatus, Settled, Halfway, Current, Holds
<1>3. /\ call \in {"INIT", "TRANSFER"} /\ index \in 0 .. NumVars - 1
      /\ IsStatus(new, "RECEIVE_DATA") /\ IsStatus(Other(new), "VALID_PAGE")
      /\ call = "INIT" => pending = NoWrite
  BY <1>1, EepromAssumption DEF EepromInv, TypeOK, PlaceInv, Argument, EepromAssumption
<1>4. /\ ReadPage = Other(new) /\ new \in Pages /\ Other(new) \in Pages
      /\ slots[new] \in Seq(Slot) /\ slots[Other(new)] \in Seq(Slot)
  BY <1>3, PagesOfTransfer, OtherPage DEF EepromInv, TypeOK
<1>5. call = "TRANSFER" => Filling /\ pending.address \in Addresses /\ pending # NoWrite
  BY <1>1 DEF Filling, EepromInv, TypeOK, PlaceInv
<1>6. CASE /\ Skipped(index) \/ SlotsOf(slots[ReadPage], EepromAddressTab(index)) = {}
           /\ index' = index + 1 /\ at' = at
  <2>1. index' \in 0 .. NumVars /\ index' # Argument
    BY <1>3, <1>6, EepromAssumption DEF Argument, EepromAssumption
  <2>2. TypeOK'
    BY <1>1, <1>6, <2>1 DEF EepromInv, TypeOK, Argument
  <2>3. PlaceInv'
    BY <1>1, <1>3, <1>6, <2>1 DEF EepromInv, PlaceInv, IsStatus
  <2>4. RoomInv'
    <3>1. CASE call = "TRANSFER"
      <4>1. Len(slots[new]) + Saved <= index + 1 + Begun /\ Begun = 0 /\ Begun' = 0
        BY <1>1, <1>5, <1>6, <3>1 DEF EepromInv, RoomInv, Begun
      <4>2. Saved \in {0, 1} /\ Saved' \in {0, 1} /\ Len(slots[new]) \in Int
        BY <1>4 DEF Saved
      <4>3. Saved' <= Saved + 1
        BY <4>2
      <4>4. Len(slots'[new']) + Saved' <= index' + 1 + Begun'
        BY <1>1, <1>3, <1>6, <4>1, <4>2, <4>3
      <4>5. QED
        BY <1>1, <1>6, <4>4 DEF RoomInv
    <3>2. CASE call # "TRANSFER"
      BY <1>1, <3>2 DEF RoomInv, Filling
    <3>3. QED
      BY <3>1, <3>2
  <2>5. CopyInv'
    <3>1. CASE call = "TRANSFER"
      <4>1. ASSUME NEW a \in Addresses, a # pending.address
            PROVE  IF a < index' THEN LastData(slots[new], a) = LastData(slots[Other(new)], a)
                   ELSE SlotsOf(slots[new], a) = {}
        <5>1. IF a < index THEN LastData(slots[new], a) = LastData(slots[Other(new)], a)
              ELSE SlotsOf(slots[new], a) = {}
          BY <1>5, <3>1, <4>1 DEF EepromInv, CopyInv
        <5>2. a \in Int /\ index \in Int
          BY <1>3 DEF Addresses
        <5>3. CASE a = index
          <6>1. SlotsOf(slots[new], a) = {} /\ a < index'
            BY <1>6, <5>1, <5>2, <5>3
          <6>2. SlotsOf(slots[Other(new)], a) = {}
            BY <1>4, <1>6, <3>1, <4>1, <5>3 DEF Skipped, EepromAddressTab
          <6>3. QED
            BY <6>1, <6>2 DEF LastData
        <5>4. CASE a # index
          <6>1. a < index' <=> a < index
            BY <1>6, <5>2, <5>4
          <6>2. QED
            BY <5>1, <6>1
        <5>5. QED
          BY <5>3, <5>4
      <4>2. LastData(slots[new], pending.address) = pending.data
        BY <1>3, <3>1 DEF EepromInv, CopyInv, Argument
      <4>3. QED
        BY <1>1, <4>1, <4>2 DEF CopyInv
    <3>2. CASE call # "TRANSFER"
      BY <1>1, <3>2 DEF CopyInv, Filling
    <3>3. QED
      BY <3>1, <3>2
  <2>6. ValueInv'
    BY <1>1, <1>2, <1>6 DEF EepromInv, ValueInv, ShapeInv
  <2>7. QED
    BY <2>2, <2>3, <2>4, <2>5, <2>6 DEF EepromInv
<1>7. CASE /\ ~Skipped(index) /\ SlotsOf(slots[ReadPage], EepromAddressTab(index)) # {}
           /\ index' = index /\ at' = "data"
  <2>1. TypeOK'
    BY <1>1, <1>7 DEF EepromInv, TypeOK, Places
  <2>2. PlaceInv'
    <3>1. SlotsOf(slots[ReadPage], EepromAddressTab(index))' # {}
      BY <1>1, <1>2, <1>7 DEF EepromAddressTab
    <3>2. QED
      BY <1>1, <1>3, <1>7, <3>1 DEF EepromInv, PlaceInv, IsStatus
  <2>3. RoomInv'
    <3>1. CASE call = "TRANSFER"
      <4>1. Len(slots[new]) + Saved <= index + 1 + Begun /\ Begun = 0 /\ Begun' = 0
        BY <1>1, <1>5, <1>7, <3>1 DEF EepromInv, RoomInv, Begun
      <4>2. UNCHANGED Saved
        BY <1>1, <1>7 DEF Saved
      <4>3. index # pending.address
        BY <1>7, <3>1 DEF Skipped, EepromAddressTab
      <4>4. QED
        BY <1>1, <1>7, <4>1, <4>2, <4>3 DEF RoomInv
    <3>2. CASE call # "TRANSFER"
      BY <1>1, <3>2 DEF RoomInv, Filling
    <3>3. QED
      BY <3>1, <3>2
  <2>4. CopyInv'
    BY <1>1, <1>7 DEF EepromInv, CopyInv, Filling
  <2>5. ValueInv'
    BY <1>1, <1>2, <1>7 DEF EepromInv, ValueInv, ShapeInv
  <2>6. QED
    BY <2>1, <2>2, <2>3, <2>4, <2>5 DEF EepromInv
<1>8. QED
  BY <1>6, <1>7 DEF CopyVariable

LEMMA CopyEndsKeeps ==
  ASSUME EepromInv, EepromAssumption, CopyEnds
  PROVE  EepromInv'
<1>1. /\ at = "copy" /\ index = NumVars
      /\ at' = IF call = "TRANSFER" THEN "erase" ELSE "mark"
      /\ UNCHANGED <<status, slots, call, new, index, pending, allowed, faults, disturbed>>
  BY DEF CopyEnds
<1>2. /\ UNCHANGED <<Settled, Halfway>>
      /\ \A p \in Pages : (Current(p)' <=> Current(p)) /\ (Holds(p)' <=> Holds(p))
  BY <1>1 DEF IsStatus, Settled, Halfway, Current, Holds
<1>3. /\ call \in {"INIT", "TRANSFER"} /\ index # Argument
      /\ IsStatus(new, "RECEIVE_DATA") /\ IsStatus(Other(new), "VALID_PAGE")
  BY <1>1 DEF EepromInv, TypeOK, PlaceInv
<1>4. TypeOK'
  BY <1>1 DEF EepromInv, TypeOK, Places
<1>5. PlaceInv'
  BY <1>1, <1>3 DEF EepromInv, PlaceInv, IsStatus
<1>6. RoomInv' /\ CopyInv'
  BY <1>1 DEF EepromInv, RoomInv, CopyInv, Filling
<1>7. ~Settled
  BY <1>3 DEF EepromInv, TypeOK, Settled, IsStatus, Pages, Other
<1>8. ValueInv'
  <2>1. ~disturbed => call = "TRANSFER" /\ Halfway
    BY <1>1, <1>7 DEF EepromInv, ValueInv, ShapeInv
  <2>2. ~disturbed => ShapeInv'
    BY <1>1, <1>2, <2>1 DEF ShapeInv
  <2>3. QED
    BY <1>1, <1>2, <2>2 DEF EepromInv, ValueInv
<1>9. QED
  BY <1>4, <1>5, <1>6, <1>8 DEF EepromInv

LEMMA StepKeeps ==
  ASSUME EepromInv, EepromAssumption, [Next]_vars
  PROVE  EepromInv'
<1>1. CASE \E a \in Addresses, d \in Values : EEPROM_write(a, d)
  BY <1>1, WriteKeeps
<1>2. CASE FlashOperation
  BY <1>2, MarkReceiveKeeps, PutDataKeeps, PutAddressKeeps, EraseOldKeeps, MarkValidKeeps,
     FormatKeeps DEF FlashOperation
<1>3. CASE CopyVariable
  BY <1>3, CopyVariableKeeps
<1>4. CASE CopyEnds
  BY <1>4, CopyEndsKeeps
<1>5. CASE GiveUp
  BY <1>5, GiveUpKeeps
<1>6. CASE PowerCut
  BY <1>6, PowerCutKeeps
<1>7. CASE UNCHANGED vars
  <2>1. UNCHANGED <<TypeOK, PlaceInv, RoomInv, CopyInv>>
    BY <1>7 DEF vars, TypeOK, PlaceInv, RoomInv, CopyInv, Filling, Saved, Begun, IsStatus,
                WritePage, ReadPage, Entry, EEPROM_ReadVariable, EepromAddressTab
  <2>2. UNCHANGED ValueInv
    BY <1>7 DEF vars, ValueInv, ShapeInv, Settled, Empty, Unfinished, Halfway, Current, Holds,
                IsStatus
  <2>3. QED
    BY <2>1, <2>2 DEF EepromInv
<1>8. QED
  BY <1>1, <1>2, <1>3, <1>4, <1>5, <1>6, <1>7 DEF Next

LEMMA AlwaysEepromInv == Spec => []EepromInv
<1>1. Init => EepromInv
  BY InitEstablishes, EepromAssumption
<1>2. EepromInv /\ [Next]_vars => EepromInv'
  BY StepKeeps, EepromAssumption
<1>3. QED
  BY <1>1, <1>2, PTL DEF Spec

(* The type invariant: of every state that EEPROM_Init, EEPROM_write, the   *)
(* flash and the power can lead to.                                         *)
THEOREM EepromTypeCorrect == Spec => []TypeOK
<1>1. EepromInv => TypeOK
  BY DEF EepromInv
<1>2. QED
  BY <1>1, AlwaysEepromInv, PTL

(* What EEPROM_read returns between two calls is the last value written, or *)
(* the one before if that write was cut short: until a page transfer is     *)
(* itself cut short, or for the time a failed one has left to the next      *)
(* boot.                                                                    *)
THEOREM ValuesRemembered == Spec => []RemembersUndisturbed
<1>1. EepromInv => RemembersUndisturbed
  <2> SUFFICES ASSUME EepromInv, ~disturbed, ~(Unfinished /\ faults > 0), call = "NONE",
                      NEW a \in Addresses
               PROVE  EEPROM_ReadVariable(a) \in allowed[a]
    BY DEF RemembersUndisturbed, Remembers
  <2>1. ShapeInv /\ at = "idle"
    BY DEF EepromInv, TypeOK, ValueInv
  <2>2. CASE Settled
    <3>1. PICK p \in Pages : IsStatus(p, "VALID_PAGE") /\ IsStatus(Other(p), "ERASED")
      BY <2>2 DEF Settled
    <3>2. ReadPage = p /\ p # NoPage
      BY <3>1, PagesOfValid DEF EepromInv, Pages, NoPage
    <3>3. Holds(p)
      BY <3>1 DEF EepromInv, ValueInv, Current
    <3>4. QED
      BY <3>2, <3>3 DEF EEPROM_ReadVariable, Holds
  <2>3. CASE Empty /\ Blank \in allowed[a]
    <3>1. ReadPage = NoPage
      BY <2>3 DEF Empty, ReadPage, IsStatus, Pages
    <3>2. QED
      BY <2>3, <3>1 DEF EEPROM_ReadVariable
  <2>4. QED
    BY <2>1, <2>2, <2>3 DEF ShapeInv
<1>2. QED
  BY <1>1, AlwaysEepromInv, PTL

(* The page that a transfer fills has a slot for each of its writes, with   *)
(* as few slots as variables: the argument takes one, every other variable  *)
(* at most one.                                                             *)
THEOREM RoomForTransfer == Spec => []TransferHasRoom
<1>1. EepromInv => TransferHasRoom
  <2> SUFFICES ASSUME EepromInv, call = "TRANSFER", at = "data"
               PROVE  Len(slots[WritePage]) < Slots
    BY DEF TransferHasRoom
  <2>1. WritePage = new /\ new \in Pages
    BY PagesOfTransfer DEF EepromInv, TypeOK, PlaceInv
  <2>2. /\ Len(slots[new]) + Saved <= index + 1 + Begun
        /\ index # pending.address /\ index < NumVars
        /\ pending.address \in Addresses
    BY DEF EepromInv, TypeOK, PlaceInv, RoomInv, Filling
  <2>3. /\ Len(slots[new]) \in Int /\ index \in Int /\ index >= -1 /\ Begun = 0
        /\ pending.address \in Int /\ pending.address < NumVars
    BY <2>1, <2>2, EepromAssumption DEF EepromInv, TypeOK, Argument, Begun, Addresses,
       EepromAssumption
  <2>4. NumVars \in Int /\ Slots \in Int /\ NumVars <= Slots
    BY EepromAssumption DEF EepromAssumption
  <2>5. CASE pending.address < index
    <3>1. Saved = 1
      BY <2>5 DEF Saved
    <3>2. QED
      BY <2>1, <2>2, <2>3, <2>4, <3>1
  <2>6. CASE ~(pending.address < index)
    <3>1. Saved = 0
      BY <2>6 DEF Saved
    <3>2. index + 1 <= pending.address
      BY <2>2, <2>3, <2>6
    <3>3. QED
      BY <2>1, <2>2, <2>3, <2>4, <3>1, <3>2
  <2>7. QED
    BY <2>5, <2>6
<1>2. QED
  BY <1>1, AlwaysEepromInv, PTL

(* A boot whose repairs are not cut short leaves one page that is read and  *)
(* written, whatever happened before it.                                    *)
THEOREM BootLeavesPage == Spec => ReadyAfterBoot
<1>1. ASSUME EepromInv, call = "INIT", FlashOperation, call' = "NONE"
      PROVE  ReadPage' # NoPage /\ WritePage' = ReadPage'
  <2>1. /\ status \in [Pages -> {"ERASED", "RECEIVE_DATA", "VALID_PAGE"}]
        /\ new \in Pages /\ Other(new) \in Pages /\ Other(new) # new
    BY <1>1, OtherPage DEF EepromInv, TypeOK
  <2>2. status'[new] = "VALID_PAGE" /\ status'[Other(new)] = "ERASED"
    <3>1. CASE at = "clean" /\ EraseOld
      <4>1. /\ IsStatus(new, "VALID_PAGE")
            /\ status' = [status EXCEPT ![Other(new)] = "ERASED"]
        BY <1>1, <3>1 DEF EepromInv, PlaceInv, EraseOld, EraseFlash
      <4>2. QED
        BY <2>1, <4>1 DEF IsStatus
    <3>2. CASE at = "valid" /\ MarkValid
      <4>1. /\ IsStatus(Other(new), "ERASED")
            /\ status' = [status EXCEPT ![new] = "VALID_PAGE"]
        BY <1>1, <3>2 DEF EepromInv, PlaceInv, MarkValid, ProgramStatus
      <4>2. QED
        BY <2>1, <4>1 DEF IsStatus
    <3>3. QED
      BY <1>1, <3>1, <3>2 DEF FlashOperation, MarkReceive, PutData, PutAddress, EraseOld,
         MarkValid, EEPROM_Format, GoOn
  <2>3. QED
    BY <2>1, <2>2 DEF ReadPage, WritePage, IsStatus, Pages, NoPage, Other
<1>2. EepromInv /\ [Next]_vars => [call = "INIT" /\ FlashOperation /\ call' = "NONE"
                                     => ReadPage' # NoPage /\ WritePage' = ReadPage']_vars
  BY <1>1
<1>3. QED
  BY <1>2, AlwaysEepromInv, PTL DEF Spec, ReadyAfterBoot

-----------------------------------------------------------------------------
(***************************************************************************)
(* Seeds.                                                                  *)
(***************************************************************************)

USE SeedAssumption DEF SeedAssumption, SeedIndex

\* The seed taken last, or about to be.
Top == IF pc \in {"erase", "write"} THEN current_seed_index ELSE cell

\* How many seeds ago was seed i the newest, if j is now?
Back(j, i) == IF i <= j THEN j - i ELSE j - i + NumSeeds

\* The nonces that a later one might repeat.
Relevant == {n \in given : ~torn \/ n.boot = boot}

\* Between the choice of a seed and its first nonce.
Fresh == pc \in {"erase", "write", "load"}
\* The seed that nonces are drawn from is the newest.
Loaded == pc = "draw" \/ (pc = "idle" /\ seed_vector # NoSeed)

\* Seeds are used in the order of the table, from one place on; as long as they
\* have not gone round, the next one is new.
OrderInv ==
  /\ pc = "load" => cell = current_seed_index
  /\ pc = "erase" => current_seed_index = NextIndex(cell)
  /\ Loaded => seed_vector = cell
  /\ pc = "draw" => seed_vector # NoSeed /\ drawn < MaxDraws
  /\ \A n \in given : n.boot <= boot
  /\ Fresh \/ Loaded => rotations > 0
  /\ \A n \in Relevant : /\ Back(Top, n.seed) < rotations
                         /\ Fresh => n.seed # Top
                         /\ Loaded /\ n.seed = seed_vector => n.number <= drawn

SeedInv == SRTypeOK /\ OrderInv

---------------------------------------------------------------------------
LEMMA NextIndexIsIndex ==
  ASSUME NEW i \in SeedIndex
  PROVE  NextIndex(i) \in SeedIndex
BY DEF NextIndex

\* The next index makes every seed older by one, unless the table has gone round.
LEMMA NextIsOneFurther ==
  ASSUME NEW i \in SeedIndex, NEW j \in SeedIndex, Back(j, i) < NumSeeds - 1
  PROVE  Back(NextIndex(j), i) = Back(j, i) + 1
BY DEF Back, NextIndex

LEMMA PreviousIsOneNearer ==
  ASSUME NEW i \in SeedIndex, NEW j \in SeedIndex, i # NextIndex(j)
  PROVE  Back(j, i) = Back(NextIndex(j), i) - 1
BY DEF Back, NextIndex

LEMMA BackIsNat ==
  ASSUME NEW i \in SeedIndex, NEW j \in SeedIndex
  PROVE  Back(j, i) \in Nat /\ (Back(j, i) = 0 <=> i = j)
BY DEF Back

LEMMA SeedInitEstablishes == SRInit => SeedInv
<1> SUFFICES ASSUME SRInit PROVE SeedInv
  OBVIOUS
<1>1. SRTypeOK
  <2>1. given \subseteq [boot : 1 .. MaxBoots, seed : SeedIndex, number : 1 .. MaxDraws]
    BY Zenon DEF SRInit
  <2>2. 0 \in SeedIndex /\ 0 \in 0 .. MaxDraws /\ 1 \in 1 .. MaxBoots /\ 0 \in 0 .. MaxRotations
    OBVIOUS
  <2>3. QED
    BY <2>1, <2>2, Zenon DEF SRInit, SRTypeOK
<1>2. Relevant = {}
  BY DEF SRInit, Relevant
<1>3. OrderInv
  BY <1>2 DEF SRInit, OrderInv, Loaded, Fresh, NoSeed
<1>4. QED
  BY <1>1, <1>3 DEF SeedInv

---------------------------------------------------------------------------
LEMMA UseSeedKeeps ==
  ASSUME SeedInv, UseSeed
  PROVE  SeedInv'
BY DEF SeedInv, SRTypeOK, OrderInv, UseSeed, Relevant, Loaded, Fresh, Top, Uninitialized, Back

LEMMA RotateKeeps ==
  ASSUME SeedInv, Rotate
  PROVE  SeedInv'
<1> USE DEF SeedInv, SRTypeOK, OrderInv
<1>1. SRTypeOK'
  BY NextIndexIsIndex DEF Rotate
<1>2. /\ pc' = "erase" /\ pc = "idle"
      /\ Relevant' = Relevant /\ Top' = NextIndex(cell) /\ Top = cell
  BY DEF Rotate, Relevant, Top
<1>3. ~Loaded' /\ rotations' = rotations + 1
  BY DEF Rotate, Loaded
<1>4. ASSUME NEW n \in Relevant
      PROVE  Back(Top', n.seed) < rotations' /\ n.seed # Top'
  <2>1. n.seed \in SeedIndex
    BY DEF Relevant
  <2>2. Back(cell, n.seed) < NumSeeds - 1
    BY <1>2, <2>1, BackIsNat DEF Rotate
  <2>3. Back(Top', n.seed) = Back(cell, n.seed) + 1
    BY <1>2, <2>1, <2>2, NextIsOneFurther
  <2>4. Top' \in SeedIndex
    BY <1>2, NextIndexIsIndex
  <2>5. QED
    BY <1>2, <1>3, <2>1, <2>3, <2>4, BackIsNat
<1>5. QED
  BY <1>1, <1>2, <1>3, <1>4 DEF Rotate, Fresh

LEMMA EraseSectorKeeps ==
  ASSUME SeedInv, EraseSector
  PROVE  SeedInv'
<1> USE DEF SeedInv, SRTypeOK, OrderInv, EraseSector, Erased
<1>1. Top' = Top /\ Relevant' = Relevant
  BY DEF Top, Relevant
<1>2. QED
  BY <1>1 DEF Loaded, Fresh

LEMMA WriteIndexKeeps ==
  ASSUME SeedInv, WriteIndex
  PROVE  SeedInv'
<1> USE DEF SeedInv, SRTypeOK, OrderInv, WriteIndex
<1>1. Top' = Top /\ Relevant' = Relevant
  BY DEF Top, Relevant
<1>2. QED
  BY <1>1 DEF Loaded, Fresh

LEMMA LoadSeedKeeps ==
  ASSUME SeedInv, LoadSeed
  PROVE  SeedInv'
<1> USE DEF SeedInv, SRTypeOK, OrderInv, LoadSeed
<1>1. Top' = Top /\ Relevant' = Relevant /\ Top = cell
  BY DEF Top, Relevant
<1>2. QED
  BY <1>1 DEF Loaded, Fresh, NoSeed

LEMMA DrawKeeps ==
  ASSUME SeedInv, Draw
  PROVE  SeedInv'
<1> USE DEF SeedInv, SRTypeOK, OrderInv, Draw
<1>1. Nonce \in [boot : 1 .. MaxBoots, seed : SeedIndex, number : 1 .. MaxDraws]
  BY DEF Nonce, Loaded
<1>2. SRTypeOK'
  BY <1>1
<1>3. Top' = Top /\ Top = cell /\ seed_vector = cell
  BY DEF Top, Loaded
<1>4. ASSUME NEW n \in Relevant'
      PROVE  Back(Top, n.seed) < rotations /\ (n.seed = seed_vector => n.number <= drawn + 1)
  <2>1. CASE n = Nonce
    <3>1. n.seed = cell /\ n.number = drawn + 1
      BY <1>3, <2>1 DEF Nonce
    <3>2. Back(Top, n.seed) = 0
      BY <1>3, <3>1, BackIsNat
    <3>3. QED
      BY <3>1, <3>2 DEF Loaded
  <2>2. CASE n \in Relevant
    BY <1>3, <2>2 DEF Relevant, Loaded
  <2>3. QED
    BY <2>1, <2>2 DEF Relevant
<1>5. \A n \in given' : n.boot <= boot
  BY DEF Nonce
<1>6. QED
  BY <1>2, <1>3, <1>4, <1>5 DEF Fresh, Loaded

LEMMA SeedPowerCutKeeps ==
  ASSUME SeedInv, SRPowerCut
  PROVE  SeedInv'
<1> USE DEF SeedInv, SRTypeOK, OrderInv, SRPowerCut
<1>1. SRTypeOK'
  BY DEF NoSeed
<1>2. ~Loaded' /\ ~Fresh' /\ Top' = cell
  BY DEF Loaded, Fresh, Top
<1>3. \A n \in given : n.boot <= boot /\ n.boot < boot'
  OBVIOUS
<1>4. ASSUME NEW n \in Relevant'
      PROVE  Back(cell, n.seed) < rotations
  <2>1. ~torn' /\ n \in given
    BY <1>3 DEF Relevant
  <2>2. n \in Relevant /\ n.seed \in SeedIndex /\ pc # "write"
    BY <2>1 DEF Relevant
  <2>3. CASE pc = "erase"
    <3>1. n.seed # NextIndex(cell) /\ Back(NextIndex(cell), n.seed) < rotations
      BY <2>2, <2>3 DEF Fresh, Top
    <3>2. Back(cell, n.seed) = Back(NextIndex(cell), n.seed) - 1
      BY <2>2, <3>1, PreviousIsOneNearer
    <3>3. Back(NextIndex(cell), n.seed) \in Nat
      BY <2>2, NextIndexIsIndex, BackIsNat
    <3>4. QED
      BY <3>1, <3>2, <3>3
  <2>4. CASE pc # "erase"
    BY <2>2, <2>4 DEF Top
  <2>5. QED
    BY <2>3, <2>4
<1>5. QED
  BY <1>1, <1>2, <1>3, <1>4

LEMMA SeedStepKeeps == SeedInv /\ [SRNext]_SRVars => SeedInv'
<1>1. ASSUME SeedInv, UNCHANGED SRVars PROVE SeedInv'
  BY <1>1 DEF SRVars, SeedInv, SRTypeOK, OrderInv, Relevant, Loaded, Fresh, Top
<1>2. QED
  BY <1>1, UseSeedKeeps, RotateKeeps, EraseSectorKeeps, WriteIndexKeeps, LoadSeedKeeps,
     DrawKeeps, SeedPowerCutKeeps DEF SRNext

LEMMA AlwaysSeedInv == SRSpec => []SeedInv
<1>1. QED
  BY SeedInitEstablishes, SeedStepKeeps, PTL DEF SRSpec

---------------------------------------------------------------------------
\* The types of the generator's state and of the index in flash
\* (SparkRandomNumberGenerator).
THEOREM SeedTypeCorrect == SRSpec => []SRTypeOK
<1>1. SeedInv => SRTypeOK
  BY DEF SeedInv
<1>2. QED
  BY <1>1, AlwaysSeedInv, PTL

\* Until the table has gone round no nonce is given out twice, over any number
\* of restarts, unless power was cut between erasing and writing the index
\* (rotateRandomSeed, generateRandomChallengeNonce).
THEOREM NoRepetition == SRSpec => NoNonceTwice
<1>1. SeedInv /\ [SRNext]_SRVars => [Draw /\ ~torn => ~GivenBefore]_SRVars
  BY DEF SeedInv, OrderInv, SRTypeOK, Draw, GivenBefore, Relevant, Loaded
<1>2. QED
  BY <1>1, AlwaysSeedInv, PTL DEF SRSpec, NoNonceTwice

\* Whatever happened to the index, no boot gives a nonce out twice
\* (generateRandomChallengeNonce).
THEOREM NoRepetitionInABoot == SRSpec => NoNonceTwiceInABoot
<1>1. SeedInv /\ [SRNext]_SRVars =>
        [Draw => \A n \in given :
           n.boot = boot => ~(n.seed = seed_vector /\ n.number = drawn + 1)]_SRVars
  BY DEF SeedInv, OrderInv, SRTypeOK, Draw, Relevant, Loaded
<1>2. QED
  BY <1>1, AlwaysSeedInv, PTL DEF SRSpec, NoNonceTwiceInABoot
=============================================================================
