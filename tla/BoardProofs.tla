---------------------------- MODULE BoardProofs -----------------------------
(***************************************************************************)
(* What the rest of the board promises, for all values of the constants:   *)
(* the firmware update, the clock, the way to a network, the screen, the   *)
(* time zone, the driver of the panel, the wires to it and what is drawn,  *)
(* in this order.  For each an invariant that its steps keep, one lemma    *)
(* per action, and the properties it implies; the time zone and what is    *)
(* drawn are computed, and the lemmas are about days and loops.            *)
(***************************************************************************)
EXTENDS Board, FiniteSetTheorems, SequenceTheorems, WellFoundedInduction, TLAPS

(* Two sequences one behind the other.                                      *)
LEMMA Joined ==
  ASSUME NEW X, NEW s \in Seq(X), NEW t \in Seq(X)
  PROVE  /\ s \o t \in Seq(X)
         /\ Len(s \o t) = Len(s) + Len(t)
         /\ \A i \in 1..Len(s) : (s \o t)[i] = s[i]
         /\ \A i \in 1..Len(t) : (s \o t)[Len(s) + i] = t[i]
<1>1. Len(s) \in Nat /\ Len(t) \in Nat
  BY LenProperties
<1>2. /\ s \o t \in Seq(X) /\ Len(s \o t) = Len(s) + Len(t)
      /\ \A i \in 1..Len(s) + Len(t) :
           (s \o t)[i] = IF i <= Len(s) THEN s[i] ELSE t[i - Len(s)]
  BY ConcatProperties
<1>3. ASSUME NEW i \in 1..Len(t) PROVE (s \o t)[Len(s) + i] = t[i]
  <2>1. Len(s) + i \in 1..Len(s) + Len(t) /\ ~(Len(s) + i <= Len(s)) /\ Len(s) + i - Len(s) = i
    BY <1>1
  <2> QED
    BY <1>2, <2>1
<1>4. ASSUME NEW i \in 1..Len(s) PROVE (s \o t)[i] = s[i]
  <2>1. i \in 1..Len(s) + Len(t) /\ i <= Len(s)
    BY <1>1
  <2> QED
    BY <1>2, <2>1
<1> QED
  BY <1>2, <1>3, <1>4

(* The last elements of a sequence.                                         *)
LEMMA Rest ==
  ASSUME NEW X, NEW s \in Seq(X), NEW n \in 0..Len(s)
  PROVE  /\ SubSeq(s, n + 1, Len(s)) \in Seq(X)
         /\ Len(SubSeq(s, n + 1, Len(s))) = Len(s) - n
         /\ \A i \in 1..Len(s) - n : SubSeq(s, n + 1, Len(s))[i] = s[n + i]
<1>1. Len(s) \in Nat /\ n \in Nat
  BY LenProperties
<1>2. CASE n = Len(s)
  <2>1. SubSeq(s, n + 1, Len(s)) = << >>
    BY <1>1, <1>2, SubSeqEmpty
  <2> QED
    BY <1>1, <1>2, <2>1, EmptySeq
<1>3. CASE n < Len(s)
  <2>1. n + 1 \in 1..Len(s) /\ n + 1 \in 1..Len(s) + 1 /\ Len(s) \in n + 1 - 1..Len(s)
    BY <1>1, <1>3
  <2>2. \A i \in n + 1..Len(s) : s[i] \in X
    BY <1>1, ElementOfSeq
  <2>3. /\ Len(SubSeq(s, n + 1, Len(s))) = Len(s) - (n + 1) + 1
        /\ \A i \in 1..Len(s) - (n + 1) + 1 : SubSeq(s, n + 1, Len(s))[i] = s[n + 1 + i - 1]
    BY <2>1, SubSeqProperties
  <2>4. SubSeq(s, n + 1, Len(s)) \in Seq(X)
    BY <2>1, SubSeqProperties
  <2> QED
    BY <1>1, <2>3, <2>4
<1> QED
  BY <1>1, <1>2, <1>3

-----------------------------------------------------------------------------
(* The update: upgrade_task's place and its timer.                          *)
Waiting == {"try", "request", "read", "erase", "check"}
Cells == 0..(SlotSectors + 2) * Sector - 1
Content == -4..image

UpgradeTypes ==
  /\ image \in Lengths
  /\ flash \in [Cells -> Content]
  /\ pc \in Waiting \cup {"crc", "done", "fault"}
  /\ retry_count \in 1..UPGRADE_RETRY_TIMES + 1
  /\ pc \in Waiting => retry_count <= UPGRADE_RETRY_TIMES
  /\ totallength \in 0..image + 1 /\ sumlength \in {0, image} /\ sent \in 0..image + 1
  /\ flash_erased \in BOOLEAN /\ giveup \in BOOLEAN /\ upgrade_flag \in BOOLEAN
  /\ armed \in BOOLEAN /\ clean \in BOOLEAN
  /\ flag \in {"idle", "start", "finish"} /\ result \in {"none", "ok", "failed"}
  /\ errors \in [now : BOOLEAN, all : Nat]

WriteState ==
  \/ upgrade = O!NoUpgrade
  \/ /\ upgrade \in [addr : 0..SlotSectors * Sector, save : Seq(Content), earse : 0..SlotSectors + 1]
     /\ Len(upgrade.save) < Word

(* Until the timer frees them the task has its buffers.                     *)
Timer ==
  /\ armed <=> result = "none"
  /\ giveup => result = "failed"
  /\ result # "none" => giveup \/ pc = "done"
  /\ pc = "done" => result # "none"

(* How far the download is: the sectors erased, the bytes received.         *)
Progress ==
  O!Owns =>
    /\ pc \in {"request", "read", "erase", "check"} => upgrade # O!NoUpgrade
    /\ pc \in {"try", "request"} => totallength = 0
    /\ pc = "request" => upgrade.addr = 0 /\ upgrade.earse = 0
    /\ pc \in {"read", "check"} => totallength = sent
    /\ pc = "read" /\ ~flash_erased => upgrade.earse = 0
    /\ pc = "check" => flash_erased
    /\ pc = "erase" => sumlength = image

(* Where the next bytes go the flash is erased.                             *)
From == IF pc \in {"read", "check"} THEN upgrade.addr ELSE 0
Blank ==
  O!Owns =>
    /\ pc = "erase" => \A c \in Cells : c < upgrade.earse * Sector => flash[c] = O!Erased
    /\ pc \in {"try", "request", "read", "check"} /\ flash_erased =>
         \A c \in Cells : From <= c /\ c < SlotSectors * Sector /\ c < image => flash[c] = O!Erased

(* Once it is judged nothing touches the slot any more.                     *)
Judged == flag = "finish" \/ result = "ok" => pc = "done" /\ O!SlotHolds(image)

UpgradeInv ==
  /\ UpgradeTypes /\ WriteState /\ Timer /\ Progress /\ Blank /\ Judged
  /\ O!OthersKept /\ O!WrittenInOrder

(* The sizes of the update.                                                 *)
LEMMA UpgradeConstants ==
  /\ Word \in Nat /\ Word > 0 /\ Sector \in Nat /\ Sector > 0
  /\ SlotSectors \in Nat /\ SlotSectors > 0
  /\ SegLen \in Nat /\ SegLen > 0
  /\ UPGRADE_RETRY_TIMES \in Nat /\ UPGRADE_RETRY_TIMES > 0
  /\ Lengths \subseteq Nat /\ MaxErrors \in Nat
  /\ \A n \in Lengths : n > Sector
  BY BoardAssumption DEF O!OtaAssumption

(* The slot, a sector of grace, and a sector behind them.                   *)
LEMMA SlotSizes ==
  /\ SlotSectors * Sector \in Nat /\ SlotSectors * Sector > 0
  /\ (SlotSectors + 1) * Sector = SlotSectors * Sector + Sector
  /\ (SlotSectors + 2) * Sector = SlotSectors * Sector + 2 * Sector
  BY UpgradeConstants

(* The sectors of n bytes hold them.                                        *)
LEMMA SectorsHold ==
  ASSUME NEW n \in Nat PROVE O!SectorsOf(n) \in Nat /\ n <= O!SectorsOf(n) * Sector
  BY UpgradeConstants DEF O!SectorsOf

(* A cell of sector s is none before it, nor behind it.                     *)
LEMMA SectorOf ==
  ASSUME NEW c \in Nat, NEW s \in Nat
  PROVE  /\ c \div Sector \in Nat
         /\ c < (s + 1) * Sector => c < s * Sector \/ c \div Sector = s
         /\ c \div Sector = s => s * Sector <= c /\ c < (s + 1) * Sector
  BY UpgradeConstants

(* ota.c: an update begins.                                                 *)
LEMMA UpgradeBegins ==
  ASSUME O!Init PROVE UpgradeInv
<1> USE UpgradeConstants, SlotSizes
<1>1. UpgradeTypes
  <2>1. image \in Nat
    BY DEF O!Init
  <2>2. flash \in [Cells -> Content]
    BY <2>1 DEF O!Init, Cells, Content, O!Old, O!Kept
  <2>3. /\ retry_count \in 1..UPGRADE_RETRY_TIMES + 1 /\ retry_count <= UPGRADE_RETRY_TIMES
        /\ totallength \in 0..image + 1 /\ sumlength \in {0, image} /\ sent \in 0..image + 1
        /\ image \in Lengths /\ pc = "try"
    BY <2>1 DEF O!Init
  <2>4. /\ flash_erased \in BOOLEAN /\ giveup \in BOOLEAN /\ upgrade_flag \in BOOLEAN
        /\ armed \in BOOLEAN /\ clean \in BOOLEAN
        /\ flag \in {"idle", "start", "finish"} /\ result \in {"none", "ok", "failed"}
        /\ errors \in [now : BOOLEAN, all : Nat]
    BY DEF O!Init
  <2> QED
    BY <2>2, <2>3, <2>4 DEF UpgradeTypes, Waiting
<1>2. WriteState /\ Timer /\ Progress /\ Blank /\ Judged
  BY DEF O!Init, WriteState, Timer, Progress, Blank, Judged
<1>3. O!OthersKept
  BY DEF O!Init, O!OthersKept, O!KeptCells
<1>4. O!WrittenInOrder
  BY DEF O!Init, O!WrittenInOrder
<1> QED
  BY <1>1, <1>2, <1>3, <1>4 DEF UpgradeInv

(* The timer has told it to give up.                                        *)
LEMMA GiveUpKeeps ==
  ASSUME UpgradeInv, O!GiveUp PROVE UpgradeInv'
<1> USE UpgradeConstants
<1>1. UpgradeTypes /\ WriteState /\ Timer /\ Progress /\ Blank /\ Judged
  BY DEF UpgradeInv
<1>2. UpgradeTypes'
  <2>1. image \in Nat /\ image > 0
    BY <1>1 DEF UpgradeTypes
  <2>2. image' \in Lengths /\ flash' \in [Cells -> Content]'
    BY <1>1 DEF O!GiveUp, UpgradeTypes, Cells, Content, O!server
  <2>3. /\ pc' \in Waiting \cup {"crc", "done", "fault"}
        /\ retry_count' \in 1..UPGRADE_RETRY_TIMES + 1
        /\ pc' \in Waiting => retry_count' <= UPGRADE_RETRY_TIMES
    BY <1>1 DEF O!GiveUp, UpgradeTypes, Waiting
  <2>4. totallength' \in 0..image' + 1 /\ sumlength' \in {0, image'} /\ sent' \in 0..image' + 1
    BY <1>1, <2>1 DEF O!GiveUp, UpgradeTypes, O!server, O!lengths
  <2>5. /\ flash_erased' \in BOOLEAN /\ giveup' \in BOOLEAN /\ upgrade_flag' \in BOOLEAN
        /\ armed' \in BOOLEAN /\ clean' \in BOOLEAN
    BY <1>1 DEF O!GiveUp, UpgradeTypes, O!server, O!upgrade_crc_check
  <2>6. /\ flag' \in {"idle", "start", "finish"} /\ result' \in {"none", "ok", "failed"}
        /\ errors' \in [now : BOOLEAN, all : Nat]
    BY <1>1 DEF O!GiveUp, UpgradeTypes, O!server
  <2> QED
    BY <2>2, <2>3, <2>4, <2>5, <2>6 DEF UpgradeTypes
<1>3. WriteState'
  BY <1>1 DEF O!GiveUp, UpgradeTypes, WriteState, Content, O!Owns, O!server, O!lengths, O!NoUpgrade
<1>4. Timer'
  BY <1>1 DEF O!GiveUp, UpgradeTypes, Timer, Progress, Waiting, O!Owns, O!server, O!lengths
<1>5. Progress'
  BY <1>1 DEF O!GiveUp, UpgradeTypes, WriteState, Timer, Progress, O!NoUpgrade, Waiting, O!Owns, O!server, O!lengths
<1>6. Blank'
  BY <1>1 DEF O!GiveUp, UpgradeTypes, Blank, Progress, Timer, Cells, From, O!Owns, O!server, O!lengths
<1>7. Judged'
  BY <1>1 DEF O!GiveUp, UpgradeTypes, Judged, Timer, Progress, O!SlotHolds, O!Owns, O!server, O!lengths
<1>8. O!OthersKept'
  BY DEF O!GiveUp, UpgradeInv, O!OthersKept, O!KeptCells
<1>9. O!WrittenInOrder'
  BY <1>1 DEF UpgradeInv, O!GiveUp, UpgradeTypes, Progress, O!WrittenInOrder, O!SlotHolds, O!Owns, O!server, O!lengths
<1> QED
  BY <1>2, <1>3, <1>4, <1>5, <1>6, <1>7, <1>8, <1>9 DEF UpgradeInv

(* There is no connection, or the request cannot be sent.                   *)
LEMMA ConnectFailsKeeps ==
  ASSUME UpgradeInv, O!ConnectFails PROVE UpgradeInv'
<1> USE UpgradeConstants
<1>1. UpgradeTypes /\ WriteState /\ Timer /\ Progress /\ Blank /\ Judged
  BY DEF UpgradeInv
<1>2. UpgradeTypes'
  <2>1. image \in Nat /\ image > 0
    BY <1>1 DEF UpgradeTypes
  <2>2. image' \in Lengths /\ flash' \in [Cells -> Content]'
    BY <1>1 DEF O!ConnectFails, UpgradeTypes, Cells, Content, O!server
  <2>3. /\ pc' \in Waiting \cup {"crc", "done", "fault"}
        /\ retry_count' \in 1..UPGRADE_RETRY_TIMES + 1
        /\ pc' \in Waiting => retry_count' <= UPGRADE_RETRY_TIMES
    BY <1>1 DEF O!ConnectFails, UpgradeTypes, Waiting, O!Again
  <2>4. totallength' \in 0..image' + 1 /\ sumlength' \in {0, image'} /\ sent' \in 0..image' + 1
    BY <1>1, <2>1 DEF O!ConnectFails, UpgradeTypes, O!server, O!lengths, O!Again
  <2>5. /\ flash_erased' \in BOOLEAN /\ giveup' \in BOOLEAN /\ upgrade_flag' \in BOOLEAN
        /\ armed' \in BOOLEAN /\ clean' \in BOOLEAN
    BY <1>1 DEF O!ConnectFails, UpgradeTypes, O!server, O!upgrade_crc_check, O!Again
  <2>6. /\ flag' \in {"idle", "start", "finish"} /\ result' \in {"none", "ok", "failed"}
        /\ errors' \in [now : BOOLEAN, all : Nat]
    BY <1>1 DEF O!ConnectFails, UpgradeTypes, O!server, O!Again
  <2> QED
    BY <2>2, <2>3, <2>4, <2>5, <2>6 DEF UpgradeTypes
<1>3. WriteState'
  BY <1>1 DEF O!ConnectFails, UpgradeTypes, WriteState, Content, O!Owns, O!server, O!lengths, O!NoUpgrade, O!Again
<1>4. Timer'
  BY <1>1 DEF O!ConnectFails, UpgradeTypes, Timer, Progress, Waiting, O!Owns, O!server, O!lengths, O!Again
<1>5. Progress'
  BY <1>1 DEF O!ConnectFails, UpgradeTypes, WriteState, Timer, Progress, O!NoUpgrade, Waiting, O!Owns, O!server, O!lengths, O!Again
<1>6. Blank'
  BY <1>1 DEF O!ConnectFails, UpgradeTypes, Blank, Progress, Timer, Cells, From, O!Owns, O!server, O!lengths, O!Again
<1>7. Judged'
  BY <1>1 DEF O!ConnectFails, UpgradeTypes, Judged, Timer, Progress, O!SlotHolds, O!Owns, O!server, O!lengths, O!Again
<1>8. O!OthersKept'
  BY DEF O!ConnectFails, UpgradeInv, O!OthersKept, O!KeptCells
<1>9. O!WrittenInOrder'
  BY <1>1 DEF UpgradeInv, O!ConnectFails, UpgradeTypes, Progress, O!WrittenInOrder, O!SlotHolds, O!Owns, O!server, O!lengths, O!Again
<1> QED
  BY <1>2, <1>3, <1>4, <1>5, <1>6, <1>7, <1>8, <1>9 DEF UpgradeInv

(* It is connected, and the write state is reset.                           *)
LEMMA ConnectSucceedsKeeps ==
  ASSUME UpgradeInv, O!ConnectSucceeds PROVE UpgradeInv'
<1> USE UpgradeConstants
<1>1. UpgradeTypes /\ WriteState /\ Timer /\ Progress /\ Blank /\ Judged
  BY DEF UpgradeInv
<1>2. UpgradeTypes'
  <2>1. image \in Nat /\ image > 0
    BY <1>1 DEF UpgradeTypes
  <2>2. image' \in Lengths /\ flash' \in [Cells -> Content]'
    BY <1>1 DEF O!ConnectSucceeds, UpgradeTypes, Cells, Content, O!server
  <2>3. /\ pc' \in Waiting \cup {"crc", "done", "fault"}
        /\ retry_count' \in 1..UPGRADE_RETRY_TIMES + 1
        /\ pc' \in Waiting => retry_count' <= UPGRADE_RETRY_TIMES
    BY <1>1 DEF O!ConnectSucceeds, UpgradeTypes, Waiting, O!system_upgrade_init
  <2>4. totallength' \in 0..image' + 1 /\ sumlength' \in {0, image'} /\ sent' \in 0..image' + 1
    BY <1>1, <2>1 DEF O!ConnectSucceeds, UpgradeTypes, O!server, O!lengths, O!system_upgrade_init
  <2>5. /\ flash_erased' \in BOOLEAN /\ giveup' \in BOOLEAN /\ upgrade_flag' \in BOOLEAN
        /\ armed' \in BOOLEAN /\ clean' \in BOOLEAN
    BY <1>1 DEF O!ConnectSucceeds, UpgradeTypes, O!server, O!upgrade_crc_check, O!system_upgrade_init
  <2>6. /\ flag' \in {"idle", "start", "finish"} /\ result' \in {"none", "ok", "failed"}
        /\ errors' \in [now : BOOLEAN, all : Nat]
    BY <1>1 DEF O!ConnectSucceeds, UpgradeTypes, O!server, O!system_upgrade_init
  <2> QED
    BY <2>2, <2>3, <2>4, <2>5, <2>6 DEF UpgradeTypes
<1>3. WriteState'
  <2>1. SlotSectors * Sector \in Nat
    BY SlotSizes
  <2>2. << >> \in Seq(Content) /\ Len(<< >>) = 0
    BY EmptySeq
  <2>3. CASE upgrade = O!NoUpgrade
    BY <2>1, <2>2, <2>3 DEF O!ConnectSucceeds, O!system_upgrade_init, WriteState, Content, O!NoUpgrade
  <2>4. CASE upgrade # O!NoUpgrade
    BY <1>1, <2>1, <2>4 DEF O!ConnectSucceeds, O!system_upgrade_init, WriteState, Content, O!NoUpgrade
  <2> QED
    BY <2>3, <2>4
<1>4. Timer'
  BY <1>1 DEF O!ConnectSucceeds, UpgradeTypes, Timer, Progress, Waiting, O!Owns, O!server, O!lengths, O!system_upgrade_init
<1>5. Progress'
  BY <1>1 DEF O!ConnectSucceeds, UpgradeTypes, WriteState, Timer, Progress, O!NoUpgrade, Waiting, O!Owns, O!server, O!lengths, O!system_upgrade_init
<1>6. Blank'
  BY <1>1 DEF O!ConnectSucceeds, UpgradeTypes, Blank, Progress, Timer, Cells, From, O!Owns, O!server, O!lengths, O!system_upgrade_init
<1>7. Judged'
  BY <1>1 DEF O!ConnectSucceeds, UpgradeTypes, Judged, Timer, Progress, O!SlotHolds, O!Owns, O!server, O!lengths, O!system_upgrade_init
<1>8. O!OthersKept'
  BY DEF O!ConnectSucceeds, UpgradeInv, O!OthersKept, O!KeptCells
<1>9. O!WrittenInOrder'
  BY <1>1 DEF UpgradeInv, O!ConnectSucceeds, UpgradeTypes, Progress, O!WrittenInOrder, O!SlotHolds, O!Owns, O!server, O!lengths, O!system_upgrade_init
<1> QED
  BY <1>2, <1>3, <1>4, <1>5, <1>6, <1>7, <1>8, <1>9 DEF UpgradeInv

(* The request is on its way.                                               *)
LEMMA RequestSentKeeps ==
  ASSUME UpgradeInv, O!RequestSent PROVE UpgradeInv'
<1> USE UpgradeConstants
<1>1. UpgradeTypes /\ WriteState /\ Timer /\ Progress /\ Blank /\ Judged
  BY DEF UpgradeInv
<1>2. UpgradeTypes'
  <2>1. image \in Nat /\ image > 0
    BY <1>1 DEF UpgradeTypes
  <2>2. image' \in Lengths /\ flash' \in [Cells -> Content]'
    BY <1>1 DEF O!RequestSent, UpgradeTypes, Cells, Content, O!server
  <2>3. /\ pc' \in Waiting \cup {"crc", "done", "fault"}
        /\ retry_count' \in 1..UPGRADE_RETRY_TIMES + 1
        /\ pc' \in Waiting => retry_count' <= UPGRADE_RETRY_TIMES
    BY <1>1 DEF O!RequestSent, UpgradeTypes, Waiting
  <2>4. totallength' \in 0..image' + 1 /\ sumlength' \in {0, image'} /\ sent' \in 0..image' + 1
    BY <1>1, <2>1 DEF O!RequestSent, UpgradeTypes, O!server, O!lengths
  <2>5. /\ flash_erased' \in BOOLEAN /\ giveup' \in BOOLEAN /\ upgrade_flag' \in BOOLEAN
        /\ armed' \in BOOLEAN /\ clean' \in BOOLEAN
    BY <1>1 DEF O!RequestSent, UpgradeTypes, O!server, O!upgrade_crc_check
  <2>6. /\ flag' \in {"idle", "start", "finish"} /\ result' \in {"none", "ok", "failed"}
        /\ errors' \in [now : BOOLEAN, all : Nat]
    BY <1>1 DEF O!RequestSent, UpgradeTypes, O!server
  <2> QED
    BY <2>2, <2>3, <2>4, <2>5, <2>6 DEF UpgradeTypes
<1>3. WriteState'
  BY <1>1 DEF O!RequestSent, UpgradeTypes, WriteState, Content, O!Owns, O!server, O!lengths, O!NoUpgrade
<1>4. Timer'
  BY <1>1 DEF O!RequestSent, UpgradeTypes, Timer, Progress, Waiting, O!Owns, O!server, O!lengths
<1>5. Progress'
  BY <1>1 DEF O!RequestSent, UpgradeTypes, WriteState, Timer, Progress, O!NoUpgrade, Waiting, O!Owns, O!server, O!lengths
<1>6. Blank'
  BY <1>1 DEF O!RequestSent, UpgradeTypes, Blank, Progress, Timer, Cells, From, O!Owns, O!server, O!lengths
<1>7. Judged'
  BY <1>1 DEF O!RequestSent, UpgradeTypes, Judged, Timer, Progress, O!SlotHolds, O!Owns, O!server, O!lengths
<1>8. O!OthersKept'
  BY DEF O!RequestSent, UpgradeInv, O!OthersKept, O!KeptCells
<1>9. O!WrittenInOrder'
  <2>1. pc' = "read" /\ UNCHANGED <<upgrade, flash, image, totallength, result>>
    BY DEF O!RequestSent, O!server, O!lengths
  <2>2. upgrade.addr = 0 /\ totallength = 0 /\ image \in Nat
    BY <1>1 DEF O!RequestSent, Progress, UpgradeTypes
  <2>3. clean' => upgrade.save = << >>
    BY DEF O!RequestSent
  <2>4. Len(<< >>) = 0
    BY EmptySeq
  <2> QED
    BY <2>1, <2>2, <2>3, <2>4 DEF O!WrittenInOrder, O!SlotHolds
<1> QED
  BY <1>2, <1>3, <1>4, <1>5, <1>6, <1>7, <1>8, <1>9 DEF UpgradeInv

(* The server has closed, or the network is gone.                           *)
LEMMA ReadFailsKeeps ==
  ASSUME UpgradeInv, O!ReadFails PROVE UpgradeInv'
<1> USE UpgradeConstants
<1>1. UpgradeTypes /\ WriteState /\ Timer /\ Progress /\ Blank /\ Judged
  BY DEF UpgradeInv
<1>2. UpgradeTypes'
  <2>1. image \in Nat /\ image > 0
    BY <1>1 DEF UpgradeTypes
  <2>2. image' \in Lengths /\ flash' \in [Cells -> Content]'
    BY <1>1 DEF O!ReadFails, UpgradeTypes, Cells, Content, O!server
  <2>3. /\ pc' \in Waiting \cup {"crc", "done", "fault"}
        /\ retry_count' \in 1..UPGRADE_RETRY_TIMES + 1
        /\ pc' \in Waiting => retry_count' <= UPGRADE_RETRY_TIMES
    BY <1>1 DEF O!ReadFails, UpgradeTypes, Waiting, O!Again
  <2>4. totallength' \in 0..image' + 1 /\ sumlength' \in {0, image'} /\ sent' \in 0..image' + 1
    BY <1>1, <2>1 DEF O!ReadFails, UpgradeTypes, O!server, O!lengths, O!Again
  <2>5. /\ flash_erased' \in BOOLEAN /\ giveup' \in BOOLEAN /\ upgrade_flag' \in BOOLEAN
        /\ armed' \in BOOLEAN /\ clean' \in BOOLEAN
    BY <1>1 DEF O!ReadFails, UpgradeTypes, O!server, O!upgrade_crc_check, O!Again
  <2>6. /\ flag' \in {"idle", "start", "finish"} /\ result' \in {"none", "ok", "failed"}
        /\ errors' \in [now : BOOLEAN, all : Nat]
    BY <1>1 DEF O!ReadFails, UpgradeTypes, O!server, O!Again
  <2> QED
    BY <2>2, <2>3, <2>4, <2>5, <2>6 DEF UpgradeTypes
<1>3. WriteState'
  BY <1>1 DEF O!ReadFails, UpgradeTypes, WriteState, Content, O!Owns, O!server, O!lengths, O!NoUpgrade, O!Again
<1>4. Timer'
  BY <1>1 DEF O!ReadFails, UpgradeTypes, Timer, Progress, Waiting, O!Owns, O!server, O!lengths, O!Again
<1>5. Progress'
  BY <1>1 DEF O!ReadFails, UpgradeTypes, WriteState, Timer, Progress, O!NoUpgrade, Waiting, O!Owns, O!server, O!lengths, O!Again
<1>6. Blank'
  BY <1>1 DEF O!ReadFails, UpgradeTypes, Blank, Progress, Timer, Cells, From, O!Owns, O!server, O!lengths, O!Again
<1>7. Judged'
  BY <1>1 DEF O!ReadFails, UpgradeTypes, Judged, Timer, Progress, O!SlotHolds, O!Owns, O!server, O!lengths, O!Again
<1>8. O!OthersKept'
  BY DEF O!ReadFails, UpgradeInv, O!OthersKept, O!KeptCells
<1>9. O!WrittenInOrder'
  BY <1>1 DEF UpgradeInv, O!ReadFails, UpgradeTypes, Progress, O!WrittenInOrder, O!SlotHolds, O!Owns, O!server, O!lengths, O!Again
<1> QED
  BY <1>2, <1>3, <1>4, <1>5, <1>6, <1>7, <1>8, <1>9 DEF UpgradeInv

(* A first block without a header.                                          *)
LEMMA NoHeaderKeeps ==
  ASSUME UpgradeInv, O!NoHeader PROVE UpgradeInv'
<1> USE UpgradeConstants
<1>1. UpgradeTypes /\ WriteState /\ Timer /\ Progress /\ Blank /\ Judged
  BY DEF UpgradeInv
<1>2. UpgradeTypes'
  <2>1. image \in Nat /\ image > 0
    BY <1>1 DEF UpgradeTypes
  <2>2. image' \in Lengths /\ flash' \in [Cells -> Content]'
    BY <1>1 DEF O!NoHeader, UpgradeTypes, Cells, Content, O!server
  <2>3. /\ pc' \in Waiting \cup {"crc", "done", "fault"}
        /\ retry_count' \in 1..UPGRADE_RETRY_TIMES + 1
        /\ pc' \in Waiting => retry_count' <= UPGRADE_RETRY_TIMES
    BY <1>1 DEF O!NoHeader, UpgradeTypes, Waiting, O!Again
  <2>4. totallength' \in 0..image' + 1 /\ sumlength' \in {0, image'} /\ sent' \in 0..image' + 1
    BY <1>1, <2>1 DEF O!NoHeader, UpgradeTypes, O!server, O!lengths, O!Again
  <2>5. /\ flash_erased' \in BOOLEAN /\ giveup' \in BOOLEAN /\ upgrade_flag' \in BOOLEAN
        /\ armed' \in BOOLEAN /\ clean' \in BOOLEAN
    BY <1>1 DEF O!NoHeader, UpgradeTypes, O!server, O!upgrade_crc_check, O!Again
  <2>6. /\ flag' \in {"idle", "start", "finish"} /\ result' \in {"none", "ok", "failed"}
        /\ errors' \in [now : BOOLEAN, all : Nat]
    BY <1>1 DEF O!NoHeader, UpgradeTypes, O!server, O!Again
  <2> QED
    BY <2>2, <2>3, <2>4, <2>5, <2>6 DEF UpgradeTypes
<1>3. WriteState'
  BY <1>1 DEF O!NoHeader, UpgradeTypes, WriteState, Content, O!Owns, O!server, O!lengths, O!NoUpgrade, O!Again
<1>4. Timer'
  BY <1>1 DEF O!NoHeader, UpgradeTypes, Timer, Progress, Waiting, O!Owns, O!server, O!lengths, O!Again
<1>5. Progress'
  BY <1>1 DEF O!NoHeader, UpgradeTypes, WriteState, Timer, Progress, O!NoUpgrade, Waiting, O!Owns, O!server, O!lengths, O!Again
<1>6. Blank'
  BY <1>1 DEF O!NoHeader, UpgradeTypes, Blank, Progress, Timer, Cells, From, O!Owns, O!server, O!lengths, O!Again
<1>7. Judged'
  BY <1>1 DEF O!NoHeader, UpgradeTypes, Judged, Timer, Progress, O!SlotHolds, O!Owns, O!server, O!lengths, O!Again
<1>8. O!OthersKept'
  BY DEF O!NoHeader, UpgradeInv, O!OthersKept, O!KeptCells
<1>9. O!WrittenInOrder'
  BY <1>1 DEF UpgradeInv, O!NoHeader, UpgradeTypes, Progress, O!WrittenInOrder, O!SlotHolds, O!Owns, O!server, O!lengths, O!Again
<1> QED
  BY <1>2, <1>3, <1>4, <1>5, <1>6, <1>7, <1>8, <1>9 DEF UpgradeInv

(* The length is in the header, and sectors are to be erased.               *)
LEMMA LearnLengthKeeps ==
  ASSUME UpgradeInv, O!LearnLength PROVE UpgradeInv'
<1> USE UpgradeConstants
<1>1. UpgradeTypes /\ WriteState /\ Timer /\ Progress /\ Blank /\ Judged
  BY DEF UpgradeInv
<1>2. UpgradeTypes'
  <2>1. image \in Nat /\ image > 0
    BY <1>1 DEF UpgradeTypes
  <2>2. image' \in Lengths /\ flash' \in [Cells -> Content]'
    BY <1>1 DEF O!LearnLength, UpgradeTypes, Cells, Content, O!server
  <2>3. /\ pc' \in Waiting \cup {"crc", "done", "fault"}
        /\ retry_count' \in 1..UPGRADE_RETRY_TIMES + 1
        /\ pc' \in Waiting => retry_count' <= UPGRADE_RETRY_TIMES
    BY <1>1 DEF O!LearnLength, UpgradeTypes, Waiting
  <2>4. totallength' \in 0..image' + 1 /\ sumlength' \in {0, image'} /\ sent' \in 0..image' + 1
    BY <1>1, <2>1 DEF O!LearnLength, UpgradeTypes, O!server, O!lengths
  <2>5. /\ flash_erased' \in BOOLEAN /\ giveup' \in BOOLEAN /\ upgrade_flag' \in BOOLEAN
        /\ armed' \in BOOLEAN /\ clean' \in BOOLEAN
    BY <1>1 DEF O!LearnLength, UpgradeTypes, O!server, O!upgrade_crc_check
  <2>6. /\ flag' \in {"idle", "start", "finish"} /\ result' \in {"none", "ok", "failed"}
        /\ errors' \in [now : BOOLEAN, all : Nat]
    BY <1>1 DEF O!LearnLength, UpgradeTypes, O!server
  <2> QED
    BY <2>2, <2>3, <2>4, <2>5, <2>6 DEF UpgradeTypes
<1>3. WriteState'
  BY <1>1 DEF O!LearnLength, UpgradeTypes, WriteState, Content, O!Owns, O!server, O!lengths, O!NoUpgrade
<1>4. Timer'
  BY <1>1 DEF O!LearnLength, UpgradeTypes, Timer, Progress, Waiting, O!Owns, O!server, O!lengths
<1>5. Progress'
  BY <1>1 DEF O!LearnLength, UpgradeTypes, WriteState, Timer, Progress, O!NoUpgrade, Waiting, O!Owns, O!server, O!lengths
<1>6. Blank'
  BY <1>1 DEF O!LearnLength, UpgradeTypes, Blank, Progress, Timer, Cells, From, O!Owns, O!server, O!lengths
<1>7. Judged'
  BY <1>1 DEF O!LearnLength, UpgradeTypes, Judged, Timer, Progress, O!SlotHolds, O!Owns, O!server, O!lengths
<1>8. O!OthersKept'
  BY DEF O!LearnLength, UpgradeInv, O!OthersKept, O!KeptCells
<1>9. O!WrittenInOrder'
  BY <1>1 DEF UpgradeInv, O!LearnLength, UpgradeTypes, Progress, O!WrittenInOrder, O!SlotHolds, O!Owns, O!server, O!lengths
<1> QED
  BY <1>2, <1>3, <1>4, <1>5, <1>6, <1>7, <1>8, <1>9 DEF UpgradeInv

(* The sectors are erased.                                                  *)
LEMMA EraseEndsKeeps ==
  ASSUME UpgradeInv, O!EraseEnds PROVE UpgradeInv'
<1> USE UpgradeConstants
<1>1. UpgradeTypes /\ WriteState /\ Timer /\ Progress /\ Blank /\ Judged
  BY DEF UpgradeInv
<1>2. UpgradeTypes'
  <2>1. image \in Nat /\ image > 0
    BY <1>1 DEF UpgradeTypes
  <2>2. image' \in Lengths /\ flash' \in [Cells -> Content]'
    BY <1>1 DEF O!EraseEnds, UpgradeTypes, Cells, Content, O!server
  <2>3. /\ pc' \in Waiting \cup {"crc", "done", "fault"}
        /\ retry_count' \in 1..UPGRADE_RETRY_TIMES + 1
        /\ pc' \in Waiting => retry_count' <= UPGRADE_RETRY_TIMES
    BY <1>1 DEF O!EraseEnds, UpgradeTypes, Waiting, O!Again
  <2>4. totallength' \in 0..image' + 1 /\ sumlength' \in {0, image'} /\ sent' \in 0..image' + 1
    BY <1>1, <2>1 DEF O!EraseEnds, UpgradeTypes, O!server, O!lengths, O!Again
  <2>5. /\ flash_erased' \in BOOLEAN /\ giveup' \in BOOLEAN /\ upgrade_flag' \in BOOLEAN
        /\ armed' \in BOOLEAN /\ clean' \in BOOLEAN
    BY <1>1 DEF O!EraseEnds, UpgradeTypes, O!server, O!upgrade_crc_check, O!Again
  <2>6. /\ flag' \in {"idle", "start", "finish"} /\ result' \in {"none", "ok", "failed"}
        /\ errors' \in [now : BOOLEAN, all : Nat]
    BY <1>1 DEF O!EraseEnds, UpgradeTypes, O!server, O!Again
  <2> QED
    BY <2>2, <2>3, <2>4, <2>5, <2>6 DEF UpgradeTypes
<1>3. WriteState'
  BY <1>1 DEF O!EraseEnds, UpgradeTypes, WriteState, Content, O!Owns, O!server, O!lengths, O!NoUpgrade, O!Again
<1>4. Timer'
  BY <1>1 DEF O!EraseEnds, UpgradeTypes, Timer, Progress, Waiting, O!Owns, O!server, O!lengths, O!Again
<1>5. Progress'
  BY <1>1 DEF O!EraseEnds, UpgradeTypes, WriteState, Timer, Progress, O!NoUpgrade, Waiting, O!Owns, O!server, O!lengths, O!Again
<1>6. Blank'
  <2> SUFFICES ASSUME O!Owns, pc' = "try", NEW c \in Cells, c < SlotSectors * Sector, c < image
               PROVE  flash[c] = O!Erased
    BY <1>1 DEF O!EraseEnds, UpgradeTypes, Blank, Cells, From, O!Owns, O!server, O!Again
  <2>1. c \in Nat /\ image \in Nat
    BY <1>1 DEF Cells, UpgradeTypes
  <2>2. upgrade.earse \in Nat /\ pc = "erase" /\ sumlength = image
    BY <1>1 DEF O!EraseEnds, WriteState, Progress
  <2>3. CASE upgrade.earse = O!SectorsOf(image)
    BY <1>1, <2>1, <2>2, <2>3, SectorsHold DEF Blank
  <2>4. CASE upgrade.earse > SlotSectors
    <3>1. PICK n \in Nat : n = upgrade.earse
      BY <2>2
    <3>2. c < n * Sector
      BY <2>1, <2>4, <3>1
    <3> QED
      BY <1>1, <2>2, <3>1, <3>2 DEF Blank
  <2> QED
    BY <2>2, <2>3, <2>4 DEF O!EraseEnds, O!out_of_range
<1>7. Judged'
  BY <1>1 DEF O!EraseEnds, UpgradeTypes, Judged, Timer, Progress, O!SlotHolds, O!Owns, O!server, O!lengths, O!Again
<1>8. O!OthersKept'
  BY DEF O!EraseEnds, UpgradeInv, O!OthersKept, O!KeptCells
<1>9. O!WrittenInOrder'
  BY <1>1 DEF UpgradeInv, O!EraseEnds, UpgradeTypes, Progress, O!WrittenInOrder, O!SlotHolds, O!Owns, O!server, O!lengths, O!Again
<1> QED
  BY <1>2, <1>3, <1>4, <1>5, <1>6, <1>7, <1>8, <1>9 DEF UpgradeInv

(* There is more to come.                                                   *)
LEMMA DownloadGoesOnKeeps ==
  ASSUME UpgradeInv, O!DownloadGoesOn PROVE UpgradeInv'
<1> USE UpgradeConstants
<1>1. UpgradeTypes /\ WriteState /\ Timer /\ Progress /\ Blank /\ Judged
  BY DEF UpgradeInv
<1>2. UpgradeTypes'
  <2>1. image \in Nat /\ image > 0
    BY <1>1 DEF UpgradeTypes
  <2>2. image' \in Lengths /\ flash' \in [Cells -> Content]'
    BY <1>1 DEF O!DownloadGoesOn, UpgradeTypes, Cells, Content, O!server
  <2>3. /\ pc' \in Waiting \cup {"crc", "done", "fault"}
        /\ retry_count' \in 1..UPGRADE_RETRY_TIMES + 1
        /\ pc' \in Waiting => retry_count' <= UPGRADE_RETRY_TIMES
    BY <1>1 DEF O!DownloadGoesOn, UpgradeTypes, Waiting
  <2>4. totallength' \in 0..image' + 1 /\ sumlength' \in {0, image'} /\ sent' \in 0..image' + 1
    BY <1>1, <2>1 DEF O!DownloadGoesOn, UpgradeTypes, O!server, O!lengths
  <2>5. /\ flash_erased' \in BOOLEAN /\ giveup' \in BOOLEAN /\ upgrade_flag' \in BOOLEAN
        /\ armed' \in BOOLEAN /\ clean' \in BOOLEAN
    BY <1>1 DEF O!DownloadGoesOn, UpgradeTypes, O!server, O!upgrade_crc_check
  <2>6. /\ flag' \in {"idle", "start", "finish"} /\ result' \in {"none", "ok", "failed"}
        /\ errors' \in [now : BOOLEAN, all : Nat]
    BY <1>1 DEF O!DownloadGoesOn, UpgradeTypes, O!server
  <2> QED
    BY <2>2, <2>3, <2>4, <2>5, <2>6 DEF UpgradeTypes
<1>3. WriteState'
  BY <1>1 DEF O!DownloadGoesOn, UpgradeTypes, WriteState, Content, O!Owns, O!server, O!lengths, O!NoUpgrade
<1>4. Timer'
  BY <1>1 DEF O!DownloadGoesOn, UpgradeTypes, Timer, Progress, Waiting, O!Owns, O!server, O!lengths
<1>5. Progress'
  BY <1>1 DEF O!DownloadGoesOn, UpgradeTypes, WriteState, Timer, Progress, O!NoUpgrade, Waiting, O!Owns, O!server, O!lengths
<1>6. Blank'
  BY <1>1 DEF O!DownloadGoesOn, UpgradeTypes, Blank, Progress, Timer, Cells, From, O!Owns, O!server, O!lengths
<1>7. Judged'
  BY <1>1 DEF O!DownloadGoesOn, UpgradeTypes, Judged, Timer, Progress, O!SlotHolds, O!Owns, O!server, O!lengths
<1>8. O!OthersKept'
  BY DEF O!DownloadGoesOn, UpgradeInv, O!OthersKept, O!KeptCells
<1>9. O!WrittenInOrder'
  BY <1>1 DEF UpgradeInv, O!DownloadGoesOn, UpgradeTypes, Progress, O!WrittenInOrder, O!SlotHolds, O!Owns, O!server, O!lengths
<1> QED
  BY <1>2, <1>3, <1>4, <1>5, <1>6, <1>7, <1>8, <1>9 DEF UpgradeInv

(* Everything has come.                                                     *)
LEMMA DownloadEndsKeeps ==
  ASSUME UpgradeInv, O!DownloadEnds PROVE UpgradeInv'
<1> USE UpgradeConstants
<1>1. UpgradeTypes /\ WriteState /\ Timer /\ Progress /\ Blank /\ Judged
  BY DEF UpgradeInv
<1>2. UpgradeTypes'
  <2>1. image \in Nat /\ image > 0
    BY <1>1 DEF UpgradeTypes
  <2>2. image' \in Lengths /\ flash' \in [Cells -> Content]'
    BY <1>1 DEF O!DownloadEnds, UpgradeTypes, Cells, Content, O!server
  <2>3. /\ pc' \in Waiting \cup {"crc", "done", "fault"}
        /\ retry_count' \in 1..UPGRADE_RETRY_TIMES + 1
        /\ pc' \in Waiting => retry_count' <= UPGRADE_RETRY_TIMES
    BY <1>1 DEF O!DownloadEnds, UpgradeTypes, Waiting
  <2>4. totallength' \in 0..image' + 1 /\ sumlength' \in {0, image'} /\ sent' \in 0..image' + 1
    BY <1>1, <2>1 DEF O!DownloadEnds, UpgradeTypes, O!server, O!lengths
  <2>5. /\ flash_erased' \in BOOLEAN /\ giveup' \in BOOLEAN /\ upgrade_flag' \in BOOLEAN
        /\ armed' \in BOOLEAN /\ clean' \in BOOLEAN
    BY <1>1 DEF O!DownloadEnds, UpgradeTypes, O!server, O!upgrade_crc_check
  <2>6. /\ flag' \in {"idle", "start", "finish"} /\ result' \in {"none", "ok", "failed"}
        /\ errors' \in [now : BOOLEAN, all : Nat]
    BY <1>1 DEF O!DownloadEnds, UpgradeTypes, O!server
  <2> QED
    BY <2>2, <2>3, <2>4, <2>5, <2>6 DEF UpgradeTypes
<1>3. WriteState'
  BY <1>1 DEF O!DownloadEnds, UpgradeTypes, WriteState, Content, O!Owns, O!server, O!lengths, O!NoUpgrade
<1>4. Timer'
  BY <1>1 DEF O!DownloadEnds, UpgradeTypes, Timer, Progress, Waiting, O!Owns, O!server, O!lengths
<1>5. Progress'
  BY <1>1 DEF O!DownloadEnds, UpgradeTypes, WriteState, Timer, Progress, O!NoUpgrade, Waiting, O!Owns, O!server, O!lengths
<1>6. Blank'
  BY <1>1 DEF O!DownloadEnds, UpgradeTypes, Blank, Progress, Timer, Cells, From, O!Owns, O!server, O!lengths
<1>7. Judged'
  BY <1>1 DEF O!DownloadEnds, UpgradeTypes, Judged, Timer, Progress, O!SlotHolds, O!Owns, O!server, O!lengths
<1>8. O!OthersKept'
  BY DEF O!DownloadEnds, UpgradeInv, O!OthersKept, O!KeptCells
<1>9. O!WrittenInOrder'
  BY <1>1 DEF UpgradeInv, O!DownloadEnds, UpgradeTypes, Progress, O!WrittenInOrder, O!SlotHolds, O!Owns, O!server, O!lengths
<1> QED
  BY <1>2, <1>3, <1>4, <1>5, <1>6, <1>7, <1>8, <1>9 DEF UpgradeInv

(* The image is judged, and whoever asked is told.                          *)
LEMMA FinishKeeps ==
  ASSUME UpgradeInv, O!Finish PROVE UpgradeInv'
<1> USE UpgradeConstants
<1>1. UpgradeTypes /\ WriteState /\ Timer /\ Progress /\ Blank /\ Judged
  BY DEF UpgradeInv
<1>2. UpgradeTypes'
  <2>1. image \in Nat /\ image > 0
    BY <1>1 DEF UpgradeTypes
  <2>2. image' \in Lengths /\ flash' \in [Cells -> Content]'
    BY <1>1 DEF O!Finish, UpgradeTypes, Cells, Content, O!server
  <2>3. /\ pc' \in Waiting \cup {"crc", "done", "fault"}
        /\ retry_count' \in 1..UPGRADE_RETRY_TIMES + 1
        /\ pc' \in Waiting => retry_count' <= UPGRADE_RETRY_TIMES
    BY <1>1 DEF O!Finish, UpgradeTypes, Waiting
  <2>4. totallength' \in 0..image' + 1 /\ sumlength' \in {0, image'} /\ sent' \in 0..image' + 1
    BY <1>1, <2>1 DEF O!Finish, UpgradeTypes, O!server, O!lengths
  <2>5. /\ flash_erased' \in BOOLEAN /\ giveup' \in BOOLEAN /\ upgrade_flag' \in BOOLEAN
        /\ armed' \in BOOLEAN /\ clean' \in BOOLEAN
    BY <1>1 DEF O!Finish, UpgradeTypes, O!server, O!upgrade_crc_check
  <2>6. /\ flag' \in {"idle", "start", "finish"} /\ result' \in {"none", "ok", "failed"}
        /\ errors' \in [now : BOOLEAN, all : Nat]
    BY <1>1 DEF O!Finish, UpgradeTypes, O!server
  <2> QED
    BY <2>2, <2>3, <2>4, <2>5, <2>6 DEF UpgradeTypes
<1>3. WriteState'
  BY <1>1 DEF O!Finish, UpgradeTypes, WriteState, Content, O!Owns, O!server, O!lengths, O!NoUpgrade
<1>4. Timer'
  BY <1>1 DEF O!Finish, UpgradeTypes, Timer, Progress, Waiting, O!Owns, O!server, O!lengths
<1>5. Progress'
  BY <1>1 DEF O!Finish, UpgradeTypes, WriteState, Timer, Progress, O!NoUpgrade, Waiting, O!Owns, O!server, O!lengths
<1>6. Blank'
  BY <1>1 DEF O!Finish, UpgradeTypes, Blank, Progress, Timer, Cells, From, O!Owns, O!server, O!lengths
<1>7. Judged'
  <2>1. pc' = "done" /\ flash' = flash /\ image' = image
    BY DEF O!Finish
  <2>2. flag' = "finish" \/ result' = "ok" => sumlength >= Word /\ O!SlotHolds(sumlength)
    BY DEF O!Finish, O!upgrade_crc_check
  <2>3. sumlength >= Word => sumlength = image
    BY <1>1 DEF UpgradeTypes
  <2> QED
    BY <2>1, <2>2, <2>3 DEF Judged, O!SlotHolds
<1>8. O!OthersKept'
  BY DEF O!Finish, UpgradeInv, O!OthersKept, O!KeptCells
<1>9. O!WrittenInOrder'
  BY <1>1 DEF UpgradeInv, O!Finish, UpgradeTypes, Progress, O!WrittenInOrder, O!SlotHolds, O!Owns, O!server, O!lengths
<1> QED
  BY <1>2, <1>3, <1>4, <1>5, <1>6, <1>7, <1>8, <1>9 DEF UpgradeInv

(* What the task uses is gone.                                              *)
LEMMA FaultKeeps ==
  ASSUME UpgradeInv, O!Fault PROVE UpgradeInv'
<1> USE UpgradeConstants
<1>1. UpgradeTypes /\ WriteState /\ Timer /\ Progress /\ Blank /\ Judged
  BY DEF UpgradeInv
<1>2. UpgradeTypes'
  <2>1. image \in Nat /\ image > 0
    BY <1>1 DEF UpgradeTypes
  <2>2. image' \in Lengths /\ flash' \in [Cells -> Content]'
    BY <1>1 DEF O!Fault, UpgradeTypes, Cells, Content, O!server
  <2>3. /\ pc' \in Waiting \cup {"crc", "done", "fault"}
        /\ retry_count' \in 1..UPGRADE_RETRY_TIMES + 1
        /\ pc' \in Waiting => retry_count' <= UPGRADE_RETRY_TIMES
    BY <1>1 DEF O!Fault, UpgradeTypes, Waiting
  <2>4. totallength' \in 0..image' + 1 /\ sumlength' \in {0, image'} /\ sent' \in 0..image' + 1
    BY <1>1, <2>1 DEF O!Fault, UpgradeTypes, O!server, O!lengths
  <2>5. /\ flash_erased' \in BOOLEAN /\ giveup' \in BOOLEAN /\ upgrade_flag' \in BOOLEAN
        /\ armed' \in BOOLEAN /\ clean' \in BOOLEAN
    BY <1>1 DEF O!Fault, UpgradeTypes, O!server, O!upgrade_crc_check
  <2>6. /\ flag' \in {"idle", "start", "finish"} /\ result' \in {"none", "ok", "failed"}
        /\ errors' \in [now : BOOLEAN, all : Nat]
    BY <1>1 DEF O!Fault, UpgradeTypes, O!server
  <2> QED
    BY <2>2, <2>3, <2>4, <2>5, <2>6 DEF UpgradeTypes
<1>3. WriteState'
  BY <1>1 DEF O!Fault, UpgradeTypes, WriteState, Content, O!Owns, O!server, O!lengths, O!NoUpgrade
<1>4. Timer'
  BY <1>1 DEF O!Fault, UpgradeTypes, Timer, Progress, Waiting, O!Owns, O!server, O!lengths
<1>5. Progress'
  BY <1>1 DEF O!Fault, UpgradeTypes, WriteState, Timer, Progress, O!NoUpgrade, Waiting, O!Owns, O!server, O!lengths
<1>6. Blank'
  BY <1>1 DEF O!Fault, UpgradeTypes, Blank, Progress, Timer, Cells, From, O!Owns, O!server, O!lengths
<1>7. Judged'
  BY <1>1 DEF O!Fault, UpgradeTypes, Judged, Timer, Progress, O!SlotHolds, O!Owns, O!server, O!lengths
<1>8. O!OthersKept'
  BY DEF O!Fault, UpgradeInv, O!OthersKept, O!KeptCells
<1>9. O!WrittenInOrder'
  BY <1>1 DEF UpgradeInv, O!Fault, UpgradeTypes, Progress, O!WrittenInOrder, O!SlotHolds, O!Owns, O!server, O!lengths
<1> QED
  BY <1>2, <1>3, <1>4, <1>5, <1>6, <1>7, <1>8, <1>9 DEF UpgradeInv

(* The time is over.                                                        *)
LEMMA upgrade_checkKeeps ==
  ASSUME UpgradeInv, O!upgrade_check PROVE UpgradeInv'
<1> USE UpgradeConstants
<1>1. UpgradeTypes /\ WriteState /\ Timer /\ Progress /\ Blank /\ Judged
  BY DEF UpgradeInv
<1>2. UpgradeTypes'
  <2>1. image \in Nat /\ image > 0
    BY <1>1 DEF UpgradeTypes
  <2>2. image' \in Lengths /\ flash' \in [Cells -> Content]'
    BY <1>1 DEF O!upgrade_check, UpgradeTypes, Cells, Content, O!server
  <2>3. /\ pc' \in Waiting \cup {"crc", "done", "fault"}
        /\ retry_count' \in 1..UPGRADE_RETRY_TIMES + 1
        /\ pc' \in Waiting => retry_count' <= UPGRADE_RETRY_TIMES
    BY <1>1 DEF O!upgrade_check, UpgradeTypes, Waiting
  <2>4. totallength' \in 0..image' + 1 /\ sumlength' \in {0, image'} /\ sent' \in 0..image' + 1
    BY <1>1, <2>1 DEF O!upgrade_check, UpgradeTypes, O!server, O!lengths
  <2>5. /\ flash_erased' \in BOOLEAN /\ giveup' \in BOOLEAN /\ upgrade_flag' \in BOOLEAN
        /\ armed' \in BOOLEAN /\ clean' \in BOOLEAN
    BY <1>1 DEF O!upgrade_check, UpgradeTypes, O!server, O!upgrade_crc_check
  <2>6. /\ flag' \in {"idle", "start", "finish"} /\ result' \in {"none", "ok", "failed"}
        /\ errors' \in [now : BOOLEAN, all : Nat]
    BY <1>1 DEF O!upgrade_check, UpgradeTypes, O!server
  <2> QED
    BY <2>2, <2>3, <2>4, <2>5, <2>6 DEF UpgradeTypes
<1>3. WriteState'
  BY <1>1 DEF O!upgrade_check, UpgradeTypes, WriteState, Content, O!Owns, O!server, O!lengths, O!NoUpgrade
<1>4. Timer'
  BY <1>1 DEF O!upgrade_check, UpgradeTypes, Timer, Progress, Waiting, O!Owns, O!server, O!lengths
<1>5. Progress'
  BY <1>1 DEF O!upgrade_check, UpgradeTypes, WriteState, Timer, Progress, O!NoUpgrade, Waiting, O!Owns, O!server, O!lengths
<1>6. Blank'
  BY <1>1 DEF O!upgrade_check, UpgradeTypes, Blank, Progress, Timer, Cells, From, O!Owns, O!server, O!lengths
<1>7. Judged'
  BY <1>1 DEF O!upgrade_check, UpgradeTypes, Judged, Timer, Progress, O!SlotHolds, O!Owns, O!server, O!lengths
<1>8. O!OthersKept'
  BY DEF O!upgrade_check, UpgradeInv, O!OthersKept, O!KeptCells
<1>9. O!WrittenInOrder'
  BY <1>1 DEF UpgradeInv, O!upgrade_check, UpgradeTypes, Progress, O!WrittenInOrder, O!SlotHolds, O!Owns, O!server, O!lengths
<1> QED
  BY <1>2, <1>3, <1>4, <1>5, <1>6, <1>7, <1>8, <1>9 DEF UpgradeInv

(* A sector is erased: one of the slot, or the one of grace behind it.      *)
LEMMA EraseSectorKeeps ==
  ASSUME UpgradeInv, O!EraseSector PROVE UpgradeInv'
<1> USE UpgradeConstants, SlotSizes
<1>1. UpgradeTypes /\ WriteState /\ Timer /\ Progress /\ Blank /\ Judged
  BY DEF UpgradeInv
<1>2. /\ pc = "erase" /\ O!Owns /\ upgrade # O!NoUpgrade
      /\ UNCHANGED <<image, pc, retry_count, totallength, sumlength, flash_erased, giveup, flag, upgrade_flag,
                     armed, sent, result, clean, errors>>
  BY <1>1 DEF O!EraseSector, O!server, O!lengths, Progress
<1>3. PICK n \in Nat : n = upgrade.earse
  BY <1>1, <1>2 DEF WriteState
<1>4. n <= SlotSectors
  BY <1>3 DEF O!EraseSector, O!out_of_range
<1>5. flash' = [c \in Cells |-> IF c \div Sector = n THEN O!Erased ELSE flash[c]]
  BY <1>1, <1>3 DEF O!EraseSector, UpgradeTypes
<1>6. upgrade' = [upgrade EXCEPT !.earse = n + 1]
  BY <1>3 DEF O!EraseSector
<1>7. WriteState'
  <2>1. /\ upgrade \in [addr : 0..SlotSectors * Sector, save : Seq(Content), earse : 0..SlotSectors + 1]
        /\ Len(upgrade.save) < Word
    BY <1>1, <1>2 DEF WriteState
  <2>2. n + 1 \in 0..SlotSectors + 1 /\ Content' = Content
    BY <1>2, <1>4 DEF Content
  <2>3. /\ upgrade' \in [addr : 0..SlotSectors * Sector, save : Seq(Content), earse : 0..SlotSectors + 1]
        /\ upgrade'.save = upgrade.save
    BY <1>6, <2>1, <2>2
  <2> QED
    BY <2>1, <2>2, <2>3 DEF WriteState
<1>8. upgrade'.earse = n + 1 /\ upgrade' # O!NoUpgrade
  BY <1>1, <1>2, <1>3, <1>6 DEF WriteState, O!NoUpgrade
<1>9. flash' \in [Cells -> Content]
  BY <1>1, <1>5 DEF UpgradeTypes, Content, O!Erased
<1>10. UpgradeTypes'
  BY <1>1, <1>2, <1>9 DEF UpgradeTypes, Content, Cells
<1>11. Timer' /\ Judged'
  BY <1>1, <1>2 DEF Timer, Judged
<1>12. Progress'
  BY <1>1, <1>2, <1>8 DEF Progress, O!Owns
<1>13. Blank'
  <2> SUFFICES ASSUME NEW c \in Cells, c < (n + 1) * Sector PROVE flash'[c] = O!Erased
    BY <1>2, <1>8 DEF Blank, Cells
  <2>1. c \in Nat
    BY DEF Cells
  <2>2. c < n * Sector \/ c \div Sector = n
    BY <2>1, SectorOf
  <2>3. c < n * Sector => flash[c] = O!Erased
    BY <1>1, <1>2, <1>3 DEF Blank
  <2> QED
    BY <1>5, <2>2, <2>3
<1>14. O!OthersKept'
  <2> SUFFICES ASSUME NEW c \in Cells, c >= (SlotSectors + 1) * Sector PROVE flash'[c] = O!Kept
    BY <1>5 DEF O!OthersKept, O!KeptCells
  <2>1. c \in Nat /\ flash[c] = O!Kept
    BY <1>1 DEF Cells, UpgradeInv, O!OthersKept, O!KeptCells, UpgradeTypes
  <2>2. c \div Sector # n
    <3>1. SUFFICES ASSUME c < (n + 1) * Sector PROVE FALSE
      BY <2>1, SectorOf
    <3> QED
      BY <1>4, <2>1, <3>1
  <2> QED
    BY <1>5, <2>1, <2>2
<1>15. O!WrittenInOrder'
  BY <1>2 DEF O!WrittenInOrder
<1> QED
  BY <1>7, <1>10, <1>11, <1>12, <1>13, <1>14, <1>15 DEF UpgradeInv

(* What system_upgrade makes of a block: whole words, and a rest.           *)
Extra(n) == n % Word
Rounded(n) == n - Extra(n)

(* The rest is less than a word.                                            *)
LEMMA WordsOf ==
  ASSUME NEW n \in Nat PROVE Extra(n) \in Nat /\ Extra(n) < Word /\ Extra(n) <= n
BY UpgradeConstants DEF Extra

(* A block of the body, up to the length of the image.                      *)
LEMMA BodyOf ==
  ASSUME image \in Nat, NEW from \in Nat, NEW n \in Nat, from + n <= image
  PROVE  /\ O!Body(from, n) \in Seq(Content) /\ Len(O!Body(from, n)) = n
         /\ \A k \in 1..n : O!Body(from, n)[k] = from + k
<1>1. O!Body(from, n) \in [1..n -> Content]
  BY DEF O!Body, Content, O!Foreign
<1>2. O!Body(from, n) \in Seq(Content)
  BY <1>1, SeqDef
<1>3. Len(O!Body(from, n)) = n
  BY <1>1, <1>2, LenProperties
<1>4. ASSUME NEW k \in 1..n PROVE O!Body(from, n)[k] = from + k
  <2>1. from + k <= image
    OBVIOUS
  <2> QED
    BY <2>1 DEF O!Body
<1> QED
  BY <1>2, <1>3, <1>4

(* What system_upgrade does with a block: the words of buffer, of len bytes *)
(* in all, are written behind the last ones, or dropped; the rest is saved. *)
UpgradeRecords == [addr : 0..SlotSectors * Sector, save : Seq(Content), earse : 0..SlotSectors + 1]
Programmed(a, buffer, len) ==
  [c \in Cells |-> IF a <= c /\ c < a + len THEN O!Overwritten(flash[c], buffer[c - a + 1]) ELSE flash[c]]
Written(a, buffer, len) ==
  /\ a + len < SlotSectors * Sector
  /\ upgrade'.addr = a + len /\ flash' = Programmed(a, buffer, len) /\ errors' = errors
Dropped(a) == upgrade'.addr = a /\ flash' = flash /\ errors'.now = TRUE

Effect(data, a, buffer, len) ==
  /\ a \in Nat /\ a <= SlotSectors * Sector
  /\ buffer \in Seq(Content) /\ Len(buffer) = Len(upgrade.save) + Len(data) /\ len \in 0..Len(buffer)
  /\ upgrade' \in UpgradeRecords /\ upgrade'.earse = upgrade.earse
  /\ upgrade'.save = SubSeq(buffer, len + 1, Len(buffer)) /\ Len(upgrade'.save) < Word
  /\ flash' \in [Cells -> Content] /\ errors' \in [now : BOOLEAN, all : Nat]
  /\ Written(a, buffer, len) \/ Dropped(a)

(* ota.c: system_upgrade.  Whole words are written, the rest is kept.       *)
LEMMA Upgraded ==
  ASSUME UpgradeTypes, upgrade \in UpgradeRecords, Len(upgrade.save) < Word, image' = image,
         NEW data \in Seq(Content), O!system_upgrade(data),
         NEW a, a = upgrade.addr, NEW buffer, buffer = upgrade.save \o data,
         NEW len, len = Rounded(Len(buffer))
  PROVE  Effect(data, a, buffer, len)
<1>1. PICK top \in Nat : top = SlotSectors * Sector
  BY SlotSizes
<1>2. /\ a \in Nat /\ a <= top
      /\ upgrade.save \in Seq(Content)
  BY <1>1 DEF UpgradeRecords
<1>3. /\ buffer \in Seq(Content) /\ Len(buffer) = Len(upgrade.save) + Len(data)
      /\ Len(buffer) \in Nat
  BY <1>2, Joined, LenProperties
<1>4. /\ len \in 0..Len(buffer) /\ len \in Nat /\ Len(buffer) - len < Word
      /\ Len(buffer) - (Len(buffer) % Word) = len
  <2>1. PICK n \in Nat : n = Len(buffer)
    BY <1>3
  <2>2. PICK r \in Nat : r = Extra(n)
    BY <2>1, WordsOf
  <2>3. r <= n /\ r < Word /\ Word \in Nat
    BY <2>1, <2>2, WordsOf, UpgradeConstants
  <2>4. len = n - r
    BY <2>1, <2>2 DEF Rounded
  <2>5. Len(buffer) % Word = r
    BY <2>1, <2>2 DEF Extra
  <2>6. len \in 0..n /\ len \in Nat /\ n - len < Word /\ n - r = len
    BY <2>3, <2>4
  <2>7. Len(buffer) - (Len(buffer) % Word) = n - r
    BY <2>1, <2>5
  <2> QED
    BY <2>1, <2>6, <2>7
<1>5. PICK written \in BOOLEAN :
        /\ written => a + len < top
        /\ upgrade' = [upgrade EXCEPT !.save = SubSeq(buffer, len + 1, Len(buffer)),
                                      !.addr = IF written THEN a + len ELSE a]
        /\ flash' = IF written
                    THEN [c \in Cells |->
                            IF c \in a..a + len - 1
                            THEN O!Overwritten(flash[c], buffer[c - a + 1])
                            ELSE flash[c]]
                    ELSE flash
        /\ errors' = IF written THEN errors
                     ELSE [now |-> TRUE,
                           all |-> errors.all + (IF a + len < top THEN 1 ELSE 0)]
  <2>1. DOMAIN flash = Cells
    BY DEF UpgradeTypes
  <2> QED
    BY <1>1, <1>4, <2>1, Zenon DEF O!system_upgrade
<1>6. /\ SubSeq(buffer, len + 1, Len(buffer)) \in Seq(Content)
      /\ Len(SubSeq(buffer, len + 1, Len(buffer))) = Len(buffer) - len
  BY <1>3, <1>4, Rest
<1>7. (IF written THEN a + len ELSE a) \in 0..top
  BY <1>2, <1>4, <1>5
<1>8. /\ upgrade' \in UpgradeRecords /\ upgrade'.earse = upgrade.earse
      /\ upgrade'.save = SubSeq(buffer, len + 1, Len(buffer))
      /\ upgrade'.addr = IF written THEN a + len ELSE a
  <2>1. UpgradeRecords' = UpgradeRecords
    BY DEF UpgradeRecords, Content
  <2> QED
    BY <1>1, <1>5, <1>6, <1>7, <2>1 DEF UpgradeRecords
<1>9. Programmed(a, buffer, len) \in [Cells -> Content]
  <2> SUFFICES ASSUME NEW c \in Cells, a <= c, c < a + len PROVE O!Overwritten(flash[c], buffer[c - a + 1]) \in Content
    BY DEF Programmed, UpgradeTypes
  <2>1. c \in Nat
    BY DEF Cells
  <2>2. c - a + 1 \in 1..Len(buffer)
    BY <1>2, <1>3, <1>4, <2>1
  <2>3. buffer[c - a + 1] \in Content
    BY <1>3, <2>2, ElementOfSeq
  <2>4. O!Junk \in Content
    BY UpgradeConstants DEF O!Junk, Content, UpgradeTypes
  <2> QED
    BY <2>3, <2>4 DEF O!Overwritten
<1>10. written => flash' = Programmed(a, buffer, len)
  <2>1. ASSUME NEW c \in Cells PROVE c \in a..a + len - 1 <=> (a <= c /\ c < a + len)
    <3>1. c \in Nat
      BY DEF Cells
    <3> QED
      BY <1>2, <1>4, <3>1
  <2> QED
    BY <1>5, <2>1 DEF Programmed
<1>11. flash' \in [Cells -> Content]
  BY <1>5, <1>9, <1>10 DEF UpgradeTypes
<1>12. errors' \in [now : BOOLEAN, all : Nat]
  <2>1. errors \in [now : BOOLEAN, all : Nat] /\ (IF a + len < top THEN 1 ELSE 0) \in Nat
    BY DEF UpgradeTypes
  <2>2. errors.all + (IF a + len < top THEN 1 ELSE 0) \in Nat
    BY <2>1
  <2> QED
    BY <1>5, <2>1, <2>2
<1>13. written => Written(a, buffer, len)
  BY <1>1, <1>5, <1>8, <1>10 DEF Written
<1>14. ~written => Dropped(a)
  BY <1>5, <1>8 DEF Dropped
<1>15. Len(upgrade'.save) < Word
  BY <1>4, <1>6, <1>8
<1> QED
  BY <1>1, <1>2, <1>3, <1>4, <1>8, <1>11, <1>12, <1>13, <1>14, <1>15 DEF Effect

(* Nothing is written: what has come of the body is all that counted.       *)
LEMMA NothingWritten ==
  ASSUME UpgradeInv, O!LoadData, UNCHANGED <<flash, upgrade, errors>>, totallength = image
  PROVE  UpgradeInv'
<1> USE UpgradeConstants
<1>1. UpgradeTypes /\ WriteState /\ Timer /\ Progress /\ Blank /\ Judged
  BY DEF UpgradeInv
<1>2. /\ pc = "read" /\ pc' = "check" /\ O!Owns /\ flash_erased
      /\ UNCHANGED <<image, flag, upgrade_flag, armed, result, retry_count, flash_erased, giveup, clean>>
  BY DEF O!LoadData, O!server
<1>3. /\ sent' \in 0..image + 1 /\ totallength' \in 0..image + 1 /\ totallength' = sent' /\ sumlength' = image
      /\ totallength' > image
  BY <1>1, <1>2 DEF O!LoadData, UpgradeTypes, Progress
<1>4. UpgradeTypes'
  BY <1>1, <1>2, <1>3 DEF UpgradeTypes, Waiting, Cells, Content
<1>5. WriteState' /\ Timer' /\ Progress' /\ Judged'
  BY <1>1, <1>2, <1>3 DEF WriteState, Timer, Progress, Judged, Content, O!NoUpgrade, O!Owns, Waiting
<1>6. Blank'
  BY <1>1, <1>2 DEF Blank, Cells, From, O!Owns
<1>7. O!OthersKept'
  BY DEF UpgradeInv, O!OthersKept, O!KeptCells
<1>8. O!WrittenInOrder'
  <2>1. ~(totallength > image) /\ image \in Nat
    BY <1>1 DEF UpgradeTypes
  <2> QED
    BY <1>2, <1>3, <2>1 DEF UpgradeInv, O!WrittenInOrder, O!SlotHolds, O!Owns
<1> QED
  BY <1>4, <1>5, <1>6, <1>7, <1>8 DEF UpgradeInv

(* A block is written or dropped.                                           *)
LEMMA BlockWritten ==
  ASSUME UpgradeInv, pc = "read", pc' = "check", O!Owns, flash_erased,
         UNCHANGED <<image, flag, upgrade_flag, armed, result, retry_count, flash_erased, giveup, clean>>,
         NEW from \in Nat, NEW length \in Nat, from = sent, from + length <= image,
         totallength' = sent', sent' \in from + length..image + 1, sumlength' = image,
         sent' # from + length => from + length = image,
         O!system_upgrade(O!Body(from, length))
  PROVE  UpgradeInv'
<1> USE UpgradeConstants
<1>1. UpgradeTypes /\ WriteState /\ Timer /\ Progress /\ Blank /\ Judged
  BY DEF UpgradeInv
<1>2. upgrade \in UpgradeRecords /\ Len(upgrade.save) < Word /\ image \in Nat /\ totallength = from
  BY <1>1 DEF WriteState, Progress, UpgradeRecords, UpgradeTypes
<1>3. PICK data : data = O!Body(from, length)
  OBVIOUS
<1>4. /\ data \in Seq(Content) /\ Len(data) = length
      /\ \A k \in 1..length : data[k] = from + k
  BY <1>2, <1>3, BodyOf
<1>5. PICK a : a = upgrade.addr
  OBVIOUS
<1>6. PICK buffer : buffer = upgrade.save \o data
  OBVIOUS
<1>7. PICK len : len = Rounded(Len(buffer))
  OBVIOUS
<1>8. Effect(data, a, buffer, len)
  BY <1>1, <1>2, <1>3, <1>4, <1>5, <1>6, <1>7, Upgraded, Zenon
<1>9. /\ a \in Nat /\ a <= SlotSectors * Sector
      /\ buffer \in Seq(Content) /\ Len(buffer) = Len(upgrade.save) + length /\ len \in 0..Len(buffer)
      /\ upgrade' \in UpgradeRecords /\ upgrade'.earse = upgrade.earse
      /\ upgrade'.save = SubSeq(buffer, len + 1, Len(buffer)) /\ Len(upgrade'.save) < Word
      /\ flash' \in [Cells -> Content] /\ errors' \in [now : BOOLEAN, all : Nat]
      /\ Written(a, buffer, len) \/ Dropped(a)
  BY <1>4, <1>8 DEF Effect
<1>10. a \in Nat
  BY <1>9
<1>11. UpgradeTypes'
  BY <1>1, <1>2, <1>9 DEF UpgradeTypes, Waiting, Cells, Content
<1>12. WriteState' /\ upgrade' # O!NoUpgrade
  BY <1>9 DEF WriteState, UpgradeRecords, Content, O!NoUpgrade
<1>13. Timer' /\ Progress' /\ Judged'
  BY <1>1, <1>12 DEF Timer, Progress, Judged, O!Owns
<1>14. PICK top \in Nat : top = SlotSectors * Sector
  BY SlotSizes
<1>15. len \in Nat /\ Len(buffer) \in Nat /\ Len(upgrade.save) \in Nat /\ len <= Len(buffer)
  BY <1>2, <1>9, LenProperties DEF UpgradeRecords
<1>16. Blank'
  <2> SUFFICES ASSUME NEW c \in Cells, upgrade'.addr <= c, c < top, c < image PROVE flash'[c] = O!Erased
    BY <1>14 DEF Blank, From, Cells
  <2>1. c \in Nat
    BY DEF Cells
  <2>2. a <= c => flash[c] = O!Erased
    BY <1>1, <1>5, <1>14 DEF Blank, From
  <2>3. CASE Written(a, buffer, len)
    <3>1. flash'[c] = flash[c] /\ a <= c
      BY <1>9, <1>15, <2>1, <2>3 DEF Written, Programmed
    <3> QED
      BY <2>2, <3>1
  <2>4. CASE Dropped(a)
    BY <2>2, <2>4 DEF Dropped
  <2> QED
    BY <1>9, <2>3, <2>4
<1>17. O!OthersKept'
  <2> SUFFICES ASSUME NEW c \in Cells, c >= (SlotSectors + 1) * Sector PROVE flash'[c] = O!Kept
    BY <1>9 DEF O!OthersKept, O!KeptCells
  <2>1. c \in Nat /\ flash[c] = O!Kept
    BY <1>1 DEF Cells, UpgradeInv, O!OthersKept, O!KeptCells, UpgradeTypes
  <2>2. c >= top
    BY <1>14, <2>1, SlotSizes
  <2> QED
    BY <1>9, <1>14, <1>15, <2>1, <2>2 DEF Written, Dropped, Programmed
<1>18. O!WrittenInOrder'
  <2> SUFFICES ASSUME clean, ~errors'.now
               PROVE  /\ upgrade'.addr + Len(upgrade'.save) = from + length
                      /\ \A k \in 1..upgrade'.addr : flash'[k - 1] = k
                      /\ \A i \in 1..Len(upgrade'.save) : upgrade'.save[i] = upgrade'.addr + i
    <3>1. image' = image /\ (IF totallength' > image THEN image ELSE totallength') = from + length
      BY <1>2
    <3>2. clean' = clean
      OBVIOUS
    <3> QED
      BY <3>1, <3>2 DEF O!WrittenInOrder, O!SlotHolds
  <2>1. Written(a, buffer, len)
    BY <1>9 DEF Dropped
  <2>2. ~errors.now /\ upgrade'.addr = a + len /\ a + len < top
    BY <1>14, <2>1 DEF Written
  <2>3. /\ a + Len(upgrade.save) = from
        /\ O!SlotHolds(a)
        /\ \A i \in 1..Len(upgrade.save) : upgrade.save[i] = a + i
    <3>1. (IF totallength > image THEN image ELSE totallength) = from
      BY <1>2
    <3> QED
      BY <1>5, <2>2, <3>1 DEF UpgradeInv, O!WrittenInOrder
  <2>4. ASSUME NEW i \in 1..Len(buffer) PROVE buffer[i] = a + i
    <3>1. upgrade.save \in Seq(Content)
      BY <1>2 DEF UpgradeRecords
    <3>2. CASE i <= Len(upgrade.save)
      <4>1. i \in 1..Len(upgrade.save)
        BY <1>15, <3>2
      <4>2. buffer[i] = upgrade.save[i]
        BY <1>4, <1>6, <3>1, <4>1, Joined
      <4> QED
        BY <2>3, <4>1, <4>2
    <3>3. CASE ~(i <= Len(upgrade.save))
      <4>1. PICK k \in 1..length : i = Len(upgrade.save) + k
        <5>1. i - Len(upgrade.save) \in 1..length /\ i = Len(upgrade.save) + (i - Len(upgrade.save))
          BY <1>9, <1>15, <3>3
        <5> QED
          BY <5>1
      <4>2. buffer[i] = data[k]
        BY <1>4, <1>6, <3>1, <4>1, Joined
      <4>3. PICK n \in Nat : n = Len(upgrade.save)
        BY <1>15
      <4>4. a + i = from + k
        <5>1. i = n + k /\ a + n = from /\ k \in Int
          BY <2>3, <4>1, <4>3
        <5> QED
          BY <1>10, <5>1
      <4> QED
        BY <1>4, <4>1, <4>2, <4>4
    <3> QED
      BY <3>2, <3>3
  <2>5. /\ Len(upgrade'.save) = Len(buffer) - len
        /\ \A i \in 1..Len(buffer) - len : upgrade'.save[i] = buffer[len + i]
    <3>1. len \in 0..Len(buffer) /\ buffer \in Seq(Content)
      BY <1>9
    <3>2. /\ Len(SubSeq(buffer, len + 1, Len(buffer))) = Len(buffer) - len
          /\ \A i \in 1..Len(buffer) - len : SubSeq(buffer, len + 1, Len(buffer))[i] = buffer[len + i]
      BY <3>1, Rest, Zenon
    <3> QED
      BY <1>9, <3>2
  <2>6. upgrade'.addr + Len(upgrade'.save) = from + length
    <3>1. PICK n \in Nat : n = Len(upgrade.save)
      BY <1>15
    <3>2. PICK m \in Nat : m = Len(buffer)
      BY <1>15
    <3>3. m = n + length /\ a + n = from /\ Len(upgrade'.save) = m - len /\ upgrade'.addr = a + len
      BY <1>9, <2>2, <2>3, <2>5, <3>1, <3>2
    <3> QED
      BY <1>15, <1>10, <3>3
  <2>7. ASSUME NEW i \in 1..Len(upgrade'.save) PROVE upgrade'.save[i] = upgrade'.addr + i
    <3>1. len + i \in 1..Len(buffer) /\ i \in 1..Len(buffer) - len
      <4>1. PICK m \in Nat : m = Len(buffer)
        BY <1>15
      <4>2. i \in 1..m - len
        BY <2>5, <4>1
      <4> QED
        BY <1>15, <4>1, <4>2
    <3>2. upgrade'.save[i] = a + (len + i)
      BY <2>4, <2>5, <3>1
    <3> QED
      BY <1>10, <1>15, <2>2, <3>2
  <2>8. ASSUME NEW k \in 1..a + len PROVE flash'[k - 1] = k
    <3>1. k - 1 \in Nat /\ k - 1 < top /\ k <= image
      BY <1>2, <1>9, <1>15, <2>2, <2>3
    <3>2. k - 1 \in Cells
      BY <1>14, <3>1, SlotSizes DEF Cells
    <3>3. flash'[k - 1] = IF a <= k - 1 /\ k - 1 < a + len
                          THEN O!Overwritten(flash[k - 1], buffer[k - 1 - a + 1]) ELSE flash[k - 1]
      BY <2>1, <3>2 DEF Written, Programmed
    <3>4. CASE k <= a
      BY <1>9, <1>15, <2>3, <3>3, <3>4 DEF O!SlotHolds
    <3>5. CASE k > a
      <4>1. a <= k - 1 /\ k - 1 < a + len /\ k - 1 - a + 1 = k - a /\ k - a \in 1..Len(buffer)
        BY <1>9, <1>15, <3>5
      <4>2. flash[k - 1] = O!Erased
        BY <1>1, <1>2, <1>5, <1>14, <3>1, <3>2, <4>1 DEF Blank, From
      <4>3. buffer[k - a] = a + (k - a)
        BY <2>4, <4>1
      <4> QED
        BY <1>9, <3>3, <4>1, <4>2, <4>3 DEF O!Overwritten
    <3> QED
      BY <1>9, <1>15, <3>4, <3>5
  <2> QED
    BY <2>2, <2>6, <2>7, <2>8
<1> QED
  BY <1>11, <1>12, <1>13, <1>16, <1>17, <1>18 DEF UpgradeInv

(* upgrade_data_load, with the sectors erased.                              *)
LEMMA LoadDataKeeps ==
  ASSUME UpgradeInv, O!LoadData PROVE UpgradeInv'
<1> USE UpgradeConstants
<1>1. UpgradeTypes /\ Progress
  BY DEF UpgradeInv
<1>2. /\ pc = "read" /\ pc' = "check" /\ O!Owns /\ flash_erased
      /\ UNCHANGED <<image, flag, upgrade_flag, armed, result, retry_count, flash_erased, giveup, clean>>
  BY DEF O!LoadData, O!server
<1>3. image \in Nat /\ sent \in Nat /\ totallength = sent
  BY <1>1, <1>2 DEF UpgradeTypes, Progress
<1>4. PICK n \in 1..SegLen :
        /\ sent + n <= image + 1
        /\ sent' = sent + n
        /\ totallength' = totallength + n
        /\ sumlength' = image
        /\ LET length == IF totallength + n > image THEN image - totallength ELSE n
           IN  IF length = 0 THEN UNCHANGED <<flash, upgrade, errors>>
               ELSE O!system_upgrade(O!Body(sent, length))
  BY DEF O!LoadData
<1>5. n \in Nat /\ n > 0
  BY <1>4
<1>6. PICK length \in Nat : length = IF sent + n > image THEN image - sent ELSE n
  BY <1>3, <1>4, <1>5
<1>7. CASE length = 0
  <2>1. totallength = image
    BY <1>3, <1>4, <1>5, <1>6, <1>7
  <2> QED
    BY <1>3, <1>4, <1>6, <1>7, <2>1, NothingWritten
<1>8. CASE length # 0
  <2>1. /\ sent + length <= image /\ sent' \in sent + length..image + 1
        /\ sent' # sent + length => sent + length = image
        /\ totallength' = sent'
    BY <1>3, <1>4, <1>5, <1>6
  <2>2. O!system_upgrade(O!Body(sent, length))
    BY <1>3, <1>4, <1>6, <1>8
  <2> QED
    BY <1>2, <1>3, <1>4, <1>6, <2>1, <2>2, BlockWritten
<1> QED
  BY <1>7, <1>8

(* No step of the update breaks its invariant.                              *)
LEMMA UpgradeKeeps ==
  ASSUME UpgradeInv, O!Next \/ UNCHANGED otaVars PROVE UpgradeInv'
<1>1. CASE UNCHANGED otaVars
  <2>1. /\ UpgradeTypes' /\ WriteState' /\ Timer' /\ Progress' /\ Blank' /\ Judged'
    BY <1>1 DEF otaVars, UpgradeInv, UpgradeTypes, WriteState, Timer, Progress, Blank, Judged, Waiting, Cells,
                Content, From, O!Owns, O!SlotHolds, O!NoUpgrade
  <2>2. O!OthersKept' /\ O!WrittenInOrder'
    BY <1>1 DEF otaVars, UpgradeInv, O!OthersKept, O!KeptCells, O!WrittenInOrder, O!SlotHolds, O!Owns
  <2> QED
    BY <2>1, <2>2 DEF UpgradeInv
<1>2. CASE O!Next
  BY <1>2, GiveUpKeeps, ConnectFailsKeeps, ConnectSucceedsKeeps, RequestSentKeeps, ReadFailsKeeps, NoHeaderKeeps,
     LearnLengthKeeps, EraseSectorKeeps, EraseEndsKeeps, LoadDataKeeps, DownloadGoesOnKeeps, DownloadEndsKeeps,
     FinishKeeps, FaultKeeps, upgrade_checkKeeps DEF O!Next, O!Task
<1> QED
  BY <1>1, <1>2

(* ota.c: the invariant of the update.                                      *)
THEOREM UpgradeInvariant == Spec => [](active = "ota" => UpgradeInv)
<1>1. Init => (active = "ota" => UpgradeInv)
  BY UpgradeBegins DEF Init
<1>2. (active = "ota" => UpgradeInv) /\ [Next]_vars => (active = "ota" => UpgradeInv)'
  <2> SUFFICES ASSUME active = "ota" => UpgradeInv, [Next]_vars, active' = "ota"
               PROVE  UpgradeInv'
    OBVIOUS
  <2>1. active = "ota" /\ (O!Next \/ UNCHANGED otaVars)
    BY DEF Next, vars
  <2> QED
    BY <2>1, UpgradeKeeps
<1> QED
  BY <1>1, <1>2, PTL DEF Spec

(* ota.c: only an image that came whole is booted, nothing outside of its   *)
(* slot is erased or written, and its bytes are where they belong.          *)
THEOREM UpgradeCorrect == Spec => []OnlyWholeImageBoots
<1>1. UpgradeInv => O!TypeOK
  <2> SUFFICES ASSUME UpgradeInv PROVE O!TypeOK
    OBVIOUS
  <2>1. UpgradeTypes /\ WriteState
    BY DEF UpgradeInv
  <2>2. upgrade.addr \in -1..SlotSectors * Sector /\ Len(upgrade.save) < Word
    <3>1. Len(<< >>) = 0
      BY EmptySeq
    <3> QED
      BY <2>1, <3>1, UpgradeConstants, SlotSizes DEF WriteState, O!NoUpgrade
  <2> QED
    BY <2>1, <2>2 DEF UpgradeTypes, Waiting, Cells, Content, O!TypeOK
<1>2. UpgradeInv => O!OnlyWholeImageBoots /\ O!OthersKept /\ O!WrittenInOrder
  BY DEF UpgradeInv, Judged, O!OnlyWholeImageBoots
<1>3. (active = "ota" => UpgradeInv) => OnlyWholeImageBoots
  BY <1>1, <1>2 DEF OnlyWholeImageBoots
<1> QED
  BY <1>3, UpgradeInvariant, PTL

-----------------------------------------------------------------------------
(* The clock: what its history variables say of the counter.                *)
ClockTypes ==
  /\ {ntp_ntpUptimeMs, ntp_syncedMs, ntp_lastAttemptMs} \subseteq 0..UptimeWrap - 1
  /\ ntp_waitMs \in {0, Resync, Retry} /\ (ntp_waitMs = 0 => ~ntp_synced)
  /\ ntp_pc \in {"idle", "asked", "answered", "shown"} /\ ntp_fetching \in 0..MaxFetch
  /\ ntp_synced \in BOOLEAN
  /\ ntp_stamp \in [ago : Nat, part : 0..Second - 1]
  /\ ntp_truth \in [ago : Nat, part : 0..Second - 1] /\ ntp_late \in Nat

(* An answer under way is no older than the request.                        *)
Stamped ==
  /\ ntp_pc \in {"asked", "answered"} => ntp_stamp.ago <= ntp_fetching
  /\ ntp_pc # "answered" => ntp_stamp = N!NoStamp

(* The counter has gone on since the answer came as the time has, until it  *)
(* has gone round.                                                          *)
Since == ntp_truth.ago - ntp_late
Kept ==
  /\ ntp_late <= ntp_truth.ago /\ ntp_truth.ago <= UptimeWrap
  /\ ntp_synced /\ ntp_truth.ago < UptimeWrap =>
       \/ ntp_ntpUptimeMs - ntp_syncedMs = Since
       \/ ntp_ntpUptimeMs - ntp_syncedMs = Since - UptimeWrap

Shows ==
  ntp_pc = "shown" /\ ntp_truth.ago < UptimeWrap => ntp_synced /\ ntp_shown = Since \div Second

ClockInv == ClockTypes /\ Stamped /\ Kept /\ Shows

(* The counter and the waits of the clock.                                  *)
LEMMA ClockConstants ==
  /\ UptimeWrap \in Nat /\ Second \in Nat /\ Resync \in Nat /\ Retry \in Nat /\ MaxFetch \in Nat
  /\ UptimeWrap > 0 /\ Second > 0 /\ Resync > 0 /\ Retry > 0 /\ MaxFetch > 0
  /\ UptimeWrap > Resync + Retry + MaxFetch
  BY BoardAssumption DEF N!NtpClockAssumption

(* The counter counts, and begins again.                                    *)
LEMMA Counts ==
  ASSUME NEW n \in 0..UptimeWrap - 1
  PROVE  (n + 1) % UptimeWrap = IF n + 1 < UptimeWrap THEN n + 1 ELSE 0
  BY ClockConstants

(* A difference of counters.                                                *)
LEMMA Differs ==
  ASSUME NEW n \in 0..UptimeWrap - 1
  PROVE  n % UptimeWrap = n /\ (n - UptimeWrap) % UptimeWrap = n
  BY ClockConstants

(* Seconds, from below and above.                                           *)
LEMMA Seconds ==
  ASSUME NEW n \in Nat
  PROVE  /\ n \div Second \in Nat
         /\ (n \div Second) * Second <= n /\ n < (n \div Second) * Second + Second
  BY ClockConstants

(* Whole seconds, of a and of b ticks and of both.                          *)
LEMMA SecondsOfBoth ==
  ASSUME NEW a \in Nat, NEW b \in Nat
  PROVE  /\ a \div Second <= (a + b) \div Second
         /\ (a + b) \div Second <= a \div Second + (b + Second - 1) \div Second
<1>1. PICK x \in Nat : x = a \div Second /\ x * Second <= a /\ a < x * Second + Second
  BY Seconds
<1>2. PICK y \in Nat : y = (a + b) \div Second /\ y * Second <= a + b /\ a + b < y * Second + Second
  BY Seconds
<1>3. b + Second - 1 \in Nat
  BY ClockConstants
<1>4. PICK z \in Nat : /\ z = (b + Second - 1) \div Second
                       /\ z * Second <= b + Second - 1 /\ b + Second - 1 < z * Second + Second
  BY <1>3, Seconds
<1>5. x <= y
  <2>1. CASE x > y
    <3>1. x * Second >= y * Second + Second
      BY <2>1, ClockConstants
    <3> QED
      BY <1>1, <1>2, <3>1, ClockConstants
  <2> QED
    BY <2>1
<1>6. y <= x + z
  <2>1. CASE y > x + z
    <3>1. y * Second >= x * Second + z * Second + Second
      BY <2>1, ClockConstants
    <3> QED
      BY <1>1, <1>2, <1>4, <3>1, ClockConstants
  <2> QED
    BY <2>1
<1> QED
  BY <1>1, <1>2, <1>4, <1>5, <1>6

(* What is shown, of the seconds since the answer.                          *)
LEMMA Shown ==
  ASSUME ClockInv, ntp_synced, ntp_truth.ago < UptimeWrap
  PROVE  N!Elapsed(ntp_ntpUptimeMs) = Since \div Second
<1>1. PICK since \in Nat : since = Since
  BY DEF ClockInv, ClockTypes, Kept, Since
<1>2. since \in 0..UptimeWrap - 1
  BY <1>1, ClockConstants DEF ClockInv, ClockTypes, Kept, Since
<1>3. \/ ntp_ntpUptimeMs - ntp_syncedMs = since
      \/ ntp_ntpUptimeMs - ntp_syncedMs = since - UptimeWrap
  BY <1>1 DEF ClockInv, Kept
<1>4. (ntp_ntpUptimeMs - ntp_syncedMs) % UptimeWrap = since
  BY <1>2, <1>3, Differs
<1> QED
  BY <1>1, <1>4 DEF N!Elapsed

(* ntp.c: the clock begins.                                                 *)
LEMMA ClockBegins ==
  ASSUME N!Init PROVE ClockInv
<1> USE ClockConstants DEF N!Init, N!NoStamp
<1>1. ntp_stamp \in [ago : Nat, part : 0..Second - 1] /\ ntp_truth \in [ago : Nat, part : 0..Second - 1]
  OBVIOUS
<1>2. ntp_stamp.ago = 0 /\ ntp_truth.ago = 0 /\ ntp_late = 0
  OBVIOUS
<1>3. ClockTypes
  <2>1. {ntp_ntpUptimeMs, ntp_syncedMs, ntp_lastAttemptMs} \subseteq 0..UptimeWrap - 1
    OBVIOUS
  <2>2. /\ ntp_waitMs = 0 /\ ntp_synced = FALSE /\ ntp_pc = "idle" /\ ntp_fetching \in 0..MaxFetch
        /\ ntp_late \in Nat
    OBVIOUS
  <2> QED
    BY <1>1, <2>1, <2>2 DEF ClockTypes
<1>4. Stamped /\ Kept /\ Shows
  BY <1>2 DEF Stamped, Kept, Shows, Since
<1> QED
  BY <1>3, <1>4 DEF ClockInv

(* A tick of the counter, which goes round.                                 *)
LEMMA TickKeeps ==
  ASSUME ClockInv, N!ntp_tick10ms PROVE ClockInv'
<1> USE ClockConstants
<1>1. ClockTypes /\ Stamped /\ Kept
  BY DEF ClockInv
<1>2. PICK up \in 0..UptimeWrap - 1 : up = ntp_ntpUptimeMs
  BY <1>1 DEF ClockTypes
<1>3. ntp_ntpUptimeMs' = IF up + 1 < UptimeWrap THEN up + 1 ELSE 0
  BY <1>2, Counts DEF N!ntp_tick10ms
<1>4. ClockTypes'
  <2>1. {ntp_ntpUptimeMs', ntp_syncedMs', ntp_lastAttemptMs'} \subseteq 0..UptimeWrap - 1
    BY <1>1, <1>2, <1>3 DEF ClockTypes, N!ntp_tick10ms
  <2>2. /\ ntp_waitMs' \in {0, Resync, Retry} /\ (ntp_waitMs' = 0 => ~ntp_synced')
        /\ ntp_synced' \in BOOLEAN
    BY <1>1 DEF ClockTypes, N!ntp_tick10ms
  <2>3. /\ ntp_pc' \in {"idle", "asked", "answered", "shown"} /\ ntp_fetching' \in 0..MaxFetch
    BY <1>1 DEF ClockTypes, N!ntp_tick10ms
  <2>4. ntp_stamp' \in [ago : Nat, part : 0..Second - 1]
    BY <1>1 DEF ClockTypes, N!ntp_tick10ms, N!NoStamp
  <2>5. ntp_truth' \in [ago : Nat, part : 0..Second - 1] /\ ntp_late' \in Nat
    BY <1>1 DEF ClockTypes, N!ntp_tick10ms, N!Least
  <2> QED
    BY <2>1, <2>2, <2>3, <2>4, <2>5 DEF ClockTypes
<1>5. Stamped'
  BY <1>1 DEF ClockTypes, Stamped, N!ntp_tick10ms, N!NoStamp
<1>6. Kept'
  <2>1. PICK ago \in Nat, late \in Nat, past \in 0..UptimeWrap - 1 :
          /\ ago = ntp_truth.ago /\ late = ntp_late /\ past = ntp_syncedMs
    BY <1>1 DEF ClockTypes
  <2>2. late <= ago /\ ago <= UptimeWrap
    BY <1>1, <2>1 DEF Kept
  <2>3. /\ ntp_truth'.ago = IF ntp_synced THEN (IF ago + 1 < UptimeWrap THEN ago + 1 ELSE UptimeWrap) ELSE ago
        /\ ntp_late' = late /\ ntp_syncedMs' = past /\ ntp_synced' = ntp_synced
    BY <1>1, <2>1 DEF ClockTypes, N!ntp_tick10ms, N!Least
  <2>4. ntp_synced /\ ago < UptimeWrap => up - past = ago - late \/ up - past = (ago - late) - UptimeWrap
    BY <1>1, <1>2, <2>1 DEF Kept, Since
  <2>5. ntp_synced /\ ntp_truth'.ago < UptimeWrap =>
          \/ ntp_ntpUptimeMs' - past = ntp_truth'.ago - late
          \/ ntp_ntpUptimeMs' - past = (ntp_truth'.ago - late) - UptimeWrap
    BY <1>2, <1>3, <2>1, <2>2, <2>3, <2>4
  <2> QED
    BY <2>2, <2>3, <2>5 DEF Kept, Since
<1>7. Shows'
  BY DEF Shows, N!ntp_tick10ms
<1> QED
  BY <1>4, <1>5, <1>6, <1>7 DEF ClockInv

(* The server is asked.                                                     *)
LEMMA AskKeeps ==
  ASSUME ClockInv, N!Ask PROVE ClockInv'
  BY ClockConstants DEF N!Ask, N!NoStamp, ClockInv, ClockTypes, Stamped, Kept, Shows, Since

(* The server puts its time into the answer.                                *)
LEMMA AnswerKeeps ==
  ASSUME ClockInv, N!Answer PROVE ClockInv'
<1>1. PICK stamp \in [ago : {0}, part : 0..Second - 1] : ntp_stamp' = stamp
  BY DEF N!Answer
<1>2. ntp_stamp'.ago = 0 /\ ntp_stamp' \in [ago : Nat, part : 0..Second - 1]
  BY <1>1
<1> QED
  BY <1>2, ClockConstants DEF N!Answer, ClockInv, ClockTypes, Stamped, Kept, Shows, Since

(* The answer comes.                                                        *)
LEMMA FetchedKeeps ==
  ASSUME ClockInv, N!Fetched PROVE ClockInv'
<1> USE ClockConstants
<1>1. ClockTypes /\ Stamped
  BY DEF ClockInv
<1>2. PICK ago \in Nat : ago = ntp_stamp.ago /\ ago < UptimeWrap
  BY <1>1 DEF ClockTypes, Stamped, N!Fetched
<1>3. ntp_truth'.ago = ago /\ ntp_late' = ago
  BY <1>2 DEF N!Fetched
<1>4. ClockTypes' /\ Stamped'
  BY <1>1, <1>3 DEF N!Fetched, N!NoStamp, ClockTypes, Stamped
<1>5. Kept' /\ Shows'
  <2>1. 0 \div Second = 0
    OBVIOUS
  <2> QED
    BY <1>1, <1>2, <1>3, <2>1 DEF N!Fetched, ClockTypes, Kept, Shows, Since
<1> QED
  BY <1>4, <1>5 DEF ClockInv

(* The seconds of the clock are shown, if it has any.                       *)
LEMMA ShowKeeps ==
  ASSUME ClockInv, N!Show(ntp_synced, N!Elapsed(ntp_ntpUptimeMs)),
         UNCHANGED <<ntp_synced, ntp_truth, ntp_late>>
  PROVE  Shows' /\ ntp_pc' \in {"idle", "shown"}
<1>1. Since' = Since
  BY DEF Since
<1> QED
  BY <1>1, Shown DEF N!Show, Shows, ClockInv, ClockTypes

(* The answer does not come, or is none.                                    *)
LEMMA FetchFailsKeeps ==
  ASSUME ClockInv, N!FetchFails PROVE ClockInv'
<1>1. Shows' /\ ntp_pc' \in {"idle", "shown"}
  BY ShowKeeps DEF N!FetchFails
<1> QED
  BY <1>1, ClockConstants DEF N!FetchFails, N!NoStamp, ClockInv, ClockTypes, Stamped, Kept, Since

(* The time is asked for when the server need not be.                       *)
LEMMA LocalKeeps ==
  ASSUME ClockInv, N!Local PROVE ClockInv'
<1>1. Shows' /\ ntp_pc' \in {"idle", "shown"}
  BY ShowKeeps DEF N!Local
<1> QED
  BY <1>1, ClockConstants DEF N!Local, N!NoStamp, ClockInv, ClockTypes, Stamped, Kept, Since

(* No step of the clock breaks its invariant.                               *)
LEMMA ClockKeeps ==
  ASSUME ClockInv, N!Next \/ UNCHANGED clockVars PROVE ClockInv'
<1>1. CASE N!Address \/ UNCHANGED clockVars
  BY <1>1 DEF N!Address, clockVars, ClockInv, ClockTypes, Stamped, Kept, Shows, Since
<1>2. CASE N!Next /\ ~N!Address
  BY <1>2, TickKeeps, AskKeeps, AnswerKeeps, FetchedKeeps, FetchFailsKeeps, LocalKeeps DEF N!Next
<1> QED
  BY <1>1, <1>2

(* ntp.c: the invariant of the clock.                                       *)
THEOREM ClockInvariant == Spec => [](active = "clock" => ClockInv)
<1>1. Init => (active = "clock" => ClockInv)
  BY ClockBegins DEF Init
<1>2. (active = "clock" => ClockInv) /\ [Next]_vars => (active = "clock" => ClockInv)'
  <2> SUFFICES ASSUME active = "clock" => ClockInv, [Next]_vars, active' = "clock"
               PROVE  ClockInv'
    OBVIOUS
  <2>1. active = "clock" /\ (N!Next \/ UNCHANGED clockVars)
    BY DEF Next, vars
  <2> QED
    BY <2>1, ClockKeeps
<1> QED
  BY <1>1, <1>2, PTL DEF Spec

(* ntp.c: the time shown is never ahead of the server's, and behind it by   *)
(* no more than the answer took, until the counter has gone round.          *)
THEOREM ClockCorrect == Spec => []ClockClose
<1>1. ClockInv => N!TypeOK
  BY DEF ClockInv, ClockTypes, N!TypeOK
<1>2. ClockInv => N!ClockClose
  <2> SUFFICES ASSUME ClockInv, ntp_pc = "shown", ntp_truth.ago < UptimeWrap
               PROVE  ntp_shown \in (ntp_truth.ago + ntp_truth.part) \div Second
                                     - (ntp_late + ntp_truth.part + Second - 1) \div Second
                                   .. (ntp_truth.ago + ntp_truth.part) \div Second
    BY DEF N!ClockClose
  <2>1. PICK since \in Nat, slack \in Nat :
          /\ since = Since /\ slack = ntp_late + ntp_truth.part
          /\ since + slack = ntp_truth.ago + ntp_truth.part
    BY ClockConstants DEF ClockInv, ClockTypes, Kept, Since
  <2>2. ntp_shown = since \div Second
    BY <2>1 DEF ClockInv, Shows
  <2>3. /\ since \div Second \in Nat /\ (since + slack) \div Second \in Nat
        /\ (slack + Second - 1) \div Second \in Nat
    <3>1. since + slack \in Nat /\ slack + Second - 1 \in Nat
      BY ClockConstants
    <3> QED
      BY <3>1, Seconds
  <2>4. ntp_shown \in (since + slack) \div Second - (slack + Second - 1) \div Second
                       .. (since + slack) \div Second
    BY <2>2, <2>3, SecondsOfBoth
  <2>5. ntp_late + ntp_truth.part + Second - 1 = slack + Second - 1
    BY <2>1
  <2> QED
    BY <2>1, <2>4, <2>5
<1>3. (active = "clock" => ClockInv) => ClockClose
  BY <1>1, <1>2 DEF ClockClose
<1> QED
  BY <1>3, ClockInvariant, PTL

-----------------------------------------------------------------------------
(* The radio at boot: its settings and the networks.                        *)
Nets == {"net1", "net2"}
Settings ==
  [ssid : W!Ssids \cup {ErasedSsid}, ssid2 : W!Ssids \cup {ErasedSsid},
   ip : {"static", "default", "dhcp", "ap"}, dhcpEn : BOOLEAN]

BootTypes ==
  /\ wifi_device \in Settings /\ wifi_tried \in Settings /\ wifi_sdk \in W!Ssids
  /\ wifi_pc \in {"start", "poll", "look", "ap", "done"} /\ wifi_ap \in 0..1 /\ wifi_i \in 0..Tries + 1
  /\ wifi_mode \in {"station", "softap"} /\ wifi_boots \in 1..MaxBoots
  /\ wifi_info \in {"none", "static", "default", "dhcp", "ap"}
  /\ wifi_answers \in [Nets -> W!Behaviours] /\ wifi_waited \in 0..Tries

(* What the network that is tried has said is what it would say, and what   *)
(* is not silent has said it before the tries are over.                     *)
Polling == wifi_pc \in {"poll", "look"}
Answered ==
  Polling =>
    /\ wifi_mode = "station" /\ wifi_status \in {"connecting", "gotIp"} \cup W!Refusals
    /\ wifi_status = "gotIp" => wifi_sdk # W!NoSsid /\ wifi_answers[wifi_sdk] = "accepts" /\ wifi_info # "none"
    /\ wifi_status \in W!Refusals => wifi_sdk # W!NoSsid /\ wifi_status = wifi_answers[wifi_sdk]
    /\ wifi_info = "none" => wifi_device.dhcpEn
    /\ wifi_i < Tries /\ wifi_waited = IF wifi_pc = "look" THEN wifi_i + 1 ELSE wifi_i
    /\ wifi_pc = "look" /\ wifi_status \notin W!Refusals /\ wifi_sdk # W!NoSsid
         /\ wifi_answers[wifi_sdk] # "silent" => wifi_waited < Tries

(* The second network is tried when the first has refused.                  *)
FirstRefuses == wifi_tried.ssid = W!NoSsid \/ wifi_answers[wifi_tried.ssid] \in W!Refusals
Trying ==
  /\ wifi_pc # "start" =>
       /\ wifi_tried.ssid \in W!Ssids /\ wifi_tried.ssid2 \in W!Ssids
       /\ wifi_tried.ssid2 = wifi_device.ssid2
  /\ Polling /\ wifi_ap = 0 => wifi_sdk = wifi_tried.ssid
  /\ Polling /\ wifi_ap = 1 => wifi_sdk = wifi_tried.ssid2 /\ ~W!Unset(wifi_tried.ssid2) /\ FirstRefuses

(* The access point is what is left.                                        *)
NothingLeft ==
  /\ ~W!Unset(wifi_tried.ssid) => wifi_answers[wifi_tried.ssid] # "accepts"
  /\ ~W!Unset(wifi_tried.ssid2) /\ FirstRefuses => wifi_answers[wifi_tried.ssid2] # "accepts"
Decided == wifi_pc = "ap" \/ (wifi_pc = "done" /\ wifi_mode = "softap") => NothingLeft

BootInv == BootTypes /\ Answered /\ Trying /\ Decided

(* The tries and the boots.                                                 *)
LEMMA BootConstants == Tries \in Nat /\ Tries > 1 /\ MaxBoots \in Nat /\ MaxBoots > 0
  BY BoardAssumption DEF W!WifiBootAssumption

(* user_main.c: the first boot.                                             *)
LEMMA BootBegins ==
  ASSUME W!Init PROVE BootInv
<1> USE BootConstants DEF W!Init
<1>1. /\ wifi_device \in Settings /\ wifi_tried \in Settings
      /\ wifi_answers \in [Nets -> W!Behaviours] /\ wifi_sdk \in W!Ssids
  BY DEF Settings, Nets, W!Ssids, W!NoSsid
<1>2. BootTypes
  BY <1>1 DEF BootTypes
<1>3. Answered /\ Trying /\ Decided
  BY DEF Answered, Trying, Decided, Polling
<1> QED
  BY <1>2, <1>3 DEF BootInv

(* A boot begins with the settings that are saved, or with the network the  *)
(* SDK remembers.                                                           *)
LEMMA StartKeeps ==
  ASSUME BootInv, W!Start PROVE BootInv'
<1> USE BootConstants
<1>1. BootTypes
  BY DEF BootInv
<1>2. PICK loaded \in Settings : loaded = W!Cleared(wifi_device) /\ loaded.ssid2 \in W!Ssids
  <2>1. wifi_device \in Settings
    BY <1>1 DEF BootTypes
  <2>2. W!Cleared(wifi_device) \in Settings
    BY <2>1 DEF W!Cleared, Settings, W!Ssids
  <2>3. W!Cleared(wifi_device).ssid2 \in W!Ssids
    BY <2>1 DEF W!Cleared, Settings, W!Ssids
  <2> QED
    BY <2>2, <2>3
<1>3. PICK d \in Settings :
        /\ d.ssid \in W!Ssids /\ d.ssid2 \in W!Ssids
        /\ wifi_device' = d /\ wifi_tried' = d /\ W!ConnectTo(d.ssid, d)
  <2>1. PICK d : /\ d = IF W!Unset(loaded.ssid)
                        THEN [loaded EXCEPT !.ssid = wifi_sdk, !.ip = "default", !.dhcpEn = TRUE]
                        ELSE loaded
                 /\ wifi_device' = d /\ wifi_tried' = d /\ W!ConnectTo(d.ssid, d)
    BY <1>2 DEF W!Start
  <2>2. d \in Settings /\ d.ssid \in W!Ssids /\ d.ssid2 \in W!Ssids
    BY <1>1, <1>2, <2>1 DEF BootTypes, Settings, W!Unset
  <2> QED
    BY <2>1, <2>2
<1>4. /\ wifi_sdk' = d.ssid /\ wifi_info' = IF d.dhcpEn THEN "none" ELSE d.ip
      /\ wifi_status' = "connecting" /\ wifi_waited' = 0
      /\ wifi_mode' = "station" /\ wifi_ap' = 0 /\ wifi_i' = 0 /\ wifi_pc' = "poll"
      /\ wifi_answers' = wifi_answers /\ wifi_boots' = wifi_boots
  BY <1>3 DEF W!Start, W!ConnectTo
<1>5. BootTypes'
  BY <1>1, <1>3, <1>4 DEF BootTypes, Settings
<1>6. Answered' /\ Trying' /\ Decided'
  BY <1>3, <1>4 DEF Answered, Trying, Decided, Polling, Settings, W!Refusals
<1> QED
  BY <1>5, <1>6 DEF BootInv

(* The radio has an address.                                                *)
LEMMA GotIpKeeps ==
  ASSUME BootInv, W!GotIp PROVE BootInv'
<1>1. BootTypes /\ Answered /\ Trying /\ Decided
  BY DEF BootInv
<1>2. wifi_device' \in Settings /\ wifi_device'.ssid2 = wifi_device.ssid2
  BY <1>1 DEF W!GotIp, BootTypes, Answered, Polling, Settings
<1>3. BootTypes'
  BY <1>1, <1>2 DEF W!GotIp, BootTypes
<1>4. Answered' /\ Trying' /\ Decided'
  BY <1>1, <1>2 DEF W!GotIp, Answered, Trying, Decided, Polling
<1> QED
  BY <1>3, <1>4 DEF BootInv

(* The poll waits, while what has not answered will.                        *)
LEMMA DelayKeeps ==
  ASSUME BootInv, W!Prompt, W!Delay PROVE BootInv'
<1> USE BootConstants
<1>1. BootTypes /\ Answered /\ Trying /\ Decided
  BY DEF BootInv
<1>2. BootTypes'
  BY <1>1 DEF W!Delay, BootTypes
<1>3. Answered'
  <2>1. wifi_i \in Nat /\ wifi_waited \in 0..Tries /\ wifi_waited = wifi_i
    BY <1>1 DEF W!Delay, BootTypes, Answered, Polling
  <2>2. wifi_i < Tries
    BY <1>1 DEF W!Delay, Answered, Polling
  <2> QED
    BY <1>1, <2>1, <2>2 DEF W!Delay, W!Prompt, Answered, Polling
<1>4. Trying' /\ Decided'
  BY <1>1 DEF W!Delay, Trying, Decided, Polling, FirstRefuses
<1> QED
  BY <1>2, <1>3, <1>4 DEF BootInv

(* The second network is tried, with all of its tries.                      *)
LEMMA TrySecondKeeps ==
  ASSUME BootInv, W!TrySecond PROVE BootInv'
<1> USE BootConstants
<1>1. BootTypes /\ Answered /\ Trying /\ Decided
  BY DEF BootInv
<1>2. /\ wifi_pc = "look" /\ ~W!Unset(wifi_device.ssid2) /\ wifi_ap = 0 /\ wifi_ap' = 1
      /\ wifi_sdk = W!NoSsid \/ wifi_status \in W!Refusals
  BY <1>1 DEF W!TrySecond, BootTypes, W!Refused
<1>3. /\ wifi_sdk = wifi_tried.ssid /\ wifi_device.ssid2 = wifi_tried.ssid2
      /\ wifi_tried.ssid2 \in W!Ssids /\ FirstRefuses
  BY <1>1, <1>2 DEF Trying, Answered, Polling, FirstRefuses
<1>4. /\ wifi_sdk' = wifi_tried.ssid2 /\ wifi_status' = "connecting" /\ wifi_waited' = 0 /\ wifi_i' = 0
      /\ wifi_pc' = "poll" /\ wifi_info' = IF wifi_device.dhcpEn THEN "none" ELSE wifi_device.ip
      /\ UNCHANGED <<wifi_device, wifi_mode, wifi_answers, wifi_tried, wifi_boots>>
  BY <1>3 DEF W!TrySecond, W!ConnectTo
<1>5. BootTypes'
  BY <1>1, <1>2, <1>3, <1>4 DEF BootTypes, Settings
<1>6. Answered'
  <2>1. wifi_device.ip # "none"
    BY <1>1 DEF BootTypes, Settings
  <2> QED
    BY <1>1, <1>2, <1>4, <2>1 DEF Answered, Polling, W!Refusals
<1>7. Trying' /\ Decided'
  BY <1>1, <1>2, <1>3, <1>4 DEF Trying, Decided, Polling, FirstRefuses
<1> QED
  BY <1>5, <1>6, <1>7 DEF BootInv

(* Nothing takes the radio when the tries are over.                         *)
LEMMA TriesOver ==
  ASSUME BootInv, wifi_pc = "look", ~(W!Refused /\ ~W!Unset(wifi_device.ssid2) /\ wifi_ap < 1),
         W!Refused \/ wifi_i + 1 >= Tries
  PROVE  NothingLeft
<1> USE BootConstants
<1>1. BootTypes /\ Answered /\ Trying /\ Decided
  BY DEF BootInv
<1>2. wifi_sdk # W!NoSsid => wifi_answers[wifi_sdk] \in W!Refusals \cup {"silent"}
  BY <1>1 DEF BootTypes, Answered, Polling, W!Refused
<1>3. wifi_sdk # W!NoSsid /\ wifi_answers[wifi_sdk] \in W!Refusals => W!Refused
  <2>1. ~W!Refused /\ wifi_sdk # W!NoSsid => wifi_answers[wifi_sdk] = "silent"
    BY <1>1 DEF BootTypes, Answered, Polling, W!Refused
  <2> QED
    BY <2>1 DEF W!Refusals
<1>4. /\ wifi_tried.ssid \in W!Ssids /\ wifi_tried.ssid2 \in W!Ssids
      /\ wifi_tried.ssid2 = wifi_device.ssid2
  BY <1>1 DEF Trying
<1>5. CASE wifi_ap = 0
  <2>1. wifi_sdk = wifi_tried.ssid
    BY <1>1, <1>5 DEF Trying, Polling
  <2>2. ~W!Unset(wifi_tried.ssid) => wifi_answers[wifi_tried.ssid] # "accepts"
    BY <1>2, <2>1 DEF W!Unset, W!Refusals
  <2>3. ~W!Unset(wifi_tried.ssid2) => ~FirstRefuses
    BY <1>3, <1>4, <1>5, <2>1 DEF FirstRefuses, W!Refused
  <2> QED
    BY <2>2, <2>3 DEF NothingLeft
<1>6. CASE wifi_ap = 1
  <2>1. wifi_sdk = wifi_tried.ssid2 /\ FirstRefuses
    BY <1>1, <1>6 DEF Trying, Polling
  <2> QED
    BY <1>2, <2>1 DEF NothingLeft, FirstRefuses, W!Unset, W!Refusals
<1> QED
  BY <1>1, <1>5, <1>6 DEF BootTypes

(* Another try, or the access point.                                        *)
LEMMA TryAgainKeeps ==
  ASSUME BootInv, W!TryAgain PROVE BootInv'
<1> USE BootConstants
<1>1. BootTypes /\ Answered /\ Trying /\ Decided
  BY DEF BootInv
<1>2. /\ wifi_pc = "look" /\ ~(W!Refused /\ ~W!Unset(wifi_device.ssid2) /\ wifi_ap < 1)
      /\ wifi_i' = IF W!Refused THEN Tries + 1 ELSE wifi_i + 1
      /\ wifi_pc' = IF wifi_i' >= Tries THEN "ap" ELSE "poll"
      /\ UNCHANGED <<wifi_device, wifi_sdk, wifi_ap, wifi_info, wifi_mode, wifi_status, wifi_waited,
                     wifi_answers, wifi_tried, wifi_boots>>
  BY DEF W!TryAgain
<1>3. wifi_i \in 0..Tries - 1
  BY <1>1, <1>2 DEF BootTypes, Answered, Polling
<1>4. BootTypes'
  BY <1>1, <1>2, <1>3 DEF BootTypes
<1>5. Answered'
  BY <1>1, <1>2, <1>3 DEF Answered, Polling
<1>6. Trying'
  BY <1>1, <1>2 DEF Trying, Polling, FirstRefuses
<1>7. Decided'
  <2>1. wifi_pc' = "ap" => NothingLeft
    BY <1>2, TriesOver
  <2>2. NothingLeft => NothingLeft'
    BY <1>2 DEF NothingLeft, FirstRefuses
  <2>3. wifi_pc' # "done"
    BY <1>2
  <2> QED
    BY <2>1, <2>2, <2>3 DEF Decided
<1> QED
  BY <1>4, <1>5, <1>6, <1>7 DEF BootInv

(* The access point.                                                        *)
LEMMA SoftApKeeps ==
  ASSUME BootInv, W!SoftAp PROVE BootInv'
<1>1. BootTypes /\ Answered /\ Trying /\ Decided
  BY DEF BootInv
<1>2. wifi_device' \in Settings /\ wifi_device'.ssid2 = wifi_device.ssid2
  BY <1>1 DEF W!SoftAp, BootTypes, Settings
<1>3. BootTypes'
  BY <1>1, <1>2 DEF W!SoftAp, BootTypes
<1>4. Answered' /\ Trying'
  BY <1>1, <1>2 DEF W!SoftAp, Answered, Trying, Polling
<1>5. Decided'
  BY <1>1 DEF W!SoftAp, Decided, NothingLeft, FirstRefuses
<1> QED
  BY <1>3, <1>4, <1>5 DEF BootInv

(* The network answers.                                                     *)
LEMMA NetworkAnswersKeeps ==
  ASSUME BootInv, W!NetworkAnswers PROVE BootInv'
<1> USE BootConstants
<1>1. BootTypes /\ Answered /\ Trying /\ Decided
  BY DEF BootInv
<1>2. Polling /\ wifi_status = "connecting" /\ wifi_sdk \in Nets /\ wifi_answers[wifi_sdk] \in W!Behaviours
  BY <1>1 DEF W!NetworkAnswers, Polling, BootTypes, W!Ssids, W!NoSsid, Nets
<1>3. BootTypes'
  BY <1>1 DEF W!NetworkAnswers, BootTypes
<1>4. Answered'
  BY <1>1, <1>2 DEF W!NetworkAnswers, Answered, Polling, Nets, W!NoSsid, W!Behaviours, W!Refusals
<1>5. Trying' /\ Decided'
  BY <1>1 DEF W!NetworkAnswers, Trying, Decided, Polling, FirstRefuses, NothingLeft
<1> QED
  BY <1>3, <1>4, <1>5 DEF BootInv

(* Power goes off and comes back.                                           *)
LEMMA RebootKeeps ==
  ASSUME BootInv, W!Reboot PROVE BootInv'
<1> USE BootConstants
<1>1. BootTypes
  BY DEF BootInv
<1>2. BootTypes'
  BY <1>1 DEF W!Reboot, BootTypes, Nets
<1>3. Answered' /\ Trying' /\ Decided'
  BY DEF W!Reboot, Answered, Trying, Decided, Polling
<1> QED
  BY <1>2, <1>3 DEF BootInv

(* No step of the boot breaks its invariant.                                *)
LEMMA BootKeeps ==
  ASSUME BootInv, W!Next \/ UNCHANGED bootVars PROVE BootInv'
<1>1. CASE UNCHANGED bootVars
  BY <1>1 DEF bootVars, BootInv, BootTypes, Answered, Polling, Trying, FirstRefuses, Decided, NothingLeft
<1>2. CASE W!Next
  BY <1>2, StartKeeps, GotIpKeeps, DelayKeeps, TrySecondKeeps, TryAgainKeeps, SoftApKeeps,
     NetworkAnswersKeeps, RebootKeeps DEF W!Next, W!initWifi
<1> QED
  BY <1>1, <1>2

(* user_main.c: the invariant of the boot.                                  *)
THEOREM BootInvariant == Spec => [](active = "boot" => BootInv)
<1>1. Init => (active = "boot" => BootInv)
  BY BootBegins DEF Init
<1>2. (active = "boot" => BootInv) /\ [Next]_vars => (active = "boot" => BootInv)'
  <2> SUFFICES ASSUME active = "boot" => BootInv, [Next]_vars, active' = "boot"
               PROVE  BootInv'
    OBVIOUS
  <2>1. active = "boot" /\ (W!Next \/ UNCHANGED bootVars)
    BY DEF Next, vars
  <2> QED
    BY <2>1, BootKeeps
<1> QED
  BY <1>1, <1>2, PTL DEF Spec

(* initWifi: the radio becomes an access point only when the networks that  *)
(* are saved do not take it.                                                *)
THEOREM BootCorrect == Spec => []ApOnlyIfRefused
<1>1. BootInv => W!TypeOK
  BY DEF BootInv, BootTypes, Settings, W!TypeOK
<1>2. BootInv => W!ApOnlyIfRefused
  BY DEF BootInv, Decided, NothingLeft, FirstRefuses, W!ApOnlyIfRefused
<1>3. (active = "boot" => BootInv) => ApOnlyIfRefused
  BY <1>1, <1>2 DEF ApOnlyIfRefused
<1> QED
  BY <1>3, BootInvariant, PTL

-----------------------------------------------------------------------------
(* The screen: a line that scrolls begins at its beginning or where it      *)
(* fills the panel, and does not go on from there before it has waited.     *)
Row == [text : S!Texts, offset : Nat, pause : 0..ScrollPause]
InPlace(ln) ==
  /\ ln.text.len < TextSize
  /\ ln.offset = 0 \/ ln.offset + MaxChars <= ln.text.len
  /\ ln.text.len > MaxChars /\ ln.pause = 0 => ln.offset + MaxChars < ln.text.len
(* It moves with the next drawing.                                          *)
Moves(ln) == ln.offset = 0 /\ ln.pause = 0 /\ ln.text.len > MaxChars

ScreenTypes ==
  /\ scr_header \in [name : S!Texts, genre : S!Texts] /\ scr_taken \in [name : S!Texts, genre : S!Texts]
  /\ scr_localName \in S!Texts /\ scr_localStationName \in S!Texts
  /\ scr_meta \in S!Texts \X S!Texts
  /\ scr_dirty \in BOOLEAN /\ scr_activity \in BOOLEAN
  /\ scr_redrawPending \in BOOLEAN /\ scr_screensaverActive \in BOOLEAN
  /\ scr_pc \in {"wait", "show", "names", "lines", "title", "second", "draw"}
  /\ scr_secTick \in 0..TicksPerSec - 1
  /\ scr_waited \in 0..IF scr_pc = "wait" THEN SplashWait ELSE SplashTicks

Rows == scr_lines \in [S!Lines -> Row] /\ \A l \in S!Lines : InPlace(scr_lines[l])

(* What the screen shows, unless the tick knows that it does not; but for a *)
(* line that moves anyway.                                                  *)
OnScreen(l) == scr_shown.lines[l] = <<scr_lines[l].text, scr_lines[l].offset>>
Drawn ==
  ~scr_dirty =>
    /\ scr_shown.mode = "status" =>
         /\ scr_shown.volume = scr_dispVolume /\ scr_shown.time = scr_dispTime
         /\ \A l \in S!Lines : Moves(scr_lines[l]) \/ OnScreen(l)
    /\ scr_shown.mode = "saver" => scr_shown.time = scr_dispTime

(* Between the ticks.                                                       *)
Resting ==
  /\ scr_pc \in {"wait", "show"} => scr_shown.mode = "splash" /\ ~scr_screensaverActive
  /\ scr_shown.mode = "saver" <=> scr_screensaverActive
  /\ scr_pc \in {"wait", "show", "names"} => ~scr_dirty /\ ~scr_activity
  /\ scr_pc = "names" =>
       /\ scr_shown.mode = "status" => \A l \in S!Lines : OnScreen(l)
       /\ scr_screensaverActive => scr_quiet >= IdleStopped

(* The ticks that count as idle are ticks in which nothing changed.         *)
Idle ==
  /\ scr_idleTicks \in 0..IdlePlaying /\ scr_quiet \in 0..IdlePlaying
  /\ ~scr_activity => scr_idleTicks <= scr_quiet

ScreenInv == ScreenTypes /\ Rows /\ Drawn /\ Resting /\ Idle

(* The sizes and the waits of the display.                                  *)
LEMMA ScreenConstants ==
  /\ TextSize \in Nat /\ MetaSize \in Nat /\ MaxChars \in Nat /\ ScrollPause \in Nat
  /\ TicksPerSec \in Nat /\ IdlePlaying \in Nat /\ IdleStopped \in Nat
  /\ SplashWait \in Nat /\ SplashTicks \in Nat
  /\ TextSize > 0 /\ MetaSize > 0 /\ MaxChars > 0 /\ ScrollPause > 0 /\ TicksPerSec > 0
  /\ IdleStopped > 0 /\ IdleStopped <= IdlePlaying
  BY BoardAssumption DEF S!StatusScreenAssumption

(* The texts of the stations.                                               *)
LEMMA ScreenTexts ==
  /\ Names \subseteq S!Texts /\ Metas \subseteq S!Texts \X S!Texts
  /\ Headers \subseteq [name : S!Texts, genre : S!Texts]
  /\ S!Empty \in S!Texts /\ S!STOPPED \in S!Texts
<1>1. /\ Names \subseteq S!Texts /\ Metas \subseteq S!Texts \X S!Texts
      /\ Headers \subseteq [name : S!Texts, genre : S!Texts]
  BY BoardAssumption DEF S!StatusScreenAssumption
<1>2. S!Empty \in S!Texts
  BY DEF S!Texts, S!Empty
<1>3. S!STOPPED \in S!Texts
  BY DEF S!Texts, S!STOPPED
<1> QED
  BY <1>1, <1>2, <1>3

(* A text that is cut fits.                                                 *)
LEMMA CutFits ==
  ASSUME NEW text \in S!Texts, NEW size \in Nat
  PROVE  S!Cut(text, size) \in S!Texts /\ S!Cut(text, size).len <= size
  BY DEF S!Cut, S!Least, S!Texts

(* The two parts of a title.                                                *)
LEMMA SplitFits ==
  ASSUME NEW title \in S!Texts \X S!Texts
  PROVE  S!displaySplitTitle(title)[1] \in S!Texts /\ S!displaySplitTitle(title)[2] \in S!Texts
<1> USE ScreenConstants
<1>1. PICK artist \in S!Texts, rest \in S!Texts : artist = title[1] /\ rest = title[2]
  OBVIOUS
<1>2. MetaSize - 1 \in Nat /\ TextSize - 1 \in Nat
  OBVIOUS
<1>3. PICK first \in S!Texts : first = S!Cut(artist, MetaSize - 1) /\ first.len \in Nat
  BY <1>2, CutFits DEF S!Texts
<1>4. PICK room \in Int : room = MetaSize - 1 - first.len - 3
  BY <1>3
<1>5. S!displaySplitTitle(title) =
        << S!Cut(first, TextSize - 1),
           IF room > 0 /\ rest.len > 0 THEN S!Cut(S!Cut(rest, room), TextSize - 1) ELSE S!Empty >>
  BY <1>1, <1>3, <1>4 DEF S!displaySplitTitle
<1>6. S!Cut(first, TextSize - 1) \in S!Texts
  BY <1>2, <1>3, CutFits
<1>7. room > 0 => S!Cut(S!Cut(rest, room), TextSize - 1) \in S!Texts
  BY <1>2, <1>4, CutFits
<1> QED
  BY <1>5, <1>6, <1>7, ScreenTexts

(* A line that is set begins at its beginning, or is what it was.           *)
LEMMA LineSet ==
  ASSUME NEW ln \in Row, InPlace(ln), NEW text \in S!Texts
  PROVE  /\ S!displayLineSet(ln, text) \in Row /\ InPlace(S!displayLineSet(ln, text))
         /\ \/ S!displayLineSet(ln, text) = ln
            \/ S!displayLineSet(ln, text).offset = 0 /\ S!displayLineSet(ln, text).pause = 0
<1> USE ScreenConstants
<1>1. CASE ln.text = text
  BY <1>1 DEF S!displayLineSet
<1>2. CASE ln.text # text
  <2>1. TextSize - 1 \in Nat
    OBVIOUS
  <2>2. PICK new \in S!Texts : new = S!Cut(text, TextSize - 1) /\ new.len <= TextSize - 1
    BY <2>1, CutFits
  <2>3. S!displayLineSet(ln, text) = [text |-> new, offset |-> 0, pause |-> 0]
    BY <1>2, <2>2 DEF S!displayLineSet
  <2>4. [text |-> new, offset |-> 0, pause |-> 0] \in Row
    BY DEF Row
  <2>5. InPlace([text |-> new, offset |-> 0, pause |-> 0])
    BY <2>2 DEF InPlace, S!Texts
  <2> QED
    BY <2>3, <2>4, <2>5
<1> QED
  BY <1>1, <1>2

(* A line scrolls.                                                          *)
LEMMA LineScrolls ==
  ASSUME NEW ln \in Row, InPlace(ln)
  PROVE  /\ S!displayLineScroll(ln) \in Row /\ InPlace(S!displayLineScroll(ln))
         /\ S!displayLineScroll(ln).text = ln.text
         /\ Moves(ln) => S!displayLineScroll(ln).offset # ln.offset
<1> USE ScreenConstants
<1>1. ln.text \in S!Texts /\ ln.text.len \in Nat /\ ln.offset \in Nat /\ ln.pause \in 0..ScrollPause
  BY DEF Row, S!Texts
<1>2. CASE ln.text.len <= MaxChars
  <2>1. S!displayLineScroll(ln) = [ln EXCEPT !.offset = 0]
    BY <1>2 DEF S!displayLineScroll
  <2>2. [ln EXCEPT !.offset = 0] \in Row /\ [ln EXCEPT !.offset = 0].text = ln.text
    BY DEF Row
  <2>3. InPlace([ln EXCEPT !.offset = 0]) /\ ~Moves(ln)
    BY <1>1, <1>2 DEF InPlace, Moves, Row
  <2> QED
    BY <2>1, <2>2, <2>3
<1>3. CASE ln.text.len > MaxChars /\ ln.pause > 0
  <2>1. PICK offset : offset = IF ln.pause = 1 THEN 0 ELSE ln.offset
    OBVIOUS
  <2>2. PICK new : new = [ln EXCEPT !.pause = ln.pause - 1, !.offset = offset]
    OBVIOUS
  <2>3. S!displayLineScroll(ln) = new
    <3>1. ~(ln.text.len <= MaxChars) /\ ln.pause > 0
      BY <1>1, <1>3
    <3> QED
      BY <2>1, <2>2, <3>1, Zenon DEF S!displayLineScroll
  <2>4. offset \in Nat /\ ln.pause - 1 \in 0..ScrollPause
    BY <1>1, <1>3, <2>1
  <2>5. new \in Row /\ new.text = ln.text /\ new.offset = offset /\ new.pause = ln.pause - 1
    BY <2>2, <2>4 DEF Row
  <2>6. InPlace(new) /\ ~Moves(ln)
    BY <1>1, <1>3, <2>1, <2>5 DEF InPlace, Moves
  <2> QED
    BY <2>3, <2>5, <2>6
<1>4. CASE ln.text.len > MaxChars /\ ln.pause = 0
  <2>1. PICK pause : pause = IF ln.offset + 1 + MaxChars >= ln.text.len THEN ScrollPause ELSE ln.pause
    OBVIOUS
  <2>2. PICK new : new = [ln EXCEPT !.offset = ln.offset + 1, !.pause = pause]
    OBVIOUS
  <2>3. S!displayLineScroll(ln) = new
    <3>1. ~(ln.text.len <= MaxChars) /\ ~(ln.pause > 0)
      BY <1>1, <1>4
    <3> QED
      BY <2>1, <2>2, <3>1, Zenon DEF S!displayLineScroll
  <2>4. pause \in 0..ScrollPause /\ ln.offset + 1 \in Nat
    BY <1>1, <2>1
  <2>5. new \in Row /\ new.text = ln.text /\ new.offset = ln.offset + 1 /\ new.pause = pause
    BY <2>2, <2>4 DEF Row
  <2>6. ln.offset + MaxChars < ln.text.len
    BY <1>4 DEF InPlace
  <2>7. InPlace(new) /\ new.offset # ln.offset
    BY <1>1, <1>4, <2>1, <2>5, <2>6 DEF InPlace
  <2> QED
    BY <2>3, <2>5, <2>7
<1> QED
  BY <1>1, <1>2, <1>3, <1>4

(* display.c: displayInit.                                                  *)
LEMMA ScreenBegins ==
  ASSUME S!Init PROVE ScreenInv
<1> USE ScreenConstants
<1>1. PICK ln \in Row : /\ ln = [text |-> S!Empty, offset |-> 0, pause |-> 0]
                        /\ scr_lines = [l \in S!Lines |-> ln] /\ InPlace(ln)
  <2>1. PICK ln : ln = [text |-> S!Empty, offset |-> 0, pause |-> 0]
    OBVIOUS
  <2>2. ln \in Row /\ InPlace(ln)
    BY <2>1, ScreenTexts DEF Row, InPlace, S!Empty
  <2>3. scr_lines = [l \in S!Lines |-> ln]
    BY <2>1 DEF S!Init
  <2> QED
    BY <2>1, <2>2, <2>3
<1>2. Rows
  BY <1>1 DEF Rows
<1>3. ScreenTypes
  <2>1. scr_localName \in S!Texts
    BY ScreenTexts DEF S!Init
  <2>2. scr_header \in [name : S!Texts, genre : S!Texts] /\ scr_taken \in [name : S!Texts, genre : S!Texts]
    BY ScreenTexts DEF S!Init, S!NoHeader
  <2>3. scr_meta \in S!Texts \X S!Texts /\ scr_localStationName \in S!Texts
    BY ScreenTexts DEF S!Init
  <2>4. /\ scr_dirty = FALSE /\ scr_activity = FALSE /\ scr_redrawPending = TRUE
        /\ scr_screensaverActive = FALSE /\ scr_pc = "wait" /\ scr_secTick = 0 /\ scr_waited = 0
    BY DEF S!Init
  <2>5. /\ scr_dirty \in BOOLEAN /\ scr_activity \in BOOLEAN
        /\ scr_redrawPending \in BOOLEAN /\ scr_screensaverActive \in BOOLEAN
    BY <2>4, Zenon
  <2>6. /\ scr_pc = "wait" /\ scr_secTick \in 0..TicksPerSec - 1
        /\ scr_waited \in 0..SplashWait
    BY <2>4
  <2> QED
    BY <2>1, <2>2, <2>3, <2>5, <2>6 DEF ScreenTypes
<1>4. Drawn /\ Resting /\ Idle
  <2>1. scr_shown.mode = "splash"
    BY DEF S!Init, S!Splash
  <2>2. /\ scr_dirty = FALSE /\ scr_activity = FALSE /\ scr_screensaverActive = FALSE
        /\ scr_pc = "wait" /\ scr_idleTicks = 0 /\ scr_quiet = 0
    BY DEF S!Init
  <2> QED
    BY <2>1, <2>2 DEF Drawn, Resting, Idle
<1> QED
  BY <1>2, <1>3, <1>4 DEF ScreenInv

(* The splash waits for an address.                                         *)
LEMMA SplashWaitsKeeps ==
  ASSUME ScreenInv, S!SplashWaits PROVE ScreenInv'
<1> USE ScreenConstants
<1>1. ScreenTypes /\ Rows /\ Drawn /\ Resting /\ Idle
  BY DEF ScreenInv
<1>2. /\ scr_pc = "wait" /\ scr_shown' \in {scr_shown, S!Splash} /\ scr_pc' \in {"wait", "show"}
      /\ scr_waited' \in 0..IF scr_pc' = "wait" THEN SplashWait ELSE SplashTicks
  BY <1>1 DEF S!SplashWaits, ScreenTypes
<1>3. ScreenTypes' /\ Rows' /\ Idle'
  BY <1>1, <1>2 DEF S!SplashWaits, S!sources, S!status, ScreenTypes, Rows, Idle
<1>4. scr_shown'.mode = "splash"
  BY <1>1, <1>2 DEF Resting, S!Splash
<1>5. Drawn' /\ Resting'
  BY <1>1, <1>2, <1>4 DEF S!SplashWaits, S!status, Drawn, Resting
<1> QED
  BY <1>3, <1>5 DEF ScreenInv

(* The splash stays for a while.                                            *)
LEMMA SplashShowsKeeps ==
  ASSUME ScreenInv, S!SplashShows PROVE ScreenInv'
<1> USE ScreenConstants
<1>1. ScreenTypes /\ Rows /\ Drawn /\ Resting /\ Idle
  BY DEF ScreenInv
<1>2. /\ scr_pc = "show" /\ scr_shown' = S!Splash /\ scr_pc' \in {"show", "names"}
      /\ scr_waited' \in 0..SplashTicks
  BY <1>1 DEF S!SplashShows, ScreenTypes
<1>3. ScreenTypes' /\ Rows' /\ Idle'
  BY <1>1, <1>2 DEF S!SplashShows, S!sources, S!status, ScreenTypes, Rows, Idle
<1>4. scr_shown'.mode = "splash"
  BY <1>2 DEF S!Splash
<1>5. Drawn' /\ Resting'
  BY <1>1, <1>2, <1>4 DEF S!SplashShows, S!status, Drawn, Resting
<1> QED
  BY <1>3, <1>5 DEF ScreenInv

(* The tick takes the names.                                                *)
LEMMA TakeNamesKeeps ==
  ASSUME ScreenInv, S!TakeNames PROVE ScreenInv'
<1> USE ScreenConstants
<1>1. ScreenTypes /\ Rows /\ Drawn /\ Resting /\ Idle
  BY DEF ScreenInv
<1>2. scr_localStationName' \in S!Texts
  <2>1. TextSize - 1 \in Nat /\ scr_localName \in S!Texts
    BY <1>1 DEF ScreenTypes
  <2> QED
    BY <2>1, CutFits DEF S!TakeNames
<1>3. scr_taken' \in [name : S!Texts, genre : S!Texts]
  BY <1>1, <1>2 DEF S!TakeNames, ScreenTypes
<1>4. ScreenTypes'
  BY <1>1, <1>2, <1>3 DEF S!TakeNames, S!sources, ScreenTypes
<1>5. Rows' /\ Idle'
  BY <1>1 DEF S!TakeNames, Rows, Idle, Resting
<1>6. Drawn' /\ Resting'
  BY <1>1 DEF S!TakeNames, Drawn, Resting, OnScreen
<1> QED
  BY <1>4, <1>5, <1>6 DEF ScreenInv

(* Lines that are set, for a tick that then knows whether they changed.     *)
Reset(new) ==
  /\ new \in [S!Lines -> Row]
  /\ \A l \in S!Lines :
       /\ InPlace(new[l])
       /\ new[l] = scr_lines[l] \/ (new[l].offset = 0 /\ new[l].pause = 0)

(* What is shown is what there is when no text changes.                     *)
LEMMA ChangedKeeps ==
  ASSUME ScreenInv, NEW new, Reset(new), S!Changed(new),
         scr_pc \in {"lines", "title"}, scr_pc' \in {"title", "second"},
         UNCHANGED <<scr_shown, scr_dispVolume, scr_dispTime, scr_screensaverActive, scr_idleTicks>>
  PROVE  /\ Rows' /\ Drawn' /\ Resting' /\ Idle' /\ scr_dirty' \in BOOLEAN /\ scr_activity' \in BOOLEAN
<1> USE ScreenConstants
<1>1. ScreenTypes /\ Rows /\ Drawn /\ Resting /\ Idle
  BY DEF ScreenInv
<1>2. PICK changed \in BOOLEAN :
        /\ changed = (\E l \in S!Lines : scr_lines[l].text # new[l].text)
        /\ scr_lines' = new
        /\ scr_dirty' = (scr_dirty \/ changed) /\ scr_activity' = (scr_activity \/ changed)
        /\ scr_quiet' = IF changed THEN 0 ELSE scr_quiet
  BY Zenon DEF S!Changed
<1>3. Rows'
  <2>1. new \in [S!Lines -> Row] /\ \A l \in S!Lines : InPlace(new[l])
    BY Zenon DEF Reset
  <2> QED
    BY <1>2, <2>1 DEF Rows, InPlace
<1>4. scr_dirty' \in BOOLEAN /\ scr_activity' \in BOOLEAN
  BY <1>2
<1>5. Idle'
  <2>1. \/ scr_quiet' = 0 /\ scr_activity'
        \/ scr_quiet' = scr_quiet /\ (scr_activity' <=> scr_activity)
    BY <1>2, Zenon
  <2> QED
    BY <1>1, <2>1 DEF Idle
<1>6. Resting'
  BY <1>1 DEF Resting
<1>7. ASSUME ~scr_dirty', NEW l \in S!Lines, Moves(scr_lines[l]) \/ OnScreen(l)
      PROVE  Moves(new[l]) \/ scr_shown'.lines[l] = <<new[l].text, new[l].offset>>
  <2>1. new[l].text = scr_lines[l].text
    BY <1>2, <1>7
  <2>2. new[l] \in Row /\ scr_lines[l] \in Row /\ InPlace(scr_lines[l])
    BY <1>1 DEF Reset, Rows
  <2>3. CASE new[l] = scr_lines[l]
    BY <1>7, <2>3 DEF OnScreen
  <2>4. CASE new[l].offset = 0 /\ new[l].pause = 0 /\ new[l].text.len > MaxChars
    BY <2>4 DEF Moves
  <2>5. CASE new[l].offset = 0 /\ ~(new[l].text.len > MaxChars)
    <3>1. scr_lines[l].offset = 0 /\ ~Moves(scr_lines[l])
      BY <2>1, <2>2, <2>5 DEF InPlace, Moves, Row, S!Texts
    <3> QED
      BY <1>7, <2>1, <2>5, <3>1 DEF OnScreen
  <2> QED
    BY <2>3, <2>4, <2>5 DEF Reset
<1>8. Drawn'
  <2> SUFFICES ASSUME ~scr_dirty'
               PROVE  /\ scr_shown'.mode = "status" =>
                           /\ scr_shown'.volume = scr_dispVolume' /\ scr_shown'.time = scr_dispTime'
                           /\ \A l \in S!Lines : \/ Moves(scr_lines'[l])
                                                 \/ scr_shown'.lines[l] = <<scr_lines'[l].text, scr_lines'[l].offset>>
                      /\ scr_shown'.mode = "saver" => scr_shown'.time = scr_dispTime'
    BY DEF Drawn, Moves, OnScreen
  <2>1. ~scr_dirty
    BY <1>2
  <2> QED
    BY <1>1, <1>2, <1>7, <2>1 DEF Drawn
<1> QED
  BY <1>3, <1>4, <1>5, <1>6, <1>8

(* Two lines that are set.                                                  *)
LEMMA TwoReset ==
  ASSUME ScreenInv, NEW k \in S!Lines, NEW m \in S!Lines, k # m, NEW text \in S!Texts, NEW more \in S!Texts
  PROVE  Reset([scr_lines EXCEPT ![k] = S!displayLineSet(@, text), ![m] = S!displayLineSet(@, more)])
<1>1. Rows
  BY DEF ScreenInv
<1>2. PICK x : x = S!displayLineSet(scr_lines[k], text)
  OBVIOUS
<1>3. PICK y : y = S!displayLineSet(scr_lines[m], more)
  OBVIOUS
<1>4. /\ scr_lines[k] \in Row /\ InPlace(scr_lines[k]) /\ scr_lines[m] \in Row /\ InPlace(scr_lines[m])
  BY <1>1 DEF Rows
<1>5. x \in Row /\ InPlace(x) /\ (x = scr_lines[k] \/ (x.offset = 0 /\ x.pause = 0))
  BY <1>2, <1>4, LineSet
<1>6. y \in Row /\ InPlace(y) /\ (y = scr_lines[m] \/ (y.offset = 0 /\ y.pause = 0))
  BY <1>3, <1>4, LineSet
<1>7. Reset([scr_lines EXCEPT ![k] = x, ![m] = y])
  BY <1>1, <1>5, <1>6 DEF Rows, Reset
<1>8. [scr_lines EXCEPT ![k] = S!displayLineSet(@, text), ![m] = S!displayLineSet(@, more)]
        = [scr_lines EXCEPT ![k] = x, ![m] = y]
  BY <1>1, <1>2, <1>3 DEF Rows
<1> QED
  BY <1>7, <1>8

(* The station's lines are set.                                             *)
LEMMA SetNamesKeeps ==
  ASSUME ScreenInv, S!SetNames PROVE ScreenInv'
<1>1. ScreenTypes
  BY DEF ScreenInv
<1>2. PICK new : /\ new = [scr_lines EXCEPT !["station"] = S!displayLineSet(@, scr_taken.name),
                                            !["genre"] = S!displayLineSet(@, scr_taken.genre)]
                 /\ S!Changed(new)
  BY DEF S!SetNames
<1>3. Reset(new)
  <2>1. scr_taken.name \in S!Texts /\ scr_taken.genre \in S!Texts
    BY <1>1 DEF ScreenTypes
  <2>2. "station" \in S!Lines /\ "genre" \in S!Lines /\ "station" # "genre"
    BY DEF S!Lines
  <2> QED
    BY <1>2, <2>1, <2>2, TwoReset
<1>4. Rows' /\ Drawn' /\ Resting' /\ Idle' /\ scr_dirty' \in BOOLEAN /\ scr_activity' \in BOOLEAN
  BY <1>2, <1>3, ChangedKeeps DEF S!SetNames, S!status
<1>5. ScreenTypes'
  BY <1>1, <1>4 DEF S!SetNames, S!sources, S!status, ScreenTypes
<1> QED
  BY <1>4, <1>5 DEF ScreenInv

(* The lines of the title are set.                                          *)
LEMMA SetTitleKeeps ==
  ASSUME ScreenInv, S!SetTitle PROVE ScreenInv'
<1>1. ScreenTypes
  BY DEF ScreenInv
<1>2. PICK title : title = IF scr_playing THEN scr_meta ELSE <<S!STOPPED, S!Empty>>
  OBVIOUS
<1>3. title \in S!Texts \X S!Texts
  BY <1>1, <1>2, ScreenTexts DEF ScreenTypes
<1>4. PICK new : /\ new = [scr_lines EXCEPT !["title1"] = S!displayLineSet(@, S!displaySplitTitle(title)[1]),
                                            !["title2"] = S!displayLineSet(@, S!displaySplitTitle(title)[2])]
                 /\ S!Changed(new)
  BY <1>2 DEF S!SetTitle
<1>5. Reset(new)
  <2>1. S!displaySplitTitle(title)[1] \in S!Texts /\ S!displaySplitTitle(title)[2] \in S!Texts
    BY <1>3, SplitFits
  <2>2. "title1" \in S!Lines /\ "title2" \in S!Lines /\ "title1" # "title2"
    BY DEF S!Lines
  <2> QED
    BY <1>4, <2>1, <2>2, TwoReset
<1>6. Rows' /\ Drawn' /\ Resting' /\ Idle' /\ scr_dirty' \in BOOLEAN /\ scr_activity' \in BOOLEAN
  BY <1>4, <1>5, ChangedKeeps DEF S!SetTitle, S!status
<1>7. ScreenTypes'
  BY <1>1, <1>6 DEF S!SetTitle, S!sources, S!status, ScreenTypes
<1> QED
  BY <1>6, <1>7 DEF ScreenInv

(* The volume and the time are looked at.                                   *)
LEMMA OncePerSecondKeeps ==
  ASSUME ScreenInv, S!OncePerSecond PROVE ScreenInv'
<1> USE ScreenConstants
<1>1. ScreenTypes /\ Rows /\ Drawn /\ Resting /\ Idle
  BY DEF ScreenInv
<1>2. scr_pc = "second" /\ scr_pc' = "draw"
  BY DEF S!OncePerSecond
<1>3. UNCHANGED <<scr_lines, scr_localStationName, scr_redrawPending, scr_idleTicks,
                  scr_screensaverActive, scr_waited, scr_taken, scr_shown, scr_header, scr_localName, scr_meta>>
  BY DEF S!OncePerSecond, S!sources
<1>4. CASE scr_secTick + 1 >= TicksPerSec
  <2>1. /\ scr_secTick' = 0
        /\ scr_dirty' = (scr_dirty \/ scr_dispVolume' # scr_dispVolume \/ scr_dispTime' # scr_dispTime)
        /\ scr_activity' = (scr_activity \/ scr_dispVolume' # scr_dispVolume)
        /\ scr_quiet' = IF scr_dispVolume' # scr_dispVolume THEN 0 ELSE scr_quiet
    BY <1>4 DEF S!OncePerSecond
  <2>2. scr_dirty' \in BOOLEAN /\ scr_activity' \in BOOLEAN
    BY <2>1, Zenon
  <2>3. ~scr_dirty' => ~scr_dirty /\ scr_dispVolume' = scr_dispVolume /\ scr_dispTime' = scr_dispTime
    BY <2>1, Zenon
  <2>4. \/ scr_quiet' = 0 /\ scr_activity'
        \/ scr_quiet' = scr_quiet /\ (scr_activity' <=> scr_activity)
    BY <2>1, Zenon
  <2>5. ScreenTypes'
    BY <1>1, <1>2, <1>3, <2>1, <2>2 DEF ScreenTypes
  <2>6. Rows' /\ Resting'
    BY <1>1, <1>2, <1>3 DEF Rows, InPlace, Resting
  <2>7. Drawn'
    BY <1>1, <1>3, <2>3 DEF Drawn, Moves, OnScreen
  <2>8. Idle'
    BY <1>1, <1>3, <2>4 DEF Idle
  <2> QED
    BY <2>5, <2>6, <2>7, <2>8 DEF ScreenInv
<1>5. CASE ~(scr_secTick + 1 >= TicksPerSec)
  <2>1. /\ scr_secTick' = scr_secTick + 1
        /\ UNCHANGED <<scr_dispVolume, scr_dispTime, scr_dirty, scr_activity, scr_quiet>>
    BY <1>5 DEF S!OncePerSecond
  <2>2. ScreenTypes'
    BY <1>1, <1>2, <1>3, <1>5, <2>1 DEF ScreenTypes
  <2>3. Rows' /\ Resting'
    BY <1>1, <1>2, <1>3 DEF Rows, InPlace, Resting
  <2>4. Drawn' /\ Idle'
    BY <1>1, <1>3, <2>1 DEF Drawn, Moves, OnScreen, Idle
  <2> QED
    BY <2>2, <2>3, <2>4 DEF ScreenInv
<1> QED
  BY <1>4, <1>5

(* The lines scroll and what has changed is drawn.                          *)
LEMMA DrawKeeps ==
  ASSUME ScreenInv, S!Draw PROVE ScreenInv'
<1> USE ScreenConstants
<1>1. ScreenTypes /\ Rows /\ Drawn /\ Resting /\ Idle
  BY DEF ScreenInv
<1>2. /\ scr_pc = "draw" /\ scr_pc' = "names" /\ scr_dirty' = FALSE /\ scr_activity' = FALSE
      /\ UNCHANGED <<scr_dispVolume, scr_dispTime, scr_localStationName, scr_redrawPending, scr_secTick,
                     scr_waited, scr_taken, scr_header, scr_localName, scr_meta>>
  BY DEF S!Draw, S!status, S!sources
<1>3. /\ scr_lines' \in [S!Lines -> Row]
      /\ \A l \in S!Lines : /\ InPlace(scr_lines'[l]) /\ scr_lines'[l].text = scr_lines[l].text
                            /\ Moves(scr_lines[l]) => scr_lines'[l].offset # scr_lines[l].offset
  <2>1. \A l \in S!Lines : scr_lines[l] \in Row /\ InPlace(scr_lines[l])
    BY <1>1 DEF Rows
  <2>2. scr_lines' = [l \in S!Lines |-> S!displayLineScroll(scr_lines[l])]
    BY DEF S!Draw
  <2>3. \A l \in S!Lines : scr_lines'[l] = S!displayLineScroll(scr_lines[l])
    BY <2>2
  <2>4. \A l \in S!Lines : S!displayLineScroll(scr_lines[l]) \in Row
    BY <2>1, LineScrolls
  <2>5. scr_lines' \in [S!Lines -> Row]
    BY <2>2, <2>4
  <2> QED
    BY <2>1, <2>3, <2>5, LineScrolls
<1>4. Rows'
  BY <1>3 DEF Rows, InPlace
<1>5. PICK threshold \in {IdlePlaying, IdleStopped} :
        /\ scr_idleTicks' = IF scr_activity THEN 0
                            ELSE IF scr_idleTicks < threshold THEN scr_idleTicks + 1 ELSE scr_idleTicks
        /\ scr_screensaverActive' = (scr_idleTicks' >= threshold)
  BY DEF S!Draw, S!IdleCount, S!Threshold
<1>6. scr_screensaverActive' \in BOOLEAN /\ (scr_screensaverActive' <=> scr_idleTicks' >= threshold)
  <2>1. scr_idleTicks' \in Nat /\ threshold \in Nat
    BY <1>1, <1>5 DEF Idle
  <2>2. CASE scr_idleTicks' >= threshold
    <3>1. (scr_idleTicks' >= threshold) = TRUE
      BY <2>1, <2>2
    <3> QED
      BY <1>5, <3>1
  <2>3. CASE ~(scr_idleTicks' >= threshold)
    <3>1. (scr_idleTicks' >= threshold) = FALSE
      BY <2>1, <2>3
    <3> QED
      BY <1>5, <3>1
  <2> QED
    BY <2>2, <2>3
<1>7. ScreenTypes'
  BY <1>1, <1>2, <1>6 DEF ScreenTypes
<1>8. scr_quiet' \in Nat /\ scr_quiet' <= IdlePlaying /\ scr_idleTicks' \in Nat /\ scr_idleTicks' <= scr_quiet'
  <2>1. scr_quiet' = IF scr_quiet + 1 <= IdlePlaying THEN scr_quiet + 1 ELSE IdlePlaying
    BY DEF S!Draw, S!Least
  <2>2. /\ scr_idleTicks \in 0..IdlePlaying /\ scr_quiet \in 0..IdlePlaying
        /\ ~scr_activity => scr_idleTicks <= scr_quiet
    BY <1>1 DEF Idle
  <2>3. \/ scr_idleTicks' = 0
        \/ ~scr_activity /\ scr_idleTicks' \in {scr_idleTicks, scr_idleTicks + 1} /\ scr_idleTicks' <= IdlePlaying
    BY <1>5, <2>2
  <2> QED
    BY <2>1, <2>2, <2>3
<1>9. Idle'
  BY <1>8 DEF Idle
<1>10. scr_screensaverActive' => scr_quiet' >= IdleStopped
  BY <1>5, <1>6, <1>8
<1>11. /\ scr_shown'.mode = "status" =>
            /\ scr_shown'.volume = scr_dispVolume /\ scr_shown'.time = scr_dispTime
            /\ \A l \in S!Lines : scr_shown'.lines[l] = <<scr_lines'[l].text, scr_lines'[l].offset>>
       /\ scr_shown'.mode = "saver" => scr_shown'.time = scr_dispTime
       /\ scr_shown'.mode = "saver" <=> scr_screensaverActive'
  <2>1. CASE \/ scr_dirty \/ scr_screensaverActive' # scr_screensaverActive
             \/ \E l \in S!Lines : scr_lines'[l].offset # scr_lines[l].offset
    <3>1. scr_shown' = IF scr_screensaverActive' THEN S!Saver ELSE S!Screen(scr_lines')
      BY <2>1 DEF S!Draw
    <3> QED
      BY <1>6, <3>1 DEF S!Saver, S!Screen
  <2>2. CASE ~(\/ scr_dirty \/ scr_screensaverActive' # scr_screensaverActive
               \/ \E l \in S!Lines : scr_lines'[l].offset # scr_lines[l].offset)
    <3>1. scr_shown' = scr_shown /\ ~scr_dirty /\ scr_screensaverActive' = scr_screensaverActive
      BY <2>2 DEF S!Draw
    <3>2. \A l \in S!Lines : ~Moves(scr_lines[l]) /\ scr_lines'[l].offset = scr_lines[l].offset
      BY <1>3, <2>2
    <3> QED
      BY <1>1, <1>3, <3>1, <3>2 DEF Drawn, Resting, OnScreen
  <2> QED
    BY <2>1, <2>2
<1>12. Resting'
  BY <1>2, <1>10, <1>11 DEF Resting, OnScreen
<1>13. Drawn'
  BY <1>2, <1>11 DEF Drawn, OnScreen
<1> QED
  BY <1>4, <1>7, <1>9, <1>12, <1>13 DEF ScreenInv

(* A station says who it is.                                                *)
LEMMA HeaderComesKeeps ==
  ASSUME ScreenInv, NEW h \in Headers, S!HeaderComes(h) PROVE ScreenInv'
<1>1. ScreenTypes /\ Rows /\ Drawn /\ Resting /\ Idle
  BY DEF ScreenInv
<1>2. ScreenTypes'
  BY <1>1, ScreenTexts DEF S!HeaderComes, S!status, ScreenTypes
<1>3. Rows' /\ Drawn' /\ Resting' /\ Idle'
  BY <1>1 DEF S!HeaderComes, S!status, Rows, InPlace, Drawn, Moves, OnScreen, Resting, Idle
<1> QED
  BY <1>2, <1>3 DEF ScreenInv

(* Something else changes.                                                  *)
LEMMA StateChangesKeeps ==
  ASSUME ScreenInv, S!StateChanges \/ S!ClockTicks PROVE ScreenInv'
<1>1. ScreenTypes /\ Rows /\ Drawn /\ Resting /\ Idle
  BY DEF ScreenInv
<1>2. /\ scr_meta' \in Metas \cup {scr_meta} /\ scr_localName' \in Names \cup {scr_localName}
      /\ UNCHANGED <<scr_header, scr_lines, scr_dispVolume, scr_dispTime, scr_localStationName,
                     scr_redrawPending, scr_secTick, scr_idleTicks, scr_screensaverActive, scr_pc,
                     scr_waited, scr_taken, scr_dirty, scr_activity, scr_shown, scr_quiet>>
  BY DEF S!StateChanges, S!ClockTicks, S!status
<1>3. ScreenTypes'
  BY <1>1, <1>2, ScreenTexts DEF ScreenTypes
<1>4. Rows' /\ Drawn' /\ Resting' /\ Idle'
  BY <1>1, <1>2 DEF Rows, InPlace, Drawn, Moves, OnScreen, Resting, Idle
<1> QED
  BY <1>3, <1>4 DEF ScreenInv

(* No step of the display or of the others breaks its invariant.            *)
LEMMA ScreenKeeps ==
  ASSUME ScreenInv, S!Next \/ UNCHANGED screenVars PROVE ScreenInv'
<1>1. CASE UNCHANGED screenVars
  BY <1>1 DEF screenVars, ScreenInv, ScreenTypes, Rows, InPlace, Drawn, Moves, OnScreen, Resting, Idle
<1>2. CASE S!Next
  BY <1>2, SplashWaitsKeeps, SplashShowsKeeps, TakeNamesKeeps, SetNamesKeeps, SetTitleKeeps,
     OncePerSecondKeeps, DrawKeeps, HeaderComesKeeps, StateChangesKeeps DEF S!Next, S!Task
<1> QED
  BY <1>1, <1>2

(* display.c: the invariant of the display.                                 *)
THEOREM ScreenInvariant == Spec => [](active = "screen" => ScreenInv)
<1>1. Init => (active = "screen" => ScreenInv)
  BY ScreenBegins DEF Init
<1>2. (active = "screen" => ScreenInv) /\ [Next]_vars => (active = "screen" => ScreenInv)'
  <2> SUFFICES ASSUME active = "screen" => ScreenInv, [Next]_vars, active' = "screen"
               PROVE  ScreenInv'
    OBVIOUS
  <2>1. active = "screen" /\ (S!Next \/ UNCHANGED screenVars)
    BY DEF Next, vars
  <2> QED
    BY <2>1, ScreenKeeps
<1> QED
  BY <1>1, <1>2, PTL DEF Spec

(* display.c: the screen shows what the last tick found.                    *)
THEOREM ScreenCorrect == Spec => []ScreenIsCurrent
<1>1. ScreenInv => S!TypeOK
  <2> SUFFICES ASSUME ScreenInv PROVE S!TypeOK
    OBVIOUS
  <2>1. scr_waited \in 0..SplashWait + SplashTicks
    BY ScreenConstants DEF ScreenInv, ScreenTypes
  <2> QED
    BY <2>1 DEF ScreenInv, ScreenTypes, Rows, Row, InPlace, Idle, S!TypeOK
<1>2. ScreenInv => S!ScreenIsCurrent
  <2> SUFFICES ASSUME ScreenInv, scr_pc = "names" PROVE S!ScreenIsCurrent
    BY DEF S!ScreenIsCurrent
  <2>1. (scr_shown.mode = "saver") = scr_screensaverActive
    BY DEF ScreenInv, ScreenTypes, Resting
  <2>2. \A l \in S!Lines : scr_lines[l].offset = 0 \/ scr_lines[l].offset + MaxChars <= scr_lines[l].text.len
    BY DEF ScreenInv, Rows, InPlace
  <2>3. ~scr_dirty
    BY DEF ScreenInv, Resting
  <2> QED
    BY <2>1, <2>2, <2>3 DEF ScreenInv, Drawn, Resting, OnScreen, S!ScreenIsCurrent
<1>3. (active = "screen" => ScreenInv) => ScreenIsCurrent
  BY <1>1, <1>2 DEF ScreenIsCurrent
<1> QED
  BY <1>3, ScreenInvariant, PTL

-----------------------------------------------------------------------------
(* The time zone: dates.                                                    *)
Date(t) ==
  /\ t \in [tm_mon : 0..11, tm_mday : 1..31, tm_wday : 0..6, tm_hour : 0..23]
  /\ t.tm_mday <= Z!DaysIn(t.tm_mon)
ZoneInv == Date(time) /\ tzo \in -12..14

(* The days of a month.                                                     *)
LEMMA MonthDays ==
  ASSUME NEW mon \in 0..11
  PROVE  /\ Z!DaysIn(mon) \in 28..31
         /\ mon \in {2, 9} => Z!DaysIn(mon) = 31
  BY DEF Z!DaysIn

(* A date is given by its parts.                                            *)
LEMMA TmParts ==
  ASSUME NEW mon, NEW mday, NEW wday, NEW hour, NEW m, NEW d, NEW w, NEW h,
         Z!Tm(mon, mday, wday, hour) = Z!Tm(m, d, w, h)
  PROVE  mon = m /\ mday = d /\ wday = w /\ hour = h
  BY DEF Z!Tm

(* What mktime makes of an hour that is up to a day off.                    *)
LEMMA CarriesDay ==
  ASSUME NEW mon \in 0..11, NEW mday \in 1..31, NEW wday \in 0..6, NEW hour \in Int,
         -24 <= hour, hour <= 47, mday <= Z!DaysIn(mon)
  PROVE  Date(Z!mktime(Z!Tm(mon, mday, wday, hour)))
<1>1. CASE hour > 23
  <2>1. Z!mktime(Z!Tm(mon, mday, wday, hour)) = Z!NextDay(Z!Tm(mon, mday, wday, hour))
    BY <1>1 DEF Z!mktime, Z!Tm
  <2>2. CASE mday < Z!DaysIn(mon)
    <3>1. Z!NextDay(Z!Tm(mon, mday, wday, hour)) = Z!Tm(mon, mday + 1, (wday + 1) % 7, hour - 24)
      BY <2>2 DEF Z!NextDay, Z!Tm
    <3>2. mday + 1 \in 1..31 /\ mday + 1 <= Z!DaysIn(mon) /\ (wday + 1) % 7 \in 0..6 /\ hour - 24 \in 0..23
      BY <1>1, <2>2, MonthDays
    <3> QED
      BY <2>1, <3>1, <3>2 DEF Date, Z!Tm
  <2>3. CASE ~(mday < Z!DaysIn(mon))
    <3>1. Z!NextDay(Z!Tm(mon, mday, wday, hour)) = Z!Tm((mon + 1) % 12, 1, (wday + 1) % 7, hour - 24)
      BY <2>3 DEF Z!NextDay, Z!Tm
    <3>2. (mon + 1) % 12 \in 0..11 /\ (wday + 1) % 7 \in 0..6 /\ hour - 24 \in 0..23
      BY <1>1
    <3>3. 1 <= Z!DaysIn((mon + 1) % 12)
      BY <3>2, MonthDays
    <3> QED
      BY <2>1, <3>1, <3>2, <3>3 DEF Date, Z!Tm
  <2> QED
    BY <2>2, <2>3
<1>2. CASE hour < 0
  <2>1. Z!mktime(Z!Tm(mon, mday, wday, hour)) = Z!DayBefore(Z!Tm(mon, mday, wday, hour))
    BY <1>2 DEF Z!mktime, Z!Tm
  <2>2. CASE mday > 1
    <3>1. Z!DayBefore(Z!Tm(mon, mday, wday, hour)) = Z!Tm(mon, mday - 1, (wday + 6) % 7, hour + 24)
      BY <2>2 DEF Z!DayBefore, Z!Tm
    <3>2. mday - 1 \in 1..31 /\ mday - 1 <= Z!DaysIn(mon) /\ (wday + 6) % 7 \in 0..6 /\ hour + 24 \in 0..23
      BY <1>2, <2>2, MonthDays
    <3> QED
      BY <2>1, <3>1, <3>2 DEF Date, Z!Tm
  <2>3. CASE ~(mday > 1)
    <3>1. PICK m \in 0..11 : m = (mon + 11) % 12
      OBVIOUS
    <3>2. Z!DayBefore(Z!Tm(mon, mday, wday, hour)) = Z!Tm(m, Z!DaysIn(m), (wday + 6) % 7, hour + 24)
      BY <2>3, <3>1 DEF Z!DayBefore, Z!Tm
    <3>3. Z!DaysIn(m) \in 1..31 /\ (wday + 6) % 7 \in 0..6 /\ hour + 24 \in 0..23
      BY <1>2, MonthDays
    <3> QED
      BY <2>1, <3>2, <3>3 DEF Date, Z!Tm
  <2> QED
    BY <2>2, <2>3
<1>3. CASE hour \in 0..23
  BY <1>3 DEF Z!mktime, Date, Z!Tm
<1> QED
  BY <1>1, <1>2, <1>3

(* A date some hours later is the date of that hour.                        *)
LEMMA LaterIs ==
  ASSUME NEW t, Date(t), NEW hours \in Int
  PROVE  Z!Later(t, hours) = Z!mktime(Z!Tm(t.tm_mon, t.tm_mday, t.tm_wday, t.tm_hour + hours))
<1>1. [t EXCEPT !.tm_hour = @ + hours] = Z!Tm(t.tm_mon, t.tm_mday, t.tm_wday, t.tm_hour + hours)
  BY DEF Date, Z!Tm
<1> QED
  BY <1>1 DEF Z!Later

(* Some hours later it is a date.                                           *)
LEMMA LaterDate ==
  ASSUME NEW t, Date(t), NEW hours \in -23..23 PROVE Date(Z!Later(t, hours))
<1>1. PICK mon \in 0..11 : mon = t.tm_mon
  BY DEF Date
<1>2. PICK mday \in 1..31 : mday = t.tm_mday /\ mday <= Z!DaysIn(mon)
  BY <1>1 DEF Date
<1>3. PICK wday \in 0..6 : wday = t.tm_wday
  BY DEF Date
<1>4. PICK hour \in Int : hour = t.tm_hour + hours /\ -24 <= hour /\ hour <= 47
  BY DEF Date
<1>5. Date(Z!mktime(Z!Tm(mon, mday, wday, hour)))
  BY <1>2, <1>4, CarriesDay
<1>6. Z!Later(t, hours) = Z!mktime(Z!Tm(mon, mday, wday, hour))
  BY <1>1, <1>2, <1>3, <1>4, LaterIs
<1> QED
  BY <1>5, <1>6

(* An hour later than some hours later is an hour more.                     *)
LEMMA HourMore ==
  ASSUME NEW t, Date(t), NEW hours \in -12..14
  PROVE  Z!Later(Z!Later(t, hours), 1) = Z!Later(t, hours + 1)
<1>1. PICK mon \in 0..11, mday \in 1..31, wday \in 0..6, hour \in Int :
        /\ mon = t.tm_mon /\ mday = t.tm_mday /\ wday = t.tm_wday /\ hour = t.tm_hour + hours
        /\ -12 <= hour /\ hour <= 37 /\ mday <= Z!DaysIn(mon)
  <2>1. PICK hour \in Int : hour = t.tm_hour + hours /\ -12 <= hour /\ hour <= 37
    BY DEF Date
  <2>2. /\ t.tm_mon \in 0..11 /\ t.tm_mday \in 1..31 /\ t.tm_wday \in 0..6
        /\ t.tm_mday <= Z!DaysIn(t.tm_mon)
    BY DEF Date
  <2> QED
    BY <2>1, <2>2, Zenon
<1>2. /\ Z!Later(t, hours) = Z!mktime(Z!Tm(mon, mday, wday, hour))
      /\ Z!Later(t, hours + 1) = Z!mktime(Z!Tm(mon, mday, wday, hour + 1))
  <2>1. hours + 1 \in Int /\ t.tm_hour + (hours + 1) = hour + 1
    BY <1>1 DEF Date
  <2> QED
    BY <1>1, <2>1, LaterIs
<1>3. PICK later : later = Z!mktime(Z!Tm(mon, mday, wday, hour)) /\ Date(later)
  <2>1. -24 <= hour /\ hour <= 47
    BY <1>1
  <2> QED
    BY <1>1, <2>1, CarriesDay
<1>4. Z!Later(later, 1) = Z!mktime(Z!Tm(later.tm_mon, later.tm_mday, later.tm_wday, later.tm_hour + 1))
  BY <1>3, LaterIs
<1>5. CASE hour \in 0..23
  <2>1. later = Z!Tm(mon, mday, wday, hour)
    BY <1>3, <1>5 DEF Z!mktime, Z!Tm
  <2> QED
    BY <1>2, <1>3, <1>4, <2>1 DEF Z!Tm
<1>6. CASE hour > 23
  <2>1. PICK m, d, w : /\ \A h \in Int : Z!NextDay(Z!Tm(mon, mday, wday, h)) = Z!Tm(m, d, w, h - 24)
    BY DEF Z!NextDay, Z!Tm
  <2>2. later = Z!Tm(m, d, w, hour - 24)
    BY <1>3, <1>6, <2>1 DEF Z!mktime, Z!Tm
  <2>3. Z!mktime(Z!Tm(mon, mday, wday, hour + 1)) = Z!Tm(m, d, w, hour + 1 - 24)
    BY <1>6, <2>1 DEF Z!mktime, Z!Tm
  <2>4. Z!Later(later, 1) = Z!mktime(Z!Tm(m, d, w, hour - 24 + 1))
    BY <1>4, <2>2 DEF Z!Tm
  <2>5. Z!mktime(Z!Tm(m, d, w, hour - 24 + 1)) = Z!Tm(m, d, w, hour - 24 + 1)
    BY <1>1, <1>6 DEF Z!mktime, Z!Tm
  <2>6. hour - 24 + 1 = hour + 1 - 24
    OBVIOUS
  <2> QED
    BY <1>2, <1>3, <2>3, <2>4, <2>5, <2>6
<1>7. CASE hour < 0
  <2>1. PICK m, d, w : \A h \in Int : Z!DayBefore(Z!Tm(mon, mday, wday, h)) = Z!Tm(m, d, w, h + 24)
    BY DEF Z!DayBefore, Z!Tm
  <2>2. later = Z!Tm(m, d, w, hour + 24)
    BY <1>3, <1>7, <2>1 DEF Z!mktime, Z!Tm
  <2>3. Z!Later(later, 1) = Z!mktime(Z!Tm(m, d, w, hour + 24 + 1))
    BY <1>4, <2>2 DEF Z!Tm
  <2>4. CASE hour < -1
    <3>1. Z!mktime(Z!Tm(mon, mday, wday, hour + 1)) = Z!Tm(m, d, w, hour + 1 + 24)
      BY <2>1, <2>4 DEF Z!mktime, Z!Tm
    <3>2. Z!mktime(Z!Tm(m, d, w, hour + 24 + 1)) = Z!Tm(m, d, w, hour + 24 + 1)
      BY <1>1, <1>7, <2>4 DEF Z!mktime, Z!Tm
    <3>3. hour + 24 + 1 = hour + 1 + 24
      OBVIOUS
    <3> QED
      BY <1>2, <1>3, <2>3, <3>1, <3>2, <3>3
  <2>5. CASE hour = -1
    <3>1. Z!mktime(Z!Tm(mon, mday, wday, hour + 1)) = Z!Tm(mon, mday, wday, 0)
      BY <2>5 DEF Z!mktime, Z!Tm
    <3>2. Z!mktime(Z!Tm(m, d, w, hour + 24 + 1)) = Z!NextDay(Z!Tm(m, d, w, 24))
      BY <2>5 DEF Z!mktime, Z!Tm
    <3>3. Z!NextDay(Z!Tm(m, d, w, 24)) = Z!Tm(mon, mday, wday, 0)
      <4>1. CASE mday > 1
        <5>1. Z!DayBefore(Z!Tm(mon, mday, wday, 0)) = Z!Tm(mon, mday - 1, (wday + 6) % 7, 0 + 24)
          BY <4>1 DEF Z!DayBefore, Z!Tm
        <5>2. m = mon /\ d = mday - 1 /\ w = (wday + 6) % 7
          <6>1. Z!Tm(m, d, w, 0 + 24) = Z!Tm(mon, mday - 1, (wday + 6) % 7, 0 + 24)
            BY <2>1, <5>1
          <6> QED
            BY <6>1, TmParts
        <5>3. d < Z!DaysIn(m) /\ d + 1 = mday /\ (w + 1) % 7 = wday
          BY <1>1, <5>2, MonthDays
        <5>4. Z!NextDay(Z!Tm(m, d, w, 24)) = Z!Tm(m, d + 1, (w + 1) % 7, 24 - 24)
          BY <5>3 DEF Z!NextDay, Z!Tm
        <5> QED
          BY <5>2, <5>3, <5>4
      <4>2. CASE ~(mday > 1)
        <5>1. PICK last : last = (mon + 11) % 12 /\ last \in 0..11 /\ (last + 1) % 12 = mon
          BY <1>1
        <5>2. Z!DayBefore(Z!Tm(mon, mday, wday, 0)) = Z!Tm(last, Z!DaysIn(last), (wday + 6) % 7, 0 + 24)
          BY <4>2, <5>1 DEF Z!DayBefore, Z!Tm
        <5>3. m = last /\ d = Z!DaysIn(last) /\ w = (wday + 6) % 7
          <6>1. Z!Tm(m, d, w, 0 + 24) = Z!Tm(last, Z!DaysIn(last), (wday + 6) % 7, 0 + 24)
            BY <2>1, <5>2
          <6> QED
            BY <6>1, TmParts
        <5>4. ~(d < Z!DaysIn(m)) /\ mday = 1 /\ (w + 1) % 7 = wday
          <6>1. ~(Z!DaysIn(last) < Z!DaysIn(last))
            BY <5>1, MonthDays
          <6>2. (((wday + 6) % 7) + 1) % 7 = wday
            OBVIOUS
          <6> QED
            BY <4>2, <5>3, <6>1, <6>2
        <5>5. Z!NextDay(Z!Tm(m, d, w, 24)) = Z!Tm((m + 1) % 12, 1, (w + 1) % 7, 24 - 24)
          BY <5>4 DEF Z!NextDay, Z!Tm
        <5> QED
          BY <5>1, <5>3, <5>4, <5>5
      <4> QED
        BY <1>1, <4>1, <4>2
    <3> QED
      BY <1>2, <1>3, <2>3, <3>1, <3>2, <3>3
  <2> QED
    BY <1>7, <2>4, <2>5
<1> QED
  BY <1>5, <1>6, <1>7

(* A month of 31 days has a last Sunday, in its last week.                  *)
LEMMA SundayThere ==
  ASSUME NEW mday \in 1..31, NEW wday \in 0..6
  PROVE  \E d \in 25..31 : (wday + d - mday) % 7 = 0
<1>1. CASE (wday + 25 - mday) % 7 = 0
  BY <1>1
<1>2. CASE (wday + 25 - mday) % 7 > 0
  <2>1. 25 + (7 - ((wday + 25 - mday) % 7)) \in 25..31
    BY <1>2
  <2>2. (wday + (25 + (7 - ((wday + 25 - mday) % 7))) - mday) % 7 = 0
    BY <1>2
  <2> QED
    BY <2>1, <2>2
<1> QED
  BY <1>1, <1>2

(* And no other.                                                            *)
LEMMA SundayOnce ==
  ASSUME NEW mday \in 1..31, NEW wday \in 0..6, NEW d \in 25..31, (wday + d - mday) % 7 = 0
  PROVE  /\ mday - wday >= 25 => d = mday - wday
         /\ mday - wday < 25 => d > mday
  OBVIOUS

(* The last Sunday of a month of 31 days, and the Sunday before a day.      *)
LEMMA SundayIs ==
  ASSUME NEW t, Date(t), t.tm_mon \in {2, 9}
  PROVE  /\ Z!LastSunday(t) \in 25..31
         /\ t.tm_mday - t.tm_wday >= 25 => Z!LastSunday(t) = t.tm_mday - t.tm_wday
         /\ t.tm_mday - t.tm_wday < 25 => Z!LastSunday(t) > t.tm_mday
<1>1. PICK mday \in 1..31, wday \in 0..6 : mday = t.tm_mday /\ wday = t.tm_wday
  BY DEF Date
<1>2. PICK d \in 25..31 : (wday + d - mday) % 7 = 0
  BY SundayThere
<1>3. PICK last : last = Z!LastSunday(t) /\ last \in 25..31 /\ (wday + last - mday) % 7 = 0
  BY <1>1, <1>2 DEF Z!LastSunday
<1>4. mday - wday >= 25 => last = mday - wday
  BY <1>3, SundayOnce
<1>5. mday - wday < 25 => last > mday
  BY <1>3, SundayOnce
<1> QED
  BY <1>1, <1>3, <1>4, <1>5

(* Judged by the Sunday gone by, summer time is one interval.               *)
LEMMA DstIsSummer ==
  ASSUME NEW t, Date(t) PROVE Z!Dst(t) <=> Z!Summer(t)
<1>1. PICK mday, wday, hour :
        /\ mday = t.tm_mday /\ wday = t.tm_wday /\ hour = t.tm_hour
        /\ mday \in 1..31 /\ wday \in 0..6 /\ hour \in 0..23
  BY DEF Date
<1>2. CASE t.tm_mon \in {2, 9}
  <2>1. PICK last : /\ last = Z!LastSunday(t) /\ last \in 25..31
                    /\ mday - wday >= 25 => last = mday - wday
                    /\ mday - wday < 25 => last > mday
    BY <1>1, <1>2, SundayIs
  <2>2. mday * 24 + hour >= last * 24 + 2 <=> mday - wday >= 25 /\ (wday = 0 => hour >= 2)
    BY <1>1, <2>1
  <2>3. mday * 24 + hour < last * 24 + 1 <=> (mday - wday >= 25 => wday = 0 /\ hour < 1)
    BY <1>1, <2>1
  <2>4. Z!Dst(t) <=> \/ t.tm_mon = 2 /\ mday - wday >= 25 /\ (wday = 0 => hour >= 2)
                     \/ t.tm_mon = 9 /\ (mday - wday >= 25 => wday = 0 /\ hour < 1)
    BY <1>1, <1>2 DEF Z!Dst
  <2>5. Z!Summer(t) <=> \/ t.tm_mon = 2 /\ mday * 24 + hour >= last * 24 + 2
                        \/ t.tm_mon = 9 /\ mday * 24 + hour < last * 24 + 1
    BY <1>1, <1>2, <2>1 DEF Z!Summer
  <2> QED
    BY <2>2, <2>3, <2>4, <2>5, Zenon
<1>3. CASE t.tm_mon \notin {2, 9}
  BY <1>3 DEF Z!Dst, Z!Summer
<1> QED
  BY <1>2, <1>3

(* ntp.c: the time is a date.                                               *)
LEMMA ZoneKeeps ==
  /\ Z!Init => ZoneInv
  /\ ZoneInv /\ (Z!Next \/ UNCHANGED zoneVars) => ZoneInv'
<1>1. ASSUME Z!Init PROVE ZoneInv
  <2>1. PICK mon \in 0..11, wday \in 0..6 : time = Z!Tm(mon, 23, wday, 0)
    BY <1>1 DEF Z!Init
  <2>2. Date(time)
    <3>1. 23 <= Z!DaysIn(mon)
      BY MonthDays
    <3> QED
      BY <2>1, <3>1 DEF Date, Z!Tm
  <2>3. tzo \in -12..14
    BY <1>1, BoardAssumption DEF Z!Init, Z!TimeZoneAssumption
  <2> QED
    BY <2>2, <2>3 DEF ZoneInv
<1>2. ASSUME ZoneInv, Z!Next PROVE ZoneInv'
  <2>1. time' = Z!Later(time, 1) /\ leap' = leap /\ tzo' = tzo
    BY <1>2 DEF Z!Next, Z!Hour
  <2>2. Date(Z!Later(time, 1))
    BY <1>2, LaterDate DEF ZoneInv
  <2> QED
    BY <1>2, <2>1, <2>2 DEF ZoneInv, Date, Z!DaysIn
<1>3. ASSUME ZoneInv, UNCHANGED zoneVars PROVE ZoneInv'
  BY <1>3 DEF zoneVars, ZoneInv, Date, Z!DaysIn
<1> QED
  BY <1>1, <1>2, <1>3

(* applyTZ: what it makes of a date is a date, and summer time is one       *)
(* interval, between the two last Sundays.                                  *)
THEOREM ZoneCorrect == Spec => []DstIsOneInterval
<1>1. Init => (active = "zone" => ZoneInv)
  BY ZoneKeeps DEF Init
<1>2. (active = "zone" => ZoneInv) /\ [Next]_vars => (active = "zone" => ZoneInv)'
  <2> SUFFICES ASSUME active = "zone" => ZoneInv, [Next]_vars, active' = "zone"
               PROVE  ZoneInv'
    OBVIOUS
  <2>1. active = "zone" /\ (Z!Next \/ UNCHANGED zoneVars)
    BY DEF Next, vars
  <2> QED
    BY <2>1, ZoneKeeps
<1>3. (active = "zone" => ZoneInv) => DstIsOneInterval
  <2> SUFFICES ASSUME ZoneInv PROVE Z!TypeOK /\ Z!DstIsOneInterval
    BY DEF DstIsOneInterval
  <2>1. PICK t : t = Z!Later(time, tzo) /\ Date(t)
    BY LaterDate DEF ZoneInv
  <2>2. Z!applyTZ(time) = IF Z!Dst(t) THEN Z!Later(t, 1) ELSE t
    BY <2>1 DEF Z!applyTZ
  <2>3. Z!Later(t, 1) = Z!Later(time, tzo + 1)
    BY <2>1, HourMore DEF ZoneInv
  <2>4. Date(Z!applyTZ(time))
    <3>1. Date(Z!Later(t, 1))
      BY <2>1, LaterDate
    <3> QED
      BY <2>1, <2>2, <3>1
  <2>5. Z!TypeOK
    <3>1. \A day : Date(day) => /\ day.tm_mon \in 0..11 /\ day.tm_mday \in 1..Z!DaysIn(day.tm_mon)
                                /\ day.tm_wday \in 0..6 /\ day.tm_hour \in 0..23
      BY MonthDays DEF Date
    <3> QED
      BY <2>4, <3>1 DEF ZoneInv, Z!TypeOK
  <2>6. Z!DstIsOneInterval
    <3>1. Z!applyTZ(time) = IF Z!Summer(t) THEN Z!Later(time, tzo + 1) ELSE t
      BY <2>1, <2>2, <2>3, DstIsSummer
    <3> QED
      BY <2>1, <3>1, Zenon DEF Z!DstIsOneInterval, Z!Summer
  <2> QED
    BY <2>5, <2>6
<1> QED
  BY <1>1, <1>2, <1>3, PTL DEF Spec

-----------------------------------------------------------------------------
(* The panel: what its driver knows of it.                                  *)
Picture == [P!Pages -> [P!Columns -> Nat]]
Panels ==
  [ram : [P!Pages -> [P!Columns -> Nat \cup {P!Unknown}]], contrast : Contrasts \cup {P!Unknown},
   rotation : Rotations \cup {P!Unknown}, on : BOOLEAN, page : P!Pages, column : P!Columns]

PanelTypes ==
  /\ oled_Buffer \in Picture /\ oled_Shadow \in Picture /\ oled_ForcePages \subseteq P!Pages
  /\ oled_Online \in BOOLEAN /\ oled_Backoff \in 0..SSD1306_RETRY_UPDATES
  /\ oled_Contrast \in Contrasts /\ oled_Rotation \in Rotations
  /\ oled_pc \in {"init", "page", "send", "data", "idle"}
  /\ oled_page \in P!Pages /\ oled_part \in 1..3 /\ oled_panel \in Panels
  /\ oled_plugged \in BOOLEAN /\ oled_whole \in BOOLEAN /\ oled_unseen \in BOOLEAN

(* A transfer that failed is remembered until the panel is started again.   *)
Started ==
  /\ oled_pc \in {"send", "data"} => oled_Online
  /\ oled_pc # "init" => oled_part = 1
  /\ oled_pc = "init" /\ oled_part > 1 /\ oled_whole => oled_Online

(* The pages that are on the panel, and its settings.                       *)
Copies ==
  oled_pc # "init" /\ oled_Online /\ oled_plugged /\ ~oled_unseen =>
    \A p \in P!Pages \ oled_ForcePages : oled_panel.ram[p] = oled_Shadow[p]
Settled ==
  oled_Online /\ oled_plugged /\ oled_whole /\ ~oled_unseen =>
    IF oled_pc = "init"
      THEN /\ oled_part >= 2 => oled_panel.contrast = oled_Contrast
           /\ oled_part >= 3 => oled_panel.rotation = oled_Rotation
      ELSE oled_panel.on /\ oled_panel.contrast = oled_Contrast /\ oled_panel.rotation = oled_Rotation

(* The panel waits for the data where the data begins.                      *)
Cursor ==
  oled_pc = "data" =>
    /\ P!Changed(oled_page) # {}
    /\ oled_plugged /\ ~oled_unseen =>
         oled_panel.page = oled_page /\ oled_panel.column = P!First(P!Changed(oled_page))

PanelInv == PanelTypes /\ Started /\ Copies /\ Settled /\ Cursor

(* The size of the panel.                                                   *)
LEMMA PanelConstants ==
  /\ SSD1306_PAGES \in Nat /\ SSD1306_PAGES > 0 /\ SSD1306_WIDTH \in Nat /\ SSD1306_WIDTH > 0
  /\ SSD1306_RETRY_UPDATES \in Nat /\ SSD1306_RETRY_UPDATES > 0
  /\ Pictures \subseteq Picture /\ P!Black \in Picture /\ P!SwitchedOn \in Panels
<1>1. /\ SSD1306_PAGES \in Nat /\ SSD1306_PAGES > 0 /\ SSD1306_WIDTH \in Nat /\ SSD1306_WIDTH > 0
      /\ SSD1306_RETRY_UPDATES \in Nat /\ SSD1306_RETRY_UPDATES > 0
  BY BoardAssumption DEF P!PanelAssumption
<1>2. Pictures \subseteq Picture
  BY BoardAssumption DEF P!PanelAssumption, Picture
<1>3. P!Black \in Picture
  BY DEF P!Black, Picture
<1>4. P!SwitchedOn \in Panels
  <2>1. 0 \in P!Pages /\ 0 \in P!Columns
    BY <1>1 DEF P!Pages, P!Columns
  <2> QED
    BY <2>1 DEF P!SwitchedOn, Panels
<1> QED
  BY <1>1, <1>2, <1>3, <1>4

(* A set of naturals that has a member has a least one.                     *)
LEMMA LeastThere ==
  ASSUME NEW cs \in SUBSET Nat, cs # {}
  PROVE  \E c \in cs : \A d \in cs : c <= d
<1>1. PICK c \in cs : \A d \in cs : <<d, c>> \notin OpToRel(<, Nat)
  BY WFMin, NatLessThanWellFounded, Zenon
<1>2. \A d \in cs : ~(d < c)
  BY <1>1, Zenon DEF OpToRel
<1> QED
  BY <1>2

(* And a greatest one, if there is a bound.                                 *)
LEMMA GreatestThere ==
  ASSUME NEW bound \in Nat, NEW cs \in SUBSET (0..bound), cs # {}
  PROVE  \E c \in cs : \A d \in cs : d <= c
<1> DEFINE mirror == {bound - c : c \in cs}
<1>1. mirror \in SUBSET Nat /\ mirror # {}
  <2>1. \A c \in cs : bound - c \in Nat
    OBVIOUS
  <2>2. mirror \subseteq Nat
    BY <2>1
  <2>3. PICK c \in cs : TRUE
    OBVIOUS
  <2>4. bound - c \in mirror
    BY <2>3
  <2> QED
    BY <2>2, <2>4
<1> HIDE DEF mirror
<1>2. PICK e \in mirror : \A d \in mirror : e <= d
  BY <1>1, LeastThere
<1>3. PICK c \in cs : e = bound - c
  BY <1>2 DEF mirror
<1>4. \A d \in cs : bound - c <= bound - d
  BY <1>2, <1>3 DEF mirror
<1> QED
  BY <1>3, <1>4

(* The columns of a page that are sent are an interval.                     *)
Span(p, first, last) ==
  /\ first = P!First(P!Changed(p)) /\ last = P!Last(P!Changed(p))
  /\ first \in P!Columns /\ last \in P!Columns
  /\ P!Changed(p) = {c \in P!Columns : first <= c /\ c <= last}

(* From the first that differs to the last.                                 *)
LEMMA ChangedSpan ==
  ASSUME NEW p \in P!Pages, P!Changed(p) # {}
  PROVE  \E first, last : Span(p, first, last)
<1> USE PanelConstants
<1>1. PICK cs : cs = P!Changed(p)
  OBVIOUS
<1>2. cs \subseteq P!Columns
  BY <1>1 DEF P!Changed
<1>3. PICK first : first = P!First(cs) /\ first \in cs /\ \A d \in cs : first <= d
  <2>1. cs \in SUBSET Nat /\ cs # {}
    BY <1>1, <1>2 DEF P!Columns
  <2> QED
    BY <2>1, LeastThere DEF P!First
<1>4. PICK last : last = P!Last(cs) /\ last \in cs /\ \A d \in cs : d <= last
  <2>1. SSD1306_WIDTH - 1 \in Nat /\ cs \in SUBSET (0..SSD1306_WIDTH - 1) /\ cs # {}
    BY <1>1, <1>2 DEF P!Columns
  <2> QED
    BY <2>1, GreatestThere DEF P!Last
<1>5. \A c \in P!Columns : first <= c /\ c <= last => c \in cs
  <2>1. CASE p \in oled_ForcePages
    BY <1>1, <2>1 DEF P!Changed
  <2>2. CASE p \notin oled_ForcePages
    <3>1. PICK differ \in SUBSET P!Columns :
            cs = {c \in P!Columns : (\E d \in differ : d <= c) /\ (\E d \in differ : c <= d)}
      BY <1>1, <2>2 DEF P!Changed
    <3>2. PICK low \in differ, high \in differ : low <= first /\ last <= high
      BY <1>3, <1>4, <3>1
    <3> QED
      BY <1>2, <1>3, <1>4, <3>1, <3>2 DEF P!Columns
  <2> QED
    BY <2>1, <2>2
<1> QED
  BY <1>1, <1>2, <1>3, <1>4, <1>5 DEF Span

(* Which columns k bytes reach from the first one on.                       *)
LEMMA Reaches ==
  ASSUME NEW c \in P!Columns, NEW first \in P!Columns, NEW last \in P!Columns, first <= last
  PROVE  /\ (c - first) % SSD1306_WIDTH < last - first + 1 <=> first <= c /\ c <= last
         /\ first <= c => (c - first) % SSD1306_WIDTH = c - first
<1> USE PanelConstants DEF P!Columns
<1>1. CASE first <= c
  <2>1. (c - first) % SSD1306_WIDTH = c - first
    BY <1>1
  <2> QED
    BY <1>1, <2>1
<1>2. CASE c < first
  <2>1. (c - first) % SSD1306_WIDTH = c - first + SSD1306_WIDTH
    BY <1>2
  <2> QED
    BY <1>2, <2>1
<1> QED
  BY <1>1, <1>2

(* ssd1306.c: SSD1306_I2C_Write.  All of a transfer arrives, or a part.     *)
LEMMA Transfers ==
  ASSUME NEW n \in Nat, n > 0, NEW after, NEW ok, P!I2C_Write(n, after, ok), oled_panel \in Panels,
         \A k \in 0..n : after[k] \in Panels
  PROVE  oled_panel' \in Panels /\ (ok => oled_plugged /\ oled_panel' = after[n])
<1>1. n \in 0..n /\ 0..n - 1 \subseteq 0..n
  OBVIOUS
<1> QED
  BY <1>1 DEF P!I2C_Write

(* A page that is done: the next one, or the picture is complete.           *)
LEMMA GoesOn ==
  ASSUME P!NextPage, oled_page \in P!Pages
  PROVE  oled_page' \in P!Pages /\ oled_pc' \in {"page", "idle"}
BY PanelConstants DEF P!NextPage, P!Pages

(* ssd1306.c: displayInit.                                                  *)
LEMMA PanelBegins ==
  ASSUME P!Init PROVE PanelInv
<1> USE PanelConstants
<1>1. oled_Online = TRUE /\ oled_whole = FALSE /\ oled_unseen = FALSE /\ oled_plugged \in BOOLEAN
  BY DEF P!Init
<1>2. oled_Online \in BOOLEAN /\ oled_whole \in BOOLEAN /\ oled_unseen \in BOOLEAN
  BY <1>1, Zenon
<1>3. 0 \in P!Pages
  BY DEF P!Pages
<1>4. PanelTypes
  BY <1>1, <1>2, <1>3 DEF P!Init, PanelTypes
<1> QED
  BY <1>1, <1>4 DEF P!Init, PanelInv, Started, Copies, Settled, Cursor

(* What the panel has for a setting is old or new.                          *)
LEMMA OldOrNew ==
  \A k, i, new, old : P!Arrived(k, i, new, old) \in {old, new}
BY DEF P!Arrived

(* ssd1306.c: SSD1306_SendInit, its first transfer.                         *)
LEMMA FirstPart ==
  ASSUME PanelTypes, NEW ok, P!I2C_Write(P!InitSizes[1], P!InitParts[1], ok)
  PROVE  oled_panel' \in Panels /\ (ok => oled_plugged /\ oled_panel'.contrast = oled_Contrast)
<1> USE PanelConstants
<1>1. PICK after : after = [k \in 0..4 |->
        [oled_panel EXCEPT !.on = P!Arrived(k, 1, FALSE, @), !.page = P!Arrived(k, 2, 0, @),
                           !.column = P!Arrived(k, 3, 0, @), !.contrast = P!Arrived(k, 4, oled_Contrast, @)]]
  OBVIOUS
<1>2. P!InitSizes[1] = 4 /\ P!InitParts[1] = after
  BY <1>1 DEF P!InitSizes, P!InitParts
<1>3. \A k \in 0..4 : after[k] \in Panels
  <2> SUFFICES ASSUME NEW k \in 0..4 PROVE after[k] \in Panels
    OBVIOUS
  <2>1. /\ P!Arrived(k, 1, FALSE, oled_panel.on) \in BOOLEAN
        /\ P!Arrived(k, 2, 0, oled_panel.page) \in P!Pages
        /\ P!Arrived(k, 3, 0, oled_panel.column) \in P!Columns
        /\ P!Arrived(k, 4, oled_Contrast, oled_panel.contrast) \in Contrasts \cup {P!Unknown}
    <3>1. 0 \in P!Pages /\ 0 \in P!Columns /\ FALSE \in BOOLEAN
      BY DEF P!Pages, P!Columns
    <3>2. oled_panel.on \in BOOLEAN
      BY DEF PanelTypes, Panels
    <3>3. P!Arrived(k, 1, FALSE, oled_panel.on) \in BOOLEAN
      BY <3>2, Zenon DEF P!Arrived
    <3>4. oled_panel.page \in P!Pages /\ oled_panel.column \in P!Columns
      BY DEF PanelTypes, Panels
    <3>5. oled_Contrast \in Contrasts /\ oled_panel.contrast \in Contrasts \cup {P!Unknown}
      BY DEF PanelTypes, Panels
    <3>6. /\ P!Arrived(k, 2, 0, oled_panel.page) \in P!Pages
          /\ P!Arrived(k, 3, 0, oled_panel.column) \in P!Columns
      BY <3>1, <3>4 DEF P!Arrived
    <3>7. P!Arrived(k, 4, oled_Contrast, oled_panel.contrast) \in Contrasts \cup {P!Unknown}
      BY <3>5 DEF P!Arrived
    <3> QED
      BY <3>3, <3>6, <3>7
  <2> QED
    BY <1>1, <2>1 DEF PanelTypes, Panels
<1>4. after[4].contrast = oled_Contrast
  <2>1. P!Arrived(4, 4, oled_Contrast, oled_panel.contrast) = oled_Contrast
    BY DEF P!Arrived
  <2>2. PICK on, page, column : after[4] = [oled_panel EXCEPT !.on = on, !.page = page,
                                 !.column = column, !.contrast = P!Arrived(4, 4, oled_Contrast, @)]
    BY <1>1, 4 \in 0..4, Zenon
  <2> QED
    BY <2>1, <2>2 DEF PanelTypes, Panels
<1> QED
  BY <1>2, <1>3, <1>4, Transfers DEF PanelTypes

(* Its second.                                                              *)
LEMMA SecondPart ==
  ASSUME PanelTypes, NEW ok, P!I2C_Write(P!InitSizes[2], P!InitParts[2], ok)
  PROVE  /\ oled_panel' \in Panels
         /\ ok => /\ oled_plugged /\ oled_panel'.rotation = oled_Rotation
                  /\ oled_panel'.contrast = oled_panel.contrast
<1>1. PICK after : after = [k \in 0..1 |->
                     [oled_panel EXCEPT !.rotation = P!Arrived(k, 1, oled_Rotation, @)]]
  OBVIOUS
<1>2. P!InitSizes[2] = 1 /\ P!InitParts[2] = after
  BY <1>1 DEF P!InitSizes, P!InitParts
<1>3. \A k \in 0..1 : after[k] \in Panels
  <2> SUFFICES ASSUME NEW k \in 0..1 PROVE after[k] \in Panels
    OBVIOUS
  <2>1. P!Arrived(k, 1, oled_Rotation, oled_panel.rotation) \in Rotations \cup {P!Unknown}
    BY OldOrNew DEF PanelTypes, Panels
  <2> QED
    BY <1>1, <2>1 DEF PanelTypes, Panels
<1>4. after[1].rotation = oled_Rotation /\ after[1].contrast = oled_panel.contrast
  BY <1>1 DEF P!Arrived, PanelTypes, Panels
<1> QED
  BY <1>2, <1>3, <1>4, Transfers DEF PanelTypes

(* Its third.                                                               *)
LEMMA ThirdPart ==
  ASSUME PanelTypes, NEW ok, P!I2C_Write(P!InitSizes[3], P!InitParts[3], ok)
  PROVE  /\ oled_panel' \in Panels
         /\ ok => /\ oled_plugged /\ oled_panel'.on /\ oled_panel'.rotation = oled_panel.rotation
                  /\ oled_panel'.contrast = oled_panel.contrast
<1>1. PICK after : after = [k \in 0..1 |-> [oled_panel EXCEPT !.on = P!Arrived(k, 1, TRUE, @)]]
  OBVIOUS
<1>2. P!InitSizes[3] = 1 /\ P!InitParts[3] = after
  BY <1>1 DEF P!InitSizes, P!InitParts
<1>3. \A k \in 0..1 : after[k] \in Panels
  <2> SUFFICES ASSUME NEW k \in 0..1 PROVE after[k] \in Panels
    OBVIOUS
  <2>1. oled_panel.on \in BOOLEAN
    BY DEF PanelTypes, Panels
  <2>2. P!Arrived(k, 1, TRUE, oled_panel.on) \in BOOLEAN
    BY <2>1, Zenon DEF P!Arrived
  <2> QED
    BY <1>1, <2>2 DEF PanelTypes, Panels
<1>4. P!Arrived(1, 1, TRUE, oled_panel.on) = TRUE
  BY DEF P!Arrived
<1>5. after[1].rotation = oled_panel.rotation /\ after[1].contrast = oled_panel.contrast
  BY <1>1 DEF PanelTypes, Panels
<1>6. after[1].on
  <2>1. after[1] = [oled_panel EXCEPT !.on = P!Arrived(1, 1, TRUE, @)]
    BY <1>1
  <2>2. after[1].on = P!Arrived(1, 1, TRUE, oled_panel.on)
    BY <2>1 DEF PanelTypes, Panels
  <2> QED
    BY <1>4, <2>2, Zenon
<1> QED
  BY <1>2, <1>3, <1>5, <1>6, Transfers DEF PanelTypes

(* What a transfer of commands leaves of the driver's own state.            *)
LEMMA Remembers ==
  ASSUME NEW n, NEW after, NEW ok \in BOOLEAN, P!WriteCommands(n, after, ok), PanelTypes
  PROVE  /\ oled_Online' \in BOOLEAN /\ (oled_Online' <=> ok)
         /\ oled_Backoff' \in 0..SSD1306_RETRY_UPDATES /\ P!I2C_Write(n, after, ok)
<1>1. CASE ok
  <2>1. oled_Online' = TRUE /\ oled_Backoff' = oled_Backoff
    BY <1>1 DEF P!WriteCommands
  <2>2. oled_Online' \in BOOLEAN /\ oled_Online'
    BY <2>1, Zenon
  <2> QED
    BY <1>1, <2>1, <2>2 DEF P!WriteCommands, PanelTypes
<1>2. CASE ~ok
  <2>1. oled_Online' = FALSE /\ oled_Backoff' = SSD1306_RETRY_UPDATES
    BY <1>2 DEF P!WriteCommands, P!Failed
  <2>2. oled_Online' \in BOOLEAN /\ ~oled_Online'
    BY <2>1, Zenon
  <2> QED
    BY <1>2, <2>1, <2>2, PanelConstants DEF P!WriteCommands
<1> QED
  BY <1>1, <1>2

(* ssd1306.c: SSD1306_SendInit, before its last transfer.                   *)
LEMMA SendInitBegins ==
  ASSUME PanelInv, P!SendInit, oled_part < 3 PROVE PanelInv'
<1>1. PanelTypes /\ Started /\ Copies /\ Settled /\ Cursor
  BY DEF PanelInv
<1>2. PICK ok \in BOOLEAN : /\ P!WriteCommands(P!InitSizes[oled_part], P!InitParts[oled_part], ok)
                            /\ oled_whole' = (ok /\ (oled_part = 1 \/ oled_whole))
                            /\ oled_unseen' = (oled_part # 1 /\ oled_unseen)
  BY DEF P!SendInit
<1>3. /\ oled_pc = "init" /\ oled_part' = oled_part + 1
      /\ UNCHANGED <<oled_pc, oled_page, oled_ForcePages, oled_Buffer, oled_Shadow,
                     oled_Contrast, oled_Rotation, oled_plugged>>
  BY DEF P!SendInit
<1>4. /\ oled_Online' \in BOOLEAN /\ (oled_Online' <=> ok)
      /\ oled_Backoff' \in 0..SSD1306_RETRY_UPDATES
      /\ P!I2C_Write(P!InitSizes[oled_part], P!InitParts[oled_part], ok)
  BY <1>1, <1>2, Remembers
<1>5. /\ oled_whole' \in BOOLEAN /\ (oled_whole' => ok /\ (oled_part = 1 \/ oled_whole))
      /\ oled_unseen' \in BOOLEAN /\ (oled_part # 1 /\ oled_unseen => oled_unseen')
  BY <1>2, Zenon
<1>6. oled_part = 1 \/ oled_part = 2
  BY <1>1 DEF PanelTypes
<1>7. CASE oled_part = 1
  <2>1. oled_panel' \in Panels /\ (ok => oled_plugged /\ oled_panel'.contrast = oled_Contrast)
    BY <1>1, <1>4, <1>7, FirstPart
  <2>2. PanelTypes'
    BY <1>1, <1>3, <1>4, <1>5, <1>7, <2>1 DEF PanelTypes
  <2> QED
    BY <1>3, <1>4, <1>5, <1>7, <2>1, <2>2 DEF PanelInv, Started, Copies, Settled, Cursor
<1>8. CASE oled_part = 2
  <2>1. /\ oled_panel' \in Panels
        /\ ok => /\ oled_plugged /\ oled_panel'.rotation = oled_Rotation
                 /\ oled_panel'.contrast = oled_panel.contrast
    BY <1>1, <1>4, <1>8, SecondPart
  <2>2. PanelTypes'
    BY <1>1, <1>3, <1>4, <1>5, <1>8, <2>1 DEF PanelTypes
  <2> QED
    BY <1>1, <1>3, <1>4, <1>5, <1>8, <2>1, <2>2 DEF PanelInv, Started, Copies, Settled, Cursor
<1> QED
  BY <1>6, <1>7, <1>8

(* With the last one every page is to be sent, or nothing is to be had.     *)
LEMMA SendInitEnds ==
  ASSUME PanelInv, P!SendInit, oled_part = 3 PROVE PanelInv'
<1>1. PanelTypes /\ Started /\ Copies /\ Settled /\ Cursor
  BY DEF PanelInv
<1>2. PICK ok \in BOOLEAN : /\ P!WriteCommands(P!InitSizes[3], P!InitParts[3], ok)
                            /\ oled_whole' = (ok /\ (oled_part = 1 \/ oled_whole))
                            /\ oled_unseen' = (oled_part # 1 /\ oled_unseen)
  BY DEF P!SendInit
<1>3. /\ oled_pc = "init" /\ oled_part' = 1
      /\ UNCHANGED <<oled_Shadow, oled_Contrast, oled_Rotation, oled_plugged>>
  BY DEF P!SendInit
<1>4. /\ oled_Online' \in BOOLEAN /\ (oled_Online' <=> ok)
      /\ oled_Backoff' \in 0..SSD1306_RETRY_UPDATES
      /\ P!I2C_Write(P!InitSizes[3], P!InitParts[3], ok)
  BY <1>1, <1>2, Remembers
<1>5. /\ oled_whole' \in BOOLEAN /\ (oled_whole' => ok /\ oled_whole)
      /\ oled_unseen' \in BOOLEAN /\ (oled_unseen => oled_unseen')
  <2>1. oled_part # 1
    OBVIOUS
  <2> QED
    BY <1>2, <2>1, Zenon
<1>6. /\ oled_panel' \in Panels
      /\ ok => /\ oled_plugged /\ oled_panel'.on /\ oled_panel'.rotation = oled_panel.rotation
               /\ oled_panel'.contrast = oled_panel.contrast
  BY <1>1, <1>4, ThirdPart
<1>7. /\ oled_pc' \in {"send", "page", "idle"} /\ oled_page' \in P!Pages
      /\ oled_Buffer' \in Picture
      /\ \/ oled_pc' \in {"send", "page"} /\ oled_ForcePages' = P!Pages
         \/ ~oled_Online' /\ oled_ForcePages' = oled_ForcePages
      /\ oled_pc' = "send" => oled_Online'
  <2>1. CASE ~oled_Initialized
    BY <1>1, <2>1, PanelConstants DEF P!SendInit, PanelTypes
  <2>2. CASE oled_Initialized /\ oled_Online'
    BY <1>1, <2>2 DEF P!SendInit, PanelTypes
  <2>3. CASE oled_Initialized /\ ~oled_Online'
    <3>1. P!NextPage /\ oled_ForcePages' = oled_ForcePages /\ oled_Buffer' = oled_Buffer
      BY <2>3 DEF P!SendInit
    <3> QED
      BY <1>1, <2>3, <3>1, GoesOn DEF PanelTypes
  <2> QED
    BY <2>1, <2>2, <2>3
<1>8. PanelTypes' /\ Started' /\ Copies' /\ Cursor'
  BY <1>1, <1>3, <1>4, <1>5, <1>6, <1>7 DEF PanelTypes, Started, Copies, Cursor
<1>9. Settled'
  BY <1>1, <1>3, <1>4, <1>5, <1>6, <1>7 DEF Settled, Started
<1> QED
  BY <1>8, <1>9 DEF PanelInv

(* ssd1306.c: SSD1306_UpdatePage, its start.                                *)
LEMMA UpdatePageKeeps ==
  ASSUME PanelInv, P!UpdatePage PROVE PanelInv'
<1>1. PanelTypes /\ Started /\ Copies /\ Settled /\ Cursor
  BY DEF PanelInv
<1>2. /\ oled_pc = "page"
      /\ UNCHANGED <<oled_Buffer, oled_Shadow, oled_ForcePages, oled_Online, oled_Contrast,
                     oled_Rotation, oled_part, oled_panel, oled_plugged, oled_whole, oled_unseen>>
  BY DEF P!UpdatePage
<1>3. /\ oled_pc' \in {"send", "page", "idle", "init"} /\ oled_page' \in P!Pages
      /\ oled_Backoff' \in 0..SSD1306_RETRY_UPDATES
      /\ oled_Online <=> oled_pc' = "send"
  <2>1. CASE oled_Online
    BY <1>1, <2>1 DEF P!UpdatePage, PanelTypes
  <2>2. CASE ~oled_Online
    <3>1. oled_Backoff' \in 0..SSD1306_RETRY_UPDATES
      BY <1>1, <2>2, PanelConstants DEF P!UpdatePage, PanelTypes
    <3>2. P!NextPage \/ (oled_pc' = "init" /\ oled_page' = oled_page)
      BY <2>2 DEF P!UpdatePage
    <3> QED
      BY <1>1, <2>2, <3>1, <3>2, GoesOn DEF PanelTypes
  <2> QED
    BY <2>1, <2>2
<1>4. PanelTypes'
  BY <1>1, <1>2, <1>3 DEF PanelTypes
<1> QED
  BY <1>1, <1>2, <1>3, <1>4 DEF PanelInv, Started, Copies, Settled, Cursor

(* Where a transfer failed the driver waits before it tries again.          *)
LEMMA GivesUp ==
  ASSUME P!Failed
  PROVE  /\ oled_Online' \in BOOLEAN /\ ~oled_Online'
         /\ oled_Backoff' \in 0..SSD1306_RETRY_UPDATES
<1>1. oled_Online' = FALSE /\ oled_Backoff' = SSD1306_RETRY_UPDATES
  BY DEF P!Failed
<1>2. oled_Online' \in BOOLEAN /\ ~oled_Online'
  BY <1>1, Zenon
<1> QED
  BY <1>1, <1>2, PanelConstants

(* ssd1306.c: SSD1306_UpdatePage sets page and column.                      *)
LEMMA SendAddressKeeps ==
  ASSUME PanelInv, P!SendAddress PROVE PanelInv'
<1>1. PanelTypes /\ Started /\ Copies /\ Settled /\ Cursor
  BY DEF PanelInv
<1>2. /\ oled_pc = "send"
      /\ UNCHANGED <<oled_Buffer, oled_Shadow, oled_ForcePages, oled_Contrast, oled_Rotation,
                     oled_part, oled_plugged, oled_whole, oled_unseen>>
  BY DEF P!SendAddress
<1>3. CASE P!Changed(oled_page) = {}
  <2>1. /\ P!NextPage /\ UNCHANGED <<oled_Online, oled_Backoff, oled_panel>>
    BY <1>3 DEF P!SendAddress
  <2>2. oled_pc' \in {"page", "idle"} /\ oled_page' \in P!Pages
    BY <1>1, <2>1, GoesOn DEF PanelTypes
  <2>3. PanelTypes'
    BY <1>1, <1>2, <2>1, <2>2 DEF PanelTypes
  <2> QED
    BY <1>1, <1>2, <2>1, <2>2, <2>3 DEF PanelInv, Started, Copies, Settled, Cursor
<1>4. CASE P!Changed(oled_page) # {}
  <2>1. PICK first : first = P!First(P!Changed(oled_page)) /\ first \in P!Columns
    BY <1>1, <1>4, ChangedSpan DEF PanelTypes, Span
  <2>2. PICK after : after = [k \in 0..2 |->
          [oled_panel EXCEPT !.page = P!Arrived(k, 1, oled_page, @), !.column = P!Arrived(k, 2, first, @)]]
    OBVIOUS
  <2>3. PICK ok \in BOOLEAN : /\ P!I2C_Write(2, after, ok)
            /\ IF ok THEN oled_pc' = "data" /\ UNCHANGED <<oled_page, oled_Online, oled_Backoff>>
                     ELSE P!Failed /\ P!NextPage
    BY <1>4, <2>1, <2>2 DEF P!SendAddress, P!Addressed
  <2>4. \A k \in 0..2 : after[k] \in Panels /\ \A field \in {"ram", "contrast", "rotation", "on"} :
                                                  after[k][field] = oled_panel[field]
    <3> SUFFICES ASSUME NEW k \in 0..2 PROVE after[k] \in Panels /\
                   \A field \in {"ram", "contrast", "rotation", "on"} : after[k][field] = oled_panel[field]
      OBVIOUS
    <3>1. /\ P!Arrived(k, 1, oled_page, oled_panel.page) \in P!Pages
          /\ P!Arrived(k, 2, first, oled_panel.column) \in P!Columns
      BY <1>1, <2>1 DEF P!Arrived, PanelTypes, Panels
    <3> QED
      BY <1>1, <2>2, <3>1 DEF PanelTypes, Panels
  <2>5. after[2].page = oled_page /\ after[2].column = first
    <3>1. P!Arrived(2, 1, oled_page, oled_panel.page) = oled_page /\ P!Arrived(2, 2, first, oled_panel.column) = first
      BY DEF P!Arrived
    <3>2. PICK at : /\ at = P!Arrived(2, 1, oled_page, oled_panel.page)
                    /\ after[2] = [oled_panel EXCEPT !.page = at, !.column = P!Arrived(2, 2, first, @)]
      BY <2>2, 2 \in 0..2, Zenon
    <3>3. PICK to : /\ to = P!Arrived(2, 2, first, [oled_panel EXCEPT !.page = at].column)
                    /\ after[2] = [oled_panel EXCEPT !.page = at, !.column = to]
      BY <3>2, Zenon
    <3>4. at = oled_page /\ to = first
      BY <3>2, <3>3 DEF P!Arrived
    <3> QED
      BY <1>1, <3>3, <3>4 DEF PanelTypes, Panels
  <2>6. oled_panel' \in Panels /\ (ok => oled_plugged /\ oled_panel' = after[2])
    BY <1>1, <2>3, <2>4, Transfers DEF PanelTypes
  <2>7. CASE ok
    <3>1. /\ oled_pc' = "data" /\ UNCHANGED <<oled_page, oled_Online, oled_Backoff>>
          /\ oled_panel'.page = oled_page /\ oled_panel'.column = first
      BY <2>3, <2>5, <2>6, <2>7
    <3>2. /\ oled_panel'.ram = oled_panel.ram /\ oled_panel'.contrast = oled_panel.contrast
          /\ oled_panel'.rotation = oled_panel.rotation /\ oled_panel'.on = oled_panel.on
      BY <2>4, <2>6, <2>7
    <3>3. PanelTypes'
      BY <1>1, <1>2, <2>6, <3>1 DEF PanelTypes
    <3>4. Started' /\ Copies' /\ Settled'
      BY <1>1, <1>2, <3>1, <3>2 DEF Started, Copies, Settled
    <3>5. P!Changed(oled_page)' = P!Changed(oled_page)
      BY <1>2, <3>1 DEF P!Changed
    <3>6. Cursor'
      BY <1>2, <1>4, <2>1, <3>1, <3>5 DEF Cursor, P!First
    <3> QED
      BY <3>3, <3>4, <3>6 DEF PanelInv
  <2>8. CASE ~ok
    <3>1. P!Failed /\ P!NextPage
      BY <2>3, <2>8
    <3>2. /\ oled_pc' \in {"page", "idle"} /\ oled_page' \in P!Pages
          /\ oled_Online' \in BOOLEAN /\ ~oled_Online' /\ oled_Backoff' \in 0..SSD1306_RETRY_UPDATES
      BY <1>1, <3>1, GoesOn, GivesUp DEF PanelTypes
    <3>3. PanelTypes'
      BY <1>1, <1>2, <2>6, <3>2 DEF PanelTypes
    <3> QED
      BY <1>1, <1>2, <3>2, <3>3 DEF PanelInv, Started, Copies, Settled, Cursor
  <2> QED
    BY <2>7, <2>8
<1> QED
  BY <1>3, <1>4

(* The row of the panel's memory that k bytes of the data change.           *)
Arriving(k, first) ==
  [c \in P!Columns |-> LET i == (c - oled_panel.column) % SSD1306_WIDTH
                       IN  IF i < k THEN oled_Buffer[oled_page][first + i]
                                    ELSE oled_panel.ram[oled_panel.page][c]]

(* ssd1306.c: SSD1306_UpdatePage sends the data, which fit in the row.      *)
LEMMA WrittenIs ==
  ASSUME PanelTypes, NEW first, NEW last, Span(oled_page, first, last), first <= last,
         NEW n \in Nat, n = last - first + 1, NEW k \in 0..n
  PROVE  /\ P!Written(n, first)[k] \in Panels
         /\ P!Written(n, first)[k].ram = [oled_panel.ram EXCEPT ![oled_panel.page] = Arriving(k, first)]
         /\ P!Written(n, first)[k].contrast = oled_panel.contrast
         /\ P!Written(n, first)[k].rotation = oled_panel.rotation
         /\ P!Written(n, first)[k].on = oled_panel.on
<1> USE PanelConstants
<1>1. oled_panel \in Panels /\ oled_page \in P!Pages /\ oled_Buffer \in Picture
  BY DEF PanelTypes
<1>2. first \in P!Columns /\ last \in P!Columns
  BY DEF Span
<1>3. PICK row : row = Arriving(k, first)
  OBVIOUS
<1>4. row \in [P!Columns -> Nat \cup {P!Unknown}]
  <2>1. ASSUME NEW c \in P!Columns
        PROVE  (IF (c - oled_panel.column) % SSD1306_WIDTH < k
                  THEN oled_Buffer[oled_page][first + ((c - oled_panel.column) % SSD1306_WIDTH)]
                  ELSE oled_panel.ram[oled_panel.page][c]) \in Nat \cup {P!Unknown}
    <3>1. PICK i \in Nat : i = (c - oled_panel.column) % SSD1306_WIDTH
      BY <1>1 DEF P!Columns, Panels
    <3>2. i < k => first + i \in P!Columns
      BY <1>2, <3>1 DEF P!Columns
    <3>3. i < k => oled_Buffer[oled_page][first + i] \in Nat
      BY <1>1, <3>2 DEF Picture
    <3>4. oled_panel.ram[oled_panel.page][c] \in Nat \cup {P!Unknown}
      BY <1>1 DEF Panels
    <3> QED
      BY <3>1, <3>3, <3>4
  <2> QED
    BY <1>3, <2>1 DEF Arriving
<1>5. PICK col \in P!Columns : col = (oled_panel.column + k) % SSD1306_WIDTH
  BY <1>1 DEF P!Columns, Panels
<1>6. P!Written(n, first)[k] = [oled_panel EXCEPT !.ram = [@ EXCEPT ![oled_panel.page] = row], !.column = col]
  BY <1>1, <1>3, <1>5 DEF P!Written, Arriving, Panels
<1>7. [oled_panel.ram EXCEPT ![oled_panel.page] = row] \in [P!Pages -> [P!Columns -> Nat \cup {P!Unknown}]]
  BY <1>1, <1>4 DEF Panels
<1> QED
  BY <1>1, <1>3, <1>5, <1>6, <1>7 DEF Panels

(* All of it, where it was meant to go.                                     *)
LEMMA WrittenWhole ==
  ASSUME PanelTypes, NEW first, NEW last, Span(oled_page, first, last), first <= last,
         oled_panel.page = oled_page, oled_panel.column = first
  PROVE  Arriving(last - first + 1, first) =
           [c \in P!Columns |-> IF c \in P!Changed(oled_page) THEN oled_Buffer[oled_page][c]
                                                             ELSE oled_panel.ram[oled_page][c]]
<1> USE PanelConstants
<1>1. first \in P!Columns /\ last \in P!Columns
  BY DEF Span
<1>2. ASSUME NEW c \in P!Columns
      PROVE  (IF (c - first) % SSD1306_WIDTH < last - first + 1
                THEN oled_Buffer[oled_page][first + ((c - first) % SSD1306_WIDTH)]
                ELSE oled_panel.ram[oled_page][c])
             = IF c \in P!Changed(oled_page) THEN oled_Buffer[oled_page][c]
                                             ELSE oled_panel.ram[oled_page][c]
  <2>1. PICK i \in Nat : i = (c - first) % SSD1306_WIDTH
    BY <1>1 DEF P!Columns
  <2>2. (i < last - first + 1 <=> first <= c /\ c <= last) /\ (first <= c => i = c - first)
    BY <1>1, <2>1, Reaches
  <2>3. first <= c => first + i = c
    BY <1>1, <2>2 DEF P!Columns
  <2>4. c \in P!Changed(oled_page) <=> first <= c /\ c <= last
    BY DEF Span
  <2> QED
    BY <2>1, <2>2, <2>3, <2>4
<1>3. oled_panel.page = oled_page /\ oled_panel.column = first
  OBVIOUS
<1> QED
  BY <1>2, <1>3 DEF Arriving

(* ssd1306.c: SSD1306_UpdatePage.  The copy follows what the panel got.     *)
LEMMA SendDataKeeps ==
  ASSUME PanelInv, P!SendData PROVE PanelInv'
<1> USE PanelConstants
<1>1. PanelTypes /\ Started /\ Copies /\ Settled /\ Cursor
  BY DEF PanelInv
<1>2. /\ oled_pc = "data" /\ P!NextPage
      /\ UNCHANGED <<oled_Buffer, oled_Contrast, oled_Rotation, oled_part, oled_plugged, oled_whole, oled_unseen>>
  BY DEF P!SendData
<1>3. oled_pc' \in {"page", "idle"} /\ oled_page' \in P!Pages
  BY <1>1, <1>2, GoesOn DEF PanelTypes
<1>4. PICK first, last : Span(oled_page, first, last)
  BY <1>1, <1>2, ChangedSpan DEF Cursor, PanelTypes
<1>5. first \in P!Columns /\ last \in P!Columns
  BY <1>4 DEF Span
<1>6. first <= last
  <2>1. PICK c : c \in P!Changed(oled_page)
    BY <1>1, <1>2 DEF Cursor
  <2> QED
    BY <1>4, <1>5, <2>1 DEF Span, P!Columns
<1>7. PICK n \in Nat : n = last - first + 1 /\ n > 0
  BY <1>5, <1>6 DEF P!Columns
<1>8. PICK after : after = P!Written(n, first)
  OBVIOUS
<1>9. PICK ok \in BOOLEAN : /\ P!I2C_Write(n, after, ok)
        /\ IF ok THEN /\ oled_Shadow' = [oled_Shadow EXCEPT ![oled_page] = P!Copied(oled_page)]
                      /\ oled_ForcePages' = oled_ForcePages \ {oled_page}
                      /\ UNCHANGED <<oled_Online, oled_Backoff>>
                 ELSE P!Failed /\ UNCHANGED <<oled_Shadow, oled_ForcePages>>
  BY <1>4, <1>7, <1>8 DEF P!SendData, Span
<1>10. \A k \in 0..n :
         /\ after[k] \in Panels
         /\ after[k].ram = [oled_panel.ram EXCEPT ![oled_panel.page] = Arriving(k, first)]
         /\ after[k].contrast = oled_panel.contrast /\ after[k].rotation = oled_panel.rotation
         /\ after[k].on = oled_panel.on
  BY <1>1, <1>4, <1>6, <1>7, <1>8, WrittenIs
<1>11. oled_panel' \in Panels /\ (ok => oled_plugged /\ oled_panel' = after[n])
  BY <1>1, <1>7, <1>9, <1>10, Transfers DEF PanelTypes
<1>12. CASE ok
  <2>1. /\ oled_Shadow' = [oled_Shadow EXCEPT ![oled_page] = P!Copied(oled_page)]
        /\ oled_ForcePages' = oled_ForcePages \ {oled_page}
        /\ UNCHANGED <<oled_Online, oled_Backoff>>
    BY <1>9, <1>12
  <2>2. oled_plugged /\ oled_Online
    BY <1>1, <1>2, <1>11, <1>12 DEF Started
  <2>3. /\ oled_panel'.contrast = oled_panel.contrast /\ oled_panel'.rotation = oled_panel.rotation
        /\ oled_panel'.on = oled_panel.on
    <3>1. n \in 0..n
      BY <1>7
    <3>2. oled_panel' = after[n]
      BY <1>11, <1>12
    <3>3. /\ after[n].contrast = oled_panel.contrast /\ after[n].rotation = oled_panel.rotation
          /\ after[n].on = oled_panel.on
      BY <1>10, <3>1
    <3> QED
      BY <3>2, <3>3
  <2>4. oled_Shadow' \in Picture
    <3>1. \A c \in P!Columns : oled_Buffer[oled_page][c] \in Nat /\ oled_Shadow[oled_page][c] \in Nat
      BY <1>1 DEF PanelTypes, Picture
    <3>2. P!Copied(oled_page) \in [P!Columns -> Nat]
      BY <3>1 DEF P!Copied
    <3> QED
      BY <1>1, <2>1, <3>2 DEF PanelTypes, Picture
  <2>5. PanelTypes'
    BY <1>1, <1>2, <1>3, <1>11, <2>1, <2>4 DEF PanelTypes
  <2>6. Copies'
    <3> SUFFICES ASSUME NEW p \in P!Pages, p \notin oled_ForcePages', ~oled_unseen
                 PROVE  oled_panel'.ram[p] = oled_Shadow'[p]
      BY <1>2 DEF Copies
    <3>1. oled_panel.page = oled_page /\ oled_panel.column = first
      BY <1>1, <1>2, <1>4, <2>2 DEF Cursor, Span
    <3>2. PICK row : /\ row = [c \in P!Columns |-> IF c \in P!Changed(oled_page) THEN oled_Buffer[oled_page][c]
                                                             ELSE oled_panel.ram[oled_page][c]]
                     /\ row = Arriving(n, first)
      BY <1>1, <1>4, <1>6, <1>7, <3>1, WrittenWhole
    <3>3. oled_panel'.ram = [oled_panel.ram EXCEPT ![oled_page] = row]
      BY <1>7, <1>10, <1>11, <1>12, <3>1, <3>2
    <3>4. row = P!Copied(oled_page)
      <4>1. CASE oled_page \in oled_ForcePages
        BY <3>2, <4>1 DEF P!Copied, P!Changed
      <4>2. CASE oled_page \notin oled_ForcePages
        <5>1. oled_panel.ram[oled_page] = oled_Shadow[oled_page]
          BY <1>1, <1>2, <2>2, <4>2 DEF Copies, PanelTypes
        <5> QED
          BY <3>2, <5>1 DEF P!Copied
      <4> QED
        BY <4>1, <4>2
    <3>5. oled_panel.ram \in [P!Pages -> [P!Columns -> Nat \cup {P!Unknown}]] /\ oled_Shadow \in Picture
      BY <1>1 DEF PanelTypes, Panels
    <3>6. CASE p = oled_page
      BY <2>1, <3>3, <3>4, <3>5, <3>6 DEF Picture
    <3>7. CASE p # oled_page
      <4>1. p \notin oled_ForcePages
        BY <2>1, <3>7
      <4>2. oled_panel.ram[p] = oled_Shadow[p]
        BY <1>1, <1>2, <2>2, <4>1 DEF Copies
      <4> QED
        BY <2>1, <3>3, <3>5, <3>7, <4>2 DEF Picture
    <3> QED
      BY <3>6, <3>7
  <2>7. Started' /\ Settled' /\ Cursor'
    BY <1>1, <1>2, <1>3, <2>1, <2>3 DEF Started, Settled, Cursor
  <2> QED
    BY <2>5, <2>6, <2>7 DEF PanelInv
<1>13. CASE ~ok
  <2>1. P!Failed /\ UNCHANGED <<oled_Shadow, oled_ForcePages>>
    BY <1>9, <1>13
  <2>2. oled_Online' \in BOOLEAN /\ ~oled_Online' /\ oled_Backoff' \in 0..SSD1306_RETRY_UPDATES
    BY <2>1, GivesUp
  <2>3. PanelTypes'
    BY <1>1, <1>2, <1>3, <1>11, <2>1, <2>2 DEF PanelTypes
  <2> QED
    BY <1>1, <1>2, <1>3, <2>2, <2>3 DEF PanelInv, Started, Copies, Settled, Cursor
<1> QED
  BY <1>12, <1>13

(* The next picture, and the next time it is sent.                          *)
LEMMA PictureKeeps ==
  ASSUME PanelInv, P!UpdateScreen \/ \E picture \in Pictures : P!Draw(picture) PROVE PanelInv'
<1>1. PanelTypes /\ Started /\ Copies /\ Settled /\ Cursor
  BY DEF PanelInv
<1>2. /\ oled_pc = "idle" /\ oled_pc' \in {"idle", "page"} /\ oled_Buffer' \in Picture
      /\ UNCHANGED <<oled_Shadow, oled_ForcePages, oled_Online, oled_Backoff, oled_Contrast, oled_Rotation,
                     oled_part, oled_page, oled_panel, oled_plugged, oled_whole, oled_unseen>>
  BY <1>1, PanelConstants DEF P!UpdateScreen, P!Draw, PanelTypes
<1>3. PanelTypes'
  BY <1>1, <1>2 DEF PanelTypes
<1> QED
  BY <1>1, <1>2, <1>3 DEF PanelInv, Started, Copies, Settled, Cursor

(* ssd1306.c: SSD1306_SetContrast.                                          *)
LEMMA SetContrastKeeps ==
  ASSUME PanelInv, NEW contrast \in Contrasts, P!SetContrast(contrast) PROVE PanelInv'
<1>1. PanelTypes /\ Started /\ Copies /\ Settled /\ Cursor
  BY DEF PanelInv
<1>2. /\ oled_pc = "idle" /\ oled_Contrast' = contrast
      /\ UNCHANGED <<oled_Buffer, oled_Shadow, oled_ForcePages, oled_Rotation, oled_pc, oled_part,
                     oled_page, oled_plugged, oled_whole, oled_unseen>>
  BY DEF P!SetContrast
<1>3. CASE oled_Online
  <2>1. PICK after : after = [k \in 0..1 |-> [oled_panel EXCEPT !.contrast = P!Arrived(k, 1, contrast, @)]]
    OBVIOUS
  <2>2. PICK ok \in BOOLEAN : P!WriteCommands(1, after, ok)
    BY <1>3, <2>1 DEF P!SetContrast, P!Brighter
  <2>3. /\ oled_Online' \in BOOLEAN /\ (oled_Online' <=> ok)
        /\ oled_Backoff' \in 0..SSD1306_RETRY_UPDATES /\ P!I2C_Write(1, after, ok)
    BY <1>1, <2>2, Remembers
  <2>4. \A k \in 0..1 : after[k] \in Panels
    <3> SUFFICES ASSUME NEW k \in 0..1 PROVE after[k] \in Panels
      OBVIOUS
    <3>1. P!Arrived(k, 1, contrast, oled_panel.contrast) \in Contrasts \cup {P!Unknown}
      BY <1>1 DEF P!Arrived, PanelTypes, Panels
    <3> QED
      BY <1>1, <2>1, <3>1 DEF PanelTypes, Panels
  <2>5. oled_panel' \in Panels /\ (ok => oled_plugged /\ oled_panel' = after[1])
    BY <1>1, <2>3, <2>4, Transfers DEF PanelTypes
  <2>6. P!Arrived(1, 1, contrast, oled_panel.contrast) = contrast
    BY DEF P!Arrived
  <2>7. after[1] = [oled_panel EXCEPT !.contrast = contrast]
    BY <2>1, <2>6
  <2>8. /\ after[1].contrast = contrast /\ after[1].ram = oled_panel.ram
        /\ after[1].rotation = oled_panel.rotation /\ after[1].on = oled_panel.on
    BY <1>1, <2>7 DEF PanelTypes, Panels
  <2>9. PanelTypes'
    BY <1>1, <1>2, <2>3, <2>5 DEF PanelTypes
  <2> QED
    BY <1>1, <1>2, <1>3, <2>3, <2>5, <2>8, <2>9 DEF PanelInv, Started, Copies, Settled, Cursor
<1>4. CASE ~oled_Online
  <2>1. UNCHANGED <<oled_panel, oled_Online, oled_Backoff>>
    BY <1>4 DEF P!SetContrast
  <2>2. PanelTypes'
    BY <1>1, <1>2, <2>1 DEF PanelTypes
  <2> QED
    BY <1>1, <1>2, <1>4, <2>1, <2>2 DEF PanelInv, Started, Copies, Settled, Cursor
<1> QED
  BY <1>3, <1>4

(* A panel that is away, and one that is back, is not taken for started.    *)
LEMMA AwayKeeps ==
  ASSUME PanelInv, P!Vanish \/ P!ComeBack PROVE PanelInv'
<1>1. PanelTypes /\ Started /\ Copies /\ Settled /\ Cursor
  BY DEF PanelInv
<1>2. CASE P!Vanish
  <2>1. /\ oled_plugged' = FALSE /\ oled_panel' = P!SwitchedOn
        /\ UNCHANGED <<oled_Buffer, oled_Shadow, oled_ForcePages, oled_Online, oled_Backoff, oled_Contrast,
                       oled_Rotation, oled_pc, oled_part, oled_page, oled_whole, oled_unseen>>
    BY <1>2 DEF P!Vanish
  <2>2. oled_plugged' \in BOOLEAN /\ ~oled_plugged'
    BY <2>1, Zenon
  <2>3. PanelTypes'
    BY <1>1, <2>1, <2>2, PanelConstants DEF PanelTypes
  <2>4. Started' /\ Copies' /\ Settled'
    BY <1>1, <2>1, <2>2 DEF Started, Copies, Settled
  <2>5. P!Changed(oled_page)' = P!Changed(oled_page)
    BY <2>1 DEF P!Changed
  <2>6. Cursor'
    BY <1>1, <2>1, <2>2, <2>5 DEF Cursor
  <2> QED
    BY <2>3, <2>4, <2>6 DEF PanelInv
<1>3. CASE P!ComeBack
  <2>1. /\ oled_plugged' = TRUE /\ oled_unseen' = (oled_unseen \/ oled_Online)
        /\ UNCHANGED <<oled_Buffer, oled_Shadow, oled_ForcePages, oled_Online, oled_Backoff, oled_Contrast,
                       oled_Rotation, oled_pc, oled_part, oled_page, oled_panel, oled_whole>>
    BY <1>3 DEF P!ComeBack
  <2>2. /\ oled_plugged' \in BOOLEAN /\ oled_unseen' \in BOOLEAN
        /\ oled_Online => oled_unseen'
    BY <2>1, Zenon
  <2>3. PanelTypes'
    BY <1>1, <2>1, <2>2 DEF PanelTypes
  <2>4. Started' /\ Copies' /\ Settled'
    BY <1>1, <2>1, <2>2 DEF Started, Copies, Settled
  <2>5. P!Changed(oled_page)' = P!Changed(oled_page)
    BY <2>1 DEF P!Changed
  <2>6. Cursor'
    BY <1>1, <2>1, <2>2, <2>5 DEF Cursor, Started
  <2> QED
    BY <2>3, <2>4, <2>6 DEF PanelInv
<1> QED
  BY <1>2, <1>3

(* No step of the driver or of the panel breaks the invariant.              *)
LEMMA PanelKeeps ==
  ASSUME PanelInv, P!Next \/ UNCHANGED panelVars PROVE PanelInv'
<1>1. CASE UNCHANGED panelVars
  <2>1. P!Changed(oled_page)' = P!Changed(oled_page)
    BY <1>1 DEF P!Changed, panelVars
  <2>2. Cursor'
    BY <1>1, <2>1 DEF PanelInv, Cursor, P!First, panelVars
  <2> QED
    BY <1>1, <2>2 DEF panelVars, PanelInv, PanelTypes, Started, Copies, Settled
<1>2. CASE P!SendInit
  <2>1. oled_part < 3 \/ oled_part = 3
    BY DEF PanelInv, PanelTypes
  <2> QED
    BY <1>2, <2>1, SendInitBegins, SendInitEnds
<1>3. CASE P!Next /\ ~P!SendInit
  BY <1>3, UpdatePageKeeps, SendAddressKeeps, SendDataKeeps, PictureKeeps, SetContrastKeeps, AwayKeeps
     DEF P!Next, P!Task
<1> QED
  BY <1>1, <1>2, <1>3

(* ssd1306.c: the invariant of the display's driver.                        *)
THEOREM PanelInvariant == Spec => [](active = "panel" => PanelInv)
<1>1. Init => (active = "panel" => PanelInv)
  BY PanelBegins DEF Init
<1>2. (active = "panel" => PanelInv) /\ [Next]_vars => (active = "panel" => PanelInv)'
  <2> SUFFICES ASSUME active = "panel" => PanelInv, [Next]_vars, active' = "panel"
               PROVE  PanelInv'
    OBVIOUS
  <2>1. active = "panel" /\ (P!Next \/ UNCHANGED panelVars)
    BY DEF Next, vars
  <2> QED
    BY <2>1, PanelKeeps
<1> QED
  BY <1>1, <1>2, PTL DEF Spec

(* ssd1306.c: what the driver takes for shown is what the panel shows, and  *)
(* a panel that was started has the settings asked for last.                *)
THEOREM PanelCorrect == Spec => []PanelAsKnown
<1>1. PanelInv => P!TypeOK /\ P!PanelAsKnown
  BY DEF PanelInv, PanelTypes, Picture, Copies, Settled, P!TypeOK, P!PanelAsKnown
<1>2. (active = "panel" => PanelInv) => PanelAsKnown
  BY <1>1 DEF PanelAsKnown
<1> QED
  BY <1>2, PanelInvariant, PTL

-----------------------------------------------------------------------------
(* The two-wire bus.  The invariant says, level for level, what the panel   *)
(* has of the transfer: at a level inside a byte the bits that have passed, *)
(* behind it the answer, and of a transfer that found the panel free all    *)
(* bytes before that one.                                                   *)

(* The panel's side: a panel that pulls the data line has eight bits, and a *)
(* byte has no more bits than clocks.                                       *)
Bytes == 0..255
Listeners == [in : BOOLEAN, n : Nat, byte : Nat, pulls : BOOLEAN, got : Seq(Bytes)]
Listening(p) ==
  /\ p \in Listeners /\ p.n \in 0..8 /\ p.byte \in Bytes /\ p.byte < B!Powers[p.n + 1]
  /\ p.pulls => p.in /\ p.n = 8

(* Sizes of what n bits can say.                                            *)
LEMMA PowersAre ==
  /\ \A n \in 0..8 : B!Powers[n + 1] \in 1..256
  /\ \A n \in 0..7 : B!Powers[n + 2] = 2 * B!Powers[n + 1]
  /\ B!Powers[1] = 1 /\ B!Powers[9] = 256
  BY DEF B!Powers

(* One bit more of a byte.                                                  *)
LEMMA NextBit ==
  ASSUME NEW b \in Bytes, NEW n \in 0..7
  PROVE  /\ B!Bit(b, 7 - n) \in 0..1
         /\ 2 * (b \div B!Powers[9 - n]) + B!Bit(b, 7 - n) = b \div B!Powers[8 - n]
<1>1. n = 0 \/ n = 1 \/ n = 2 \/ n = 3 \/ n = 4 \/ n = 5 \/ n = 6 \/ n = 7
  OBVIOUS
<1>2. CASE n = 0
  BY <1>2 DEF B!Bit, B!Powers, Bytes
<1>3. CASE n = 1
  BY <1>3 DEF B!Bit, B!Powers, Bytes
<1>4. CASE n = 2
  BY <1>4 DEF B!Bit, B!Powers, Bytes
<1>5. CASE n = 3
  BY <1>5 DEF B!Bit, B!Powers, Bytes
<1>6. CASE n = 4
  BY <1>6 DEF B!Bit, B!Powers, Bytes
<1>7. CASE n = 5
  BY <1>7 DEF B!Bit, B!Powers, Bytes
<1>8. CASE n = 6
  BY <1>8 DEF B!Bit, B!Powers, Bytes
<1>9. CASE n = 7
  BY <1>9 DEF B!Bit, B!Powers, Bytes
<1> QED
  BY <1>1, <1>2, <1>3, <1>4, <1>5, <1>6, <1>7, <1>8, <1>9

(* A listener by its fields.                                                *)
LEMMA ListenerIs ==
  ASSUME NEW p, Listening(p)
  PROVE  /\ p \in Listeners
         /\ p.in \in BOOLEAN /\ p.n \in 0..8 /\ p.byte \in Bytes /\ p.pulls \in BOOLEAN
         /\ p.n \in Nat /\ p.byte \in Nat
         /\ p.got \in Seq(Bytes) /\ p.byte < B!Powers[p.n + 1]
         /\ p.pulls => p.in /\ p.n = 8
BY DEF Listening, Listeners

(* The data line moves: nothing, a start or a stop.                         *)
LEMMA SdaMovesIs ==
  ASSUME NEW p, Listening(p), NEW from \in 0..1, NEW to \in 0..1, NEW scl \in 0..1,
         NEW q, q = B!SdaMoves(p, from, to, scl)
  PROVE  /\ scl = 0 \/ from = to => q = p
         /\ ~(scl = 0 \/ from = to) /\ to = 0 =>
              Listening(q) /\ q.in /\ q.n = 0 /\ q.byte = 0 /\ ~q.pulls /\ q.got = << >>
         /\ ~(scl = 0 \/ from = to) /\ to # 0 /\ ~p.pulls =>
              Listening(q) /\ ~q.in /\ q.n = 0 /\ q.byte = 0 /\ ~q.pulls /\ q.got = p.got
<1>1. 0 \in Bytes /\ 0 \in 0..8 /\ 0 < B!Powers[0 + 1]
  BY PowersAre DEF Bytes
<1>2. CASE scl = 0 \/ from = to
  BY <1>2 DEF B!SdaMoves
<1>3. CASE ~(scl = 0 \/ from = to) /\ to = 0
  <2>1. << >> \in Seq(Bytes)
    BY EmptySeq
  <2>2. B!Free \in Listeners
    BY <2>1 DEF B!Free, Listeners
  <2>3. q = [B!Free EXCEPT !.in = TRUE]
    BY <1>3 DEF B!SdaMoves
  <2>4. q \in Listeners
    BY <2>2, <2>3 DEF Listeners
  <2>5. q.in /\ q.n = 0 /\ q.byte = 0 /\ ~q.pulls /\ q.got = << >>
    BY <2>2, <2>3 DEF B!Free, Listeners
  <2>6. Listening(q)
    BY <1>1, <2>4, <2>5 DEF Listening
  <2> QED
    BY <1>3, <2>5, <2>6
<1>4. CASE ~(scl = 0 \/ from = to) /\ to # 0 /\ ~p.pulls
  <2>1. q = [p EXCEPT !.in = FALSE, !.n = 0, !.byte = 0]
    BY <1>4 DEF B!SdaMoves
  <2>2. q \in Listeners
    <3>1. p \in Listeners
      BY DEF Listening
    <3>2. [p EXCEPT !.in = FALSE, !.n = 0, !.byte = 0] \in Listeners
      BY <3>1 DEF Listeners
    <3> QED
      BY <2>1, <3>2
  <2>3. ~q.in /\ q.n = 0 /\ q.byte = 0 /\ (q.pulls <=> p.pulls) /\ q.got = p.got
    BY <2>1 DEF Listening, Listeners
  <2>4. Listening(q)
    BY <1>1, <1>4, <2>2, <2>3 DEF Listening
  <2> QED
    BY <1>4, <2>3, <2>4
<1> QED
  BY <1>2, <1>3, <1>4

(* The clock rises: one bit more, or nothing.                               *)
LEMMA SclRisesIs ==
  ASSUME NEW p, Listening(p), NEW sda \in 0..1, NEW q, q = B!SclRises(p, sda)
  PROVE  /\ ~(p.in /\ p.n < 8) => q = p
         /\ p.in /\ p.n < 8 =>
              Listening(q) /\ q.in /\ q.n = p.n + 1 /\ q.byte = 2 * p.byte + sda
              /\ ~q.pulls /\ q.got = p.got
<1>1. CASE p.in /\ p.n < 8
  <2>1. PICK n \in 0..7 : n = p.n
    BY <1>1, ListenerIs
  <2>2. PICK byte \in Bytes : byte = p.byte /\ byte < B!Powers[n + 1]
    BY <2>1, ListenerIs
  <2>3. PICK c \in 1..256, d \in 1..256 : c = B!Powers[n + 1] /\ d = B!Powers[n + 2] /\ d = 2 * c
    BY PowersAre
  <2>4. 2 * byte + sda < d /\ 2 * byte + sda \in Bytes
    BY <2>2, <2>3 DEF Bytes
  <2>5. n + 1 \in 0..8 /\ n + 2 = (n + 1) + 1
    BY <2>1
  <2>6. 2 * byte + sda < B!Powers[(n + 1) + 1]
    BY <2>3, <2>4, <2>5
  <2>7. ~p.pulls
    BY <1>1, <2>1, ListenerIs
  <2>8. q = [p EXCEPT !.n = n + 1, !.byte = 2 * byte + sda]
    BY <1>1, <2>1, <2>2 DEF B!SclRises
  <2>9. n + 1 \in Nat /\ 2 * byte + sda \in Nat
    BY <2>2 DEF Bytes
  <2>10. q \in Listeners
    BY <2>8, <2>9 DEF Listening, Listeners
  <2>11. (q.in <=> p.in) /\ q.n = n + 1 /\ q.byte = 2 * byte + sda /\ (q.pulls <=> p.pulls) /\ q.got = p.got
    BY <2>8 DEF Listening, Listeners
  <2>12. Listening(q)
    BY <2>4, <2>5, <2>6, <2>7, <2>10, <2>11 DEF Listening
  <2> QED
    BY <1>1, <2>1, <2>2, <2>7, <2>11, <2>12
<1>2. CASE ~(p.in /\ p.n < 8)
  BY <1>2 DEF B!SclRises
<1> QED
  BY <1>1, <1>2

(* The clock falls: the panel lets go of the data line, or it begins to     *)
(* answer a byte, or it loses its interest, or nothing.                     *)
LEMMA SclFallsIs ==
  ASSUME NEW p, Listening(p), NEW answers \in BOOLEAN, NEW q, q = B!SclFalls(p, answers)
  PROVE  /\ p.pulls =>
              Listening(q) /\ q.in /\ q.n = 0 /\ q.byte = 0 /\ ~q.pulls /\ q.got = p.got
         /\ ~p.pulls /\ (~p.in \/ p.n < 8) => q = p
         /\ ~p.pulls /\ p.in /\ p.n = 8 /\ answers =>
              Listening(q) /\ q.in /\ q.n = 8 /\ q.byte = p.byte /\ q.pulls /\ q.got = Append(p.got, p.byte)
         /\ ~p.pulls /\ p.in /\ p.n = 8 /\ ~answers =>
              Listening(q) /\ ~q.in /\ q.n = 0 /\ q.byte = 0 /\ ~q.pulls /\ q.got = p.got
<1>1. 0 \in Bytes /\ 0 \in 0..8 /\ 0 < B!Powers[0 + 1]
  BY PowersAre DEF Bytes
<1>2. CASE p.pulls
  <2>1. q = [p EXCEPT !.pulls = FALSE, !.n = 0, !.byte = 0]
    BY <1>2 DEF B!SclFalls
  <2>2. q \in Listeners
    <3>1. p \in Listeners
      BY DEF Listening
    <3>2. [p EXCEPT !.pulls = FALSE, !.n = 0, !.byte = 0] \in Listeners
      BY <3>1 DEF Listeners
    <3> QED
      BY <2>1, <3>2
  <2>3. (q.in <=> p.in) /\ q.n = 0 /\ q.byte = 0 /\ ~q.pulls /\ q.got = p.got
    BY <2>1 DEF Listening, Listeners
  <2>4. Listening(q)
    BY <1>1, <2>2, <2>3 DEF Listening
  <2> QED
    BY <1>2, <2>3, <2>4, ListenerIs
<1>3. CASE ~p.pulls /\ (~p.in \/ p.n < 8)
  <2>1. ~p.pulls /\ (~p.in \/ p.n < 8) => p.n # 8 \/ ~p.in
    BY ListenerIs
  <2> QED
    BY <1>3, <2>1 DEF B!SclFalls
<1>4. CASE ~p.pulls /\ p.in /\ p.n = 8 /\ answers
  <2>1. q = [p EXCEPT !.pulls = TRUE, !.got = Append(@, p.byte)]
    BY <1>4 DEF B!SclFalls
  <2>2. Append(p.got, p.byte) \in Seq(Bytes)
    BY ListenerIs, AppendProperties
  <2>3. q \in Listeners
    BY <2>1, <2>2 DEF Listening, Listeners
  <2>4. (q.in <=> p.in) /\ q.n = p.n /\ q.byte = p.byte /\ q.pulls /\ q.got = Append(p.got, p.byte)
    BY <2>1 DEF Listening, Listeners
  <2>5. Listening(q)
    BY <1>4, <2>3, <2>4, ListenerIs DEF Listening
  <2>6. ~(8 < 8)
    OBVIOUS
  <2>7. q.in /\ q.pulls /\ ~p.pulls /\ p.in /\ answers /\ p.n = 8 /\ q.n = 8
    BY <1>4, <2>4, Zenon
  <2>8. ~(p.n < 8)
    BY <2>6, <2>7, Zenon
  <2> QED
    BY <2>4, <2>5, <2>7, <2>8, Zenon
<1>5. CASE ~p.pulls /\ p.in /\ p.n = 8 /\ ~answers
  <2>1. q = [p EXCEPT !.in = FALSE, !.n = 0, !.byte = 0]
    BY <1>5 DEF B!SclFalls
  <2>2. q \in Listeners
    <3>1. p \in Listeners
      BY DEF Listening
    <3>2. [p EXCEPT !.in = FALSE, !.n = 0, !.byte = 0] \in Listeners
      BY <3>1 DEF Listeners
    <3> QED
      BY <2>1, <3>2
  <2>3. ~q.in /\ q.n = 0 /\ q.byte = 0 /\ (q.pulls <=> p.pulls) /\ q.got = p.got
    BY <2>1 DEF Listening, Listeners
  <2>4. Listening(q)
    BY <1>1, <1>5, <2>2, <2>3 DEF Listening
  <2> QED
    BY <1>5, <2>3, <2>4
<1> QED
  BY <1>2, <1>3, <1>4, <1>5, ListenerIs

(* The data line.                                                           *)
LEMMA LineIs ==
  ASSUME NEW p, Listening(p), NEW sda \in 0..1
  PROVE  /\ B!Line(sda, p) \in 0..1
         /\ p.pulls => B!Line(sda, p) = 0
         /\ ~p.pulls => B!Line(sda, p) = sda
BY ListenerIs DEF B!Line

(* setDC by what the lines do.                                              *)
LEMMA SetDC ==
  ASSUME Listening(bus_panel), NEW d \in 0..1, NEW c \in 0..1, NEW sda \in 0..1, NEW scl \in 0..1,
         bus_m_nLast = <<d, c>>, B!setDC(sda, scl)
  PROVE  /\ bus_m_nLast' = <<sda, scl>> /\ Listening(bus_panel')
         /\ c = scl /\ (c = 0 \/ d = sda \/ bus_panel.pulls) => bus_panel' = bus_panel
         /\ c = 0 /\ scl = 1 => bus_panel' = B!SclRises(bus_panel, B!Line(sda, bus_panel))
         /\ c = 1 /\ scl = 0 /\ d = sda => \E a \in BOOLEAN : bus_panel' = B!SclFalls(bus_panel, a)
         /\ c = 1 /\ scl = 1 /\ d # sda /\ ~bus_panel.pulls =>
              bus_panel' = B!SdaMoves(bus_panel, d, sda, 1)
<1> DEFINE p == B!AfterSda(sda)
           from == B!Line(d, bus_panel)
           to == B!Line(sda, bus_panel)
<1>1. bus_m_nLast[1] = d /\ bus_m_nLast[2] = c
  OBVIOUS
<1>2. from \in 0..1 /\ to \in 0..1 /\ (bus_panel.pulls => from = to) /\ (~bus_panel.pulls => from = d /\ to = sda)
  BY LineIs
<1>3. p = B!SdaMoves(bus_panel, from, to, c)
  BY <1>1, Zenon DEF B!AfterSda
<1> HIDE DEF p, from, to
<1>4. Listening(p)
  <2>1. bus_panel.pulls \in BOOLEAN
    BY ListenerIs
  <2>2. CASE c = 0 \/ from = to
    BY <1>2, <1>3, <2>2, SdaMovesIs
  <2>3. CASE ~(c = 0 \/ from = to)
    <3>1. ~bus_panel.pulls
      BY <1>2, <2>3
    <3> QED
      BY <1>2, <1>3, <2>3, <3>1, SdaMovesIs
  <2> QED
    BY <2>2, <2>3
<1>5. bus_m_nLast' = <<sda, scl>>
  BY DEF B!setDC
<1>6. PICK a \in BOOLEAN : bus_panel' = B!Hears(p, sda, scl, a)
  <2>1. bus_panel' = B!Hears(p, sda, scl, B!Answers(p)) \/ bus_panel' = B!Hears(p, sda, scl, FALSE)
    BY Zenon DEF B!setDC, p
  <2>2. B!Answers(p) \in BOOLEAN
    BY DEF B!Answers
  <2> QED
    BY <2>1, <2>2, Zenon
<1>7. /\ c = scl => bus_panel' = p
      /\ c = 0 /\ scl = 1 => bus_panel' = B!SclRises(p, B!Line(sda, p))
      /\ c = 1 /\ scl = 0 => bus_panel' = B!SclFalls(p, a)
  BY <1>1, <1>6 DEF B!Hears
<1>8. Listening(bus_panel')
  <2>1. CASE c = scl
    BY <1>4, <1>7, <2>1
  <2>2. CASE c = 0 /\ scl = 1
    <3>1. B!Line(sda, p) \in 0..1
      BY <1>4, LineIs
    <3> QED
      BY <1>4, <1>7, <2>2, <3>1, SclRisesIs
  <2>3. CASE c = 1 /\ scl = 0
    <3>1. \/ p.pulls
          \/ ~p.pulls /\ (~p.in \/ p.n < 8)
          \/ ~p.pulls /\ p.in /\ p.n = 8 /\ a
          \/ ~p.pulls /\ p.in /\ p.n = 8 /\ ~a
      <4>1. p.n \in 0..8
        BY <1>4, ListenerIs
      <4>2. p.n < 8 \/ p.n = 8
        BY <4>1
      <4> QED
        BY <4>2, Zenon
    <3>2. bus_panel' = B!SclFalls(p, a)
      BY <1>7, <2>3
    <3> QED
      BY <1>4, <3>1, <3>2, SclFallsIs, Zenon
  <2> QED
    BY <2>1, <2>2, <2>3
<1>9. c = 0 \/ from = to => p = bus_panel
  BY <1>2, <1>3, SdaMovesIs
<1>10. d = sda => from = to
  BY DEF from, to
<1>11. c = scl /\ (c = 0 \/ d = sda \/ bus_panel.pulls) => bus_panel' = bus_panel
  BY <1>2, <1>7, <1>9, <1>10
<1>12. c = 0 /\ scl = 1 => bus_panel' = B!SclRises(bus_panel, B!Line(sda, bus_panel))
  BY <1>7, <1>9
<1>13. c = 1 /\ scl = 0 /\ d = sda => bus_panel' = B!SclFalls(bus_panel, a)
  BY <1>7, <1>9, <1>10
<1>14. c = 1 /\ scl = 1 /\ d # sda /\ ~bus_panel.pulls => bus_panel' = B!SdaMoves(bus_panel, d, sda, 1)
  BY <1>2, <1>3, <1>7
<1> QED
  BY <1>5, <1>8, <1>11, <1>12, <1>13, <1>14

(* The levels of the calls.                                                 *)
LEMMA StartLevels ==
  ASSUME NEW d \in 0..1, NEW c \in 0..1, bus_m_nLast = <<d, c>>
  PROVE  /\ Len(B!master_start) = 3 /\ Len(B!master_stop) = 3 /\ Len(B!getAck) = 4
         /\ B!master_start[1] = <<1, c>> /\ B!master_start[2] = <<1, 1>> /\ B!master_start[3] = <<0, 1>>
         /\ B!master_stop[1] = <<0, c>> /\ B!master_stop[2] = <<0, 1>> /\ B!master_stop[3] = <<1, 1>>
         /\ B!getAck[1] = <<d, 0>> /\ B!getAck[2] = <<1, 0>> /\ B!getAck[3] = <<1, 1>> /\ B!getAck[4] = <<1, 0>>
BY DEF B!master_start, B!master_stop, B!getAck

(* The first level of a byte lets the clock fall, and then three levels are *)
(* a bit.                                                                   *)
LEMMA ByteLevels ==
  ASSUME NEW d \in 0..1, NEW c \in 0..1, bus_m_nLast = <<d, c>>, NEW b \in Bytes
  PROVE  /\ Len(B!master_writeByte(b)) = 25
         /\ B!master_writeByte(b)[1] = <<d, 0>>
         /\ \A j \in 0..7 :
              /\ B!master_writeByte(b)[3 * j + 2] = <<B!Bit(b, 7 - j), 0>>
              /\ B!master_writeByte(b)[3 * j + 3] = <<B!Bit(b, 7 - j), 1>>
              /\ B!master_writeByte(b)[3 * j + 4] = <<B!Bit(b, 7 - j), 0>>
<1>1. Len(B!master_writeByte(b)) = 25
  BY DEF B!master_writeByte
<1>2. B!master_writeByte(b)[1] = <<d, 0>>
  BY DEF B!master_writeByte
<1>3. ASSUME NEW j \in 0..7
      PROVE  /\ B!master_writeByte(b)[3 * j + 2] = <<B!Bit(b, 7 - j), 0>>
             /\ B!master_writeByte(b)[3 * j + 3] = <<B!Bit(b, 7 - j), 1>>
             /\ B!master_writeByte(b)[3 * j + 4] = <<B!Bit(b, 7 - j), 0>>
  <2>1. ((3 * j + 2) - 2) \div 3 = j /\ ((3 * j + 3) - 2) \div 3 = j /\ ((3 * j + 4) - 2) \div 3 = j
    OBVIOUS
  <2>2. (3 * j + 2) % 3 = 2 /\ (3 * j + 3) % 3 = 0 /\ (3 * j + 4) % 3 = 1
    OBVIOUS
  <2>3. 3 * j + 2 \in 2..25 /\ 3 * j + 3 \in 2..25 /\ 3 * j + 4 \in 2..25
    OBVIOUS
  <2>4. \A n \in 2..25 : B!master_writeByte(b)[n] =
          <<B!Bit(b, 7 - ((n - 2) \div 3)), IF n % 3 = 0 THEN 1 ELSE 0>>
    BY DEF B!master_writeByte
  <2> QED
    BY <2>1, <2>2, <2>3, <2>4
<1> QED
  BY <1>1, <1>2, <1>3

(* The levels of master_init are levels, and at the end the lines are high. *)
LEMMA InitLevels ==
  /\ Len(B!master_init) = 62
  /\ \A n \in 1..62 : \E sda \in 0..1, scl \in 0..1 : B!master_init[n] = <<sda, scl>>
  /\ B!master_init[62] = <<1, 1>>
<1>1. Len(B!master_init) = 62
  BY DEF B!master_init
<1>2. ASSUME NEW n \in 1..62
      PROVE  \E sda \in 0..1, scl \in 0..1 : B!master_init[n] = <<sda, scl>>
  <2>1. B!master_init[n] = <<IF n \in {2, 60, 61} THEN 0 ELSE 1, IF n < 4 THEN 0 ELSE IF n < 60 THEN n % 2 ELSE 1>>
    BY DEF B!master_init
  <2>2. (IF n \in {2, 60, 61} THEN 0 ELSE 1) \in 0..1
    OBVIOUS
  <2>3. (IF n < 4 THEN 0 ELSE IF n < 60 THEN n % 2 ELSE 1) \in 0..1
    OBVIOUS
  <2> QED
    BY <2>1, <2>2, <2>3, Zenon
<1>3. B!master_init[62] = <<1, 1>>
  BY DEF B!master_init
<1> QED
  BY <1>1, <1>2, <1>3, Zenon
-----------------------------------------------------------------------------
(* The transfer: what the panel has of it at every level.                   *)
First(j) == Len(bus_panel.got) = j /\ \A k \in 1..j : bus_panel.got[k] = bus_wanted[k]
Sent == bus_wanted[bus_i]

(* Ready for the next bit, j of them taken.                                 *)
Taking(j) ==
  /\ bus_panel.in /\ ~bus_panel.pulls /\ bus_panel.n = j
  /\ bus_panel.byte = Sent \div B!Powers[9 - j]
Answering == bus_panel.in /\ bus_panel.pulls
Deaf == ~bus_panel.in /\ ~bus_panel.pulls
Empty == bus_panel.in /\ bus_panel.n = 0 /\ bus_panel.byte = 0 /\ ~bus_panel.pulls

(* The start has been driven; a panel that held the data line did not see it. *)
Began ==
  /\ bus_m_nLast = <<0, 1>> /\ bus_i = 1
  /\ bus_panel.pulls \/ (Empty /\ bus_panel.got = << >>)
  /\ bus_free => ~bus_panel.pulls

BusTypes ==
  /\ bus_m_nLast \in (0..1) \X (0..1)
  /\ bus_pc \in {"off", "idle", "init", "start", "byte", "ack", "stop"}
  /\ bus_ret \in BOOLEAN /\ bus_free \in BOOLEAN
  /\ bus_driven \in Nat /\ bus_i \in Nat
  /\ bus_wanted \in Seq(Bytes)
  /\ Listening(bus_panel)

Initing ==
  /\ bus_wanted = << >> /\ bus_driven \in 0..62
  /\ bus_driven = 62 => bus_m_nLast = <<1, 1>>
Starting ==
  /\ bus_ret /\ bus_i = 1 /\ Len(bus_wanted) > 0 /\ bus_driven \in 0..3
  /\ bus_driven < 3 => bus_m_nLast = <<1, 1>> /\ (bus_free => ~bus_panel.in)
  /\ bus_driven = 3 => Began
Sending ==
  /\ bus_ret /\ bus_i \in 1..Len(bus_wanted) /\ bus_driven \in 0..25
  /\ bus_driven = 0 => Began \/ (bus_m_nLast[2] = 0 /\ Empty)
  /\ \A j \in 0..7 :
       /\ bus_driven \in {3 * j + 1, 3 * j + 2} => bus_m_nLast[2] = 0 /\ Taking(j)
       /\ bus_driven = 3 * j + 3 => bus_m_nLast = <<B!Bit(Sent, 7 - j), 1>> /\ Taking(j + 1)
  /\ bus_driven = 25 => bus_m_nLast[2] = 0 /\ (Answering \/ Deaf)
  /\ bus_free => First(IF bus_driven = 25 /\ bus_panel.pulls THEN bus_i ELSE bus_i - 1)
Acking ==
  /\ bus_i \in 1..Len(bus_wanted) /\ bus_driven \in 0..4
  /\ bus_driven < 3 => bus_ret
  /\ bus_driven < 4 => Answering \/ Deaf
  /\ bus_driven < 2 => bus_m_nLast[2] = 0
  /\ bus_driven = 2 => bus_m_nLast = <<1, 0>>
  /\ bus_driven = 3 => bus_m_nLast = <<1, 1>> /\ (bus_ret <=> bus_panel.pulls)
  /\ bus_driven = 4 => bus_m_nLast = <<1, 0>> /\ (IF bus_ret THEN Empty ELSE Deaf)
  /\ bus_free => First(IF bus_panel.pulls \/ (bus_driven = 4 /\ bus_ret) THEN bus_i ELSE bus_i - 1)
(* What a transfer has brought once no byte is under way.                   *)
Brought ==
  /\ bus_i \in 1..Len(bus_wanted) /\ (bus_ret => bus_i = Len(bus_wanted))
  /\ ~bus_panel.pulls
  /\ bus_free => First(IF bus_ret THEN bus_i ELSE bus_i - 1)
Stopping ==
  /\ Brought /\ bus_driven \in 0..3
  /\ bus_driven < 2 => bus_m_nLast[2] = 0
  /\ bus_driven = 1 => bus_m_nLast = <<0, 0>>
  /\ bus_driven = 2 => bus_m_nLast = <<0, 1>>
  /\ bus_driven = 3 => bus_m_nLast = <<1, 1>> /\ ~bus_panel.in
Idling ==
  /\ bus_m_nLast = <<1, 1>>
  /\ bus_wanted # << >> => Brought /\ ~bus_panel.in

BusInv ==
  /\ BusTypes
  /\ bus_pc = "off" => bus_wanted = << >> /\ bus_m_nLast = <<1, 1>>
  /\ bus_pc = "init" => Initing
  /\ bus_pc = "idle" => Idling
  /\ bus_pc = "start" => Starting
  /\ bus_pc = "byte" => Sending
  /\ bus_pc = "ack" => Acking
  /\ bus_pc = "stop" => Stopping

(* A call drives a level.                                                   *)
LEMMA DrivesIs ==
  ASSUME BusTypes, NEW d \in 0..1, NEW c \in 0..1, bus_m_nLast = <<d, c>>,
         NEW sda \in 0..1, NEW scl \in 0..1, NEW call, NEW levels,
         B!Drives(call, levels), levels[bus_driven + 1] = <<sda, scl>>, bus_ret' \in BOOLEAN
  PROVE  /\ BusTypes'
         /\ bus_pc = call /\ bus_driven < Len(levels) /\ bus_driven' = bus_driven + 1
         /\ UNCHANGED <<bus_pc, bus_i, bus_wanted, bus_free>>
         /\ B!setDC(sda, scl)
         /\ bus_m_nLast' = <<sda, scl>>
<1>1. /\ bus_pc = call /\ bus_driven < Len(levels) /\ bus_driven' = bus_driven + 1
      /\ UNCHANGED <<bus_pc, bus_i, bus_wanted, bus_free>>
  BY DEF B!Drives
<1>2. B!setDC(levels[bus_driven + 1][1], levels[bus_driven + 1][2])
  BY Zenon DEF B!Drives
<1>3. levels[bus_driven + 1][1] = sda /\ levels[bus_driven + 1][2] = scl
  OBVIOUS
<1>4. B!setDC(sda, scl)
  BY <1>2, <1>3, Zenon
<1>5. Listening(bus_panel)
  BY DEF BusTypes
<1>6. bus_m_nLast' = <<sda, scl>> /\ Listening(bus_panel')
  BY <1>4, <1>5, SetDC
<1>7. bus_driven' \in Nat
  BY <1>1 DEF BusTypes
<1>8. bus_m_nLast' \in (0..1) \X (0..1)
  BY <1>6
<1>9. BusTypes'
  BY <1>1, <1>6, <1>7, <1>8 DEF BusTypes
<1> QED
  BY <1>1, <1>4, <1>6, <1>9

(* The start of a transfer.                                                 *)
LEMMA DrivesStart ==
  ASSUME BusInv, B!Drives("start", B!master_start), UNCHANGED bus_ret
  PROVE  BusInv'
<1>1. PICK d \in 0..1, c \in 0..1 : bus_m_nLast = <<d, c>>
  BY DEF BusInv, BusTypes
<1>2. bus_pc = "start" /\ bus_driven < Len(B!master_start)
  BY Zenon DEF B!Drives
<1>3. Starting /\ BusTypes /\ bus_ret' \in BOOLEAN /\ Listening(bus_panel)
  BY <1>2 DEF BusInv, BusTypes
<1>4. Len(B!master_start) = 3 /\ B!master_start[1] = <<1, c>>
      /\ B!master_start[2] = <<1, 1>> /\ B!master_start[3] = <<0, 1>>
  BY <1>1, StartLevels
<1>5. bus_driven \in 0..2 /\ d = 1 /\ c = 1 /\ bus_m_nLast = <<1, 1>> /\ (bus_free => ~bus_panel.in)
  BY <1>1, <1>2, <1>3, <1>4 DEF Starting
<1>6. CASE bus_driven \in 0..1
  <2>1. B!master_start[bus_driven + 1] = <<1, 1>>
    BY <1>4, <1>5, <1>6
  <2>2. BusTypes' /\ bus_driven' = bus_driven + 1 /\ UNCHANGED <<bus_pc, bus_i, bus_wanted, bus_free>>
        /\ B!setDC(1, 1) /\ bus_m_nLast' = <<1, 1>>
    BY <1>3, <1>5, <2>1, DrivesIs
  <2>3. bus_panel' = bus_panel
    BY <1>3, <1>5, <2>2, SetDC
  <2>4. bus_driven' \in 0..2
    BY <1>6, <2>2
  <2>5. Starting'
    BY <1>3, <1>5, <2>2, <2>3, <2>4 DEF Starting
  <2> QED
    BY <1>2, <2>2, <2>5 DEF BusInv
<1>7. CASE bus_driven = 2
  <2>1. B!master_start[bus_driven + 1] = <<0, 1>>
    BY <1>4, <1>7
  <2>2. BusTypes' /\ bus_driven' = bus_driven + 1 /\ UNCHANGED <<bus_pc, bus_i, bus_wanted, bus_free>>
        /\ B!setDC(0, 1) /\ bus_m_nLast' = <<0, 1>>
    BY <1>3, <1>5, <2>1, DrivesIs
  <2>3. bus_panel.pulls => bus_panel' = bus_panel
    BY <1>3, <1>5, <2>2, SetDC
  <2>4. ~bus_panel.pulls => Empty' /\ bus_panel'.got = << >>
    <3>1. SUFFICES ASSUME ~bus_panel.pulls PROVE Empty' /\ bus_panel'.got = << >>
      OBVIOUS
    <3>2. bus_panel' = B!SdaMoves(bus_panel, 1, 0, 1)
      BY <1>3, <1>5, <2>2, <3>1, SetDC
    <3> QED
      BY <1>3, <3>2, SdaMovesIs DEF Empty
  <2>5. bus_free => ~bus_panel.pulls
    BY <1>3, <1>5, ListenerIs
  <2>6. bus_driven' = 3
    BY <1>7, <2>2
  <2>7. bus_i' = 1 /\ (bus_free' => ~bus_panel'.pulls)
    BY <1>3, <2>2, <2>4, <2>5 DEF Starting, Empty
  <2>8. bus_panel'.pulls \/ (Empty' /\ bus_panel'.got = << >>)
    BY <2>3, <2>4
  <2>9. Began'
    BY <2>2, <2>7, <2>8 DEF Began
  <2>10. Starting'
    BY <1>3, <2>2, <2>6, <2>9 DEF Starting
  <2> QED
    BY <1>2, <2>2, <2>10 DEF BusInv
<1> QED
  BY <1>5, <1>6, <1>7

(* The pins are started: nothing is under way.                              *)
LEMMA DrivesInit ==
  ASSUME BusInv, B!Drives("init", B!master_init), UNCHANGED bus_ret
  PROVE  BusInv'
<1>1. PICK d \in 0..1, c \in 0..1 : bus_m_nLast = <<d, c>>
  BY DEF BusInv, BusTypes
<1>2. bus_pc = "init" /\ bus_driven < Len(B!master_init)
  BY Zenon DEF B!Drives
<1>3. Initing /\ BusTypes /\ bus_ret' \in BOOLEAN
  BY <1>2 DEF BusInv, BusTypes
<1>4. bus_driven \in 0..61
  BY <1>2, <1>3, InitLevels DEF Initing
<1>5. PICK sda \in 0..1, scl \in 0..1 : B!master_init[bus_driven + 1] = <<sda, scl>>
  BY <1>4, InitLevels
<1>6. BusTypes' /\ bus_driven' = bus_driven + 1 /\ UNCHANGED <<bus_pc, bus_i, bus_wanted, bus_free>>
      /\ bus_m_nLast' = <<sda, scl>>
  BY <1>1, <1>3, <1>5, DrivesIs
<1>7. bus_driven' \in 0..62
  BY <1>4, <1>6
<1>8. bus_driven' = 62 => bus_m_nLast' = <<1, 1>>
  <2>1. bus_driven' = 62 => bus_driven + 1 = 62
    BY <1>6
  <2> QED
    BY <1>5, <1>6, <2>1, InitLevels
<1>9. Initing'
  BY <1>3, <1>6, <1>7, <1>8 DEF Initing
<1> QED
  BY <1>2, <1>6, <1>9 DEF BusInv

(* The end of a transfer.                                                   *)
LEMMA DrivesStop ==
  ASSUME BusInv, B!Drives("stop", B!master_stop), UNCHANGED bus_ret
  PROVE  BusInv'
<1>1. PICK d \in 0..1, c \in 0..1 : bus_m_nLast = <<d, c>>
  BY DEF BusInv, BusTypes
<1>2. bus_pc = "stop" /\ bus_driven < Len(B!master_stop)
  BY Zenon DEF B!Drives
<1>3. Stopping /\ BusTypes /\ bus_ret' \in BOOLEAN /\ Listening(bus_panel)
  BY <1>2 DEF BusInv, BusTypes
<1>4. Len(B!master_stop) = 3 /\ B!master_stop[1] = <<0, c>>
      /\ B!master_stop[2] = <<0, 1>> /\ B!master_stop[3] = <<1, 1>>
  BY <1>1, StartLevels
<1>5. bus_driven \in 0..2 /\ Brought /\ ~bus_panel.pulls
  BY <1>2, <1>3, <1>4 DEF Stopping, Brought
<1>6. ASSUME BusTypes', UNCHANGED <<bus_pc, bus_i, bus_wanted, bus_free>>,
             bus_panel'.got = bus_panel.got, ~bus_panel'.pulls
      PROVE  Brought'
  BY <1>5, <1>6 DEF Brought, First
<1>7. CASE bus_driven = 0
  <2>1. c = 0
    BY <1>1, <1>3, <1>7 DEF Stopping
  <2>2. B!master_stop[bus_driven + 1] = <<0, 0>>
    BY <1>4, <1>7, <2>1
  <2>3. BusTypes' /\ bus_driven' = bus_driven + 1 /\ UNCHANGED <<bus_pc, bus_i, bus_wanted, bus_free>>
        /\ B!setDC(0, 0) /\ bus_m_nLast' = <<0, 0>>
    BY <1>1, <1>3, <2>2, DrivesIs
  <2>4. bus_panel' = bus_panel
    BY <1>1, <1>3, <2>1, <2>3, SetDC
  <2>5. bus_driven' = 1 /\ Brought' /\ bus_m_nLast'[2] = 0
    BY <1>5, <1>6, <1>7, <2>3, <2>4
  <2>6. Stopping'
    BY <2>3, <2>5 DEF Stopping
  <2> QED
    BY <1>2, <2>3, <2>6 DEF BusInv
<1>8. CASE bus_driven = 1
  <2>1. c = 0
    BY <1>1, <1>3, <1>8 DEF Stopping
  <2>2. B!master_stop[bus_driven + 1] = <<0, 1>>
    BY <1>4, <1>8
  <2>3. BusTypes' /\ bus_driven' = bus_driven + 1 /\ UNCHANGED <<bus_pc, bus_i, bus_wanted, bus_free>>
        /\ B!setDC(0, 1) /\ bus_m_nLast' = <<0, 1>>
    BY <1>1, <1>3, <2>2, DrivesIs
  <2>4. bus_panel' = B!SclRises(bus_panel, B!Line(0, bus_panel)) /\ B!Line(0, bus_panel) \in 0..1
    BY <1>1, <1>3, <2>1, <2>3, SetDC, LineIs
  <2>5. bus_panel'.got = bus_panel.got /\ ~bus_panel'.pulls
    BY <1>3, <1>5, <2>4, SclRisesIs
  <2>6. bus_driven' = 2 /\ Brought'
    BY <1>6, <1>8, <2>3, <2>5
  <2>7. Stopping'
    BY <2>3, <2>6 DEF Stopping
  <2> QED
    BY <1>2, <2>3, <2>7 DEF BusInv
<1>9. CASE bus_driven = 2
  <2>1. c = 1 /\ d = 0
    BY <1>1, <1>3, <1>9 DEF Stopping
  <2>2. B!master_stop[bus_driven + 1] = <<1, 1>>
    BY <1>4, <1>9
  <2>3. BusTypes' /\ bus_driven' = bus_driven + 1 /\ UNCHANGED <<bus_pc, bus_i, bus_wanted, bus_free>>
        /\ B!setDC(1, 1) /\ bus_m_nLast' = <<1, 1>>
    BY <1>1, <1>3, <2>2, DrivesIs
  <2>4. bus_panel' = B!SdaMoves(bus_panel, 0, 1, 1)
    BY <1>1, <1>3, <1>5, <2>1, <2>3, SetDC
  <2>5. bus_panel'.got = bus_panel.got /\ ~bus_panel'.pulls /\ ~bus_panel'.in
    BY <1>3, <1>5, <2>4, SdaMovesIs
  <2>6. bus_driven' = 3 /\ Brought'
    BY <1>6, <1>9, <2>3, <2>5
  <2>7. Stopping'
    BY <2>3, <2>5, <2>6 DEF Stopping
  <2> QED
    BY <1>2, <2>3, <2>7 DEF BusInv
<1> QED
  BY <1>5, <1>7, <1>8, <1>9

(* The answer: a panel that pulls has the byte, and the board sees it.      *)
LEMMA DrivesAck ==
  ASSUME BusInv, B!Acknowledge
  PROVE  BusInv'
<1>1. PICK d \in 0..1, c \in 0..1 : bus_m_nLast = <<d, c>>
  BY DEF BusInv, BusTypes
<1>2. B!Drives("ack", B!getAck)
  BY DEF B!Acknowledge
<1>3. bus_ret' = IF bus_driven' = 3 THEN B!Line(bus_m_nLast'[1], bus_panel') = 0 ELSE bus_ret
  BY Zenon DEF B!Acknowledge
<1>4. bus_pc = "ack" /\ bus_driven < Len(B!getAck) /\ bus_driven' = bus_driven + 1
  BY <1>2, Zenon DEF B!Drives
<1>5. Acking /\ BusTypes /\ Listening(bus_panel)
  BY <1>4 DEF BusInv, BusTypes
<1>6. /\ Len(B!getAck) = 4 /\ B!getAck[1] = <<d, 0>>
      /\ B!getAck[2] = <<1, 0>> /\ B!getAck[3] = <<1, 1>> /\ B!getAck[4] = <<1, 0>>
  BY <1>1, StartLevels
<1>7. bus_driven \in 0..3 /\ (Answering \/ Deaf)
  BY <1>4, <1>5, <1>6 DEF Acking
<1>8. bus_ret' \in BOOLEAN
  <2>1. (B!Line(bus_m_nLast'[1], bus_panel') = 0) \in BOOLEAN /\ bus_ret \in BOOLEAN
    BY <1>5 DEF BusTypes
  <2> QED
    BY <1>3, <2>1, Zenon
<1>9. CASE bus_driven \in 0..1
  <2>1. c = 0
    BY <1>1, <1>5, <1>9 DEF Acking
  <2>2. PICK e \in 0..1 : B!getAck[bus_driven + 1] = <<e, 0>> /\ (bus_driven = 1 => e = 1)
    BY <1>6, <1>9
  <2>3. BusTypes' /\ UNCHANGED <<bus_pc, bus_i, bus_wanted, bus_free>>
        /\ B!setDC(e, 0) /\ bus_m_nLast' = <<e, 0>>
    BY <1>1, <1>2, <1>5, <1>8, <2>2, DrivesIs
  <2>4. bus_panel' = bus_panel
    BY <1>1, <1>5, <2>1, <2>3, SetDC
  <2>5. bus_driven' \in 1..2 /\ (bus_driven' = 2 => bus_driven = 1)
    BY <1>4, <1>9
  <2>6. bus_ret' = bus_ret /\ bus_ret
    BY <1>3, <1>5, <1>9, <2>5 DEF Acking
  <2>7. bus_m_nLast'[2] = 0 /\ (bus_driven' = 2 => bus_m_nLast' = <<1, 0>>)
    BY <2>2, <2>3, <2>5
  <2>8. (Answering \/ Deaf)'
    BY <1>7, <2>4 DEF Answering, Deaf
  <2>9. bus_free => First(IF bus_panel.pulls THEN bus_i ELSE bus_i - 1)
    BY <1>5, <1>9 DEF Acking
  <2>10. bus_free' => First(IF bus_panel.pulls THEN bus_i ELSE bus_i - 1)'
    BY <2>3, <2>4, <2>9 DEF First
  <2>11. Acking'
    BY <1>5, <2>3, <2>5, <2>6, <2>7, <2>8, <2>10 DEF Acking
  <2> QED
    BY <1>4, <2>3, <2>11 DEF BusInv
<1>10. CASE bus_driven = 2
  <2>1. d = 1 /\ c = 0
    BY <1>1, <1>5, <1>10 DEF Acking
  <2>2. B!getAck[bus_driven + 1] = <<1, 1>>
    BY <1>6, <1>10
  <2>3. BusTypes' /\ UNCHANGED <<bus_pc, bus_i, bus_wanted, bus_free>>
        /\ B!setDC(1, 1) /\ bus_m_nLast' = <<1, 1>>
    BY <1>1, <1>2, <1>5, <1>8, <2>2, DrivesIs
  <2>4. bus_panel' = B!SclRises(bus_panel, B!Line(1, bus_panel)) /\ B!Line(1, bus_panel) \in 0..1
    BY <1>1, <1>5, <2>1, <2>3, SetDC, LineIs
  <2>5. ~(bus_panel.in /\ bus_panel.n < 8)
    BY <1>5, <1>7, ListenerIs DEF Answering, Deaf
  <2>6. bus_panel' = bus_panel
    BY <1>5, <2>4, <2>5, SclRisesIs
  <2>7. bus_driven' = 3
    BY <1>4, <1>10
  <2>8. bus_ret' <=> bus_panel'.pulls
    <3>1. bus_ret' = (B!Line(1, bus_panel) = 0)
      BY <1>3, <2>3, <2>6, <2>7
    <3>2. (B!Line(1, bus_panel) = 0) <=> bus_panel.pulls
      BY <1>5, LineIs, ListenerIs
    <3> QED
      BY <2>6, <3>1, <3>2
  <2>9. (Answering \/ Deaf)'
    BY <1>7, <2>6 DEF Answering, Deaf
  <2>10. bus_free => First(IF bus_panel.pulls THEN bus_i ELSE bus_i - 1)
    BY <1>5, <1>10 DEF Acking
  <2>11. bus_free' => First(IF bus_panel.pulls THEN bus_i ELSE bus_i - 1)'
    BY <2>3, <2>6, <2>10 DEF First
  <2>12. Acking'
    BY <1>5, <2>3, <2>7, <2>8, <2>9, <2>11 DEF Acking
  <2> QED
    BY <1>4, <2>3, <2>12 DEF BusInv
<1>11. CASE bus_driven = 3
  <2>1. d = 1 /\ c = 1 /\ (bus_ret <=> bus_panel.pulls)
    BY <1>1, <1>5, <1>11 DEF Acking
  <2>2. B!getAck[bus_driven + 1] = <<1, 0>>
    BY <1>6, <1>11
  <2>3. BusTypes' /\ UNCHANGED <<bus_pc, bus_i, bus_wanted, bus_free>>
        /\ B!setDC(1, 0) /\ bus_m_nLast' = <<1, 0>>
    BY <1>1, <1>2, <1>5, <1>8, <2>2, DrivesIs
  <2>4. PICK a \in BOOLEAN : bus_panel' = B!SclFalls(bus_panel, a)
    BY <1>1, <1>5, <2>1, <2>3, SetDC
  <2>5. bus_driven' = 4 /\ bus_ret' = bus_ret
    BY <1>3, <1>4, <1>11
  <2>6. bus_panel.pulls => Empty' /\ bus_panel'.got = bus_panel.got
    BY <1>5, <2>4, SclFallsIs DEF Empty
  <2>7. ~bus_panel.pulls => Deaf' /\ bus_panel' = bus_panel
    BY <1>5, <1>7, <2>4, SclFallsIs DEF Answering, Deaf
  <2>8. IF bus_ret' THEN Empty' ELSE Deaf'
    BY <2>1, <2>5, <2>6, <2>7
  <2>9. bus_panel'.got = bus_panel.got /\ ~bus_panel'.pulls
    BY <2>6, <2>7 DEF Empty, Deaf
  <2>10. bus_free => First(IF bus_ret THEN bus_i ELSE bus_i - 1)
    BY <1>5, <1>11, <2>1 DEF Acking
  <2>11. bus_free' => First(IF bus_ret THEN bus_i ELSE bus_i - 1)'
    BY <2>3, <2>5, <2>9, <2>10 DEF First
  <2>12. bus_free' => First(IF bus_panel.pulls \/ (bus_driven = 4 /\ bus_ret) THEN bus_i ELSE bus_i - 1)'
    BY <2>5, <2>9, <2>11
  <2>13. Acking'
    BY <1>5, <2>3, <2>5, <2>8, <2>12 DEF Acking
  <2> QED
    BY <1>4, <2>3, <2>13 DEF BusInv
<1> QED
  BY <1>7, <1>9, <1>10, <1>11

(* A byte, level after level.                                               *)
LEMMA DrivesByte ==
  ASSUME BusInv, B!Drives("byte", B!master_writeByte(bus_wanted[bus_i])), UNCHANGED bus_ret
  PROVE  BusInv'
<1>1. PICK d \in 0..1, c \in 0..1 : bus_m_nLast = <<d, c>>
  BY DEF BusInv, BusTypes
<1> DEFINE levels == B!master_writeByte(bus_wanted[bus_i])
<1>2. bus_pc = "byte" /\ bus_driven < Len(levels) /\ bus_driven' = bus_driven + 1
  BY Zenon DEF B!Drives
<1>3. Sending /\ BusTypes /\ bus_ret' \in BOOLEAN /\ Listening(bus_panel)
  BY <1>2 DEF BusInv, BusTypes
<1>4. PICK b \in Bytes : b = bus_wanted[bus_i]
  BY <1>3, ElementOfSeq DEF Sending, BusTypes
<1>5. /\ Len(levels) = 25 /\ levels[1] = <<d, 0>>
      /\ \A j \in 0..7 :
           /\ levels[3 * j + 2] = <<B!Bit(b, 7 - j), 0>>
           /\ levels[3 * j + 3] = <<B!Bit(b, 7 - j), 1>>
           /\ levels[3 * j + 4] = <<B!Bit(b, 7 - j), 0>>
  BY <1>1, <1>4, ByteLevels
<1>6. B!Drives("byte", levels)
  OBVIOUS
<1> HIDE DEF levels
<1>7. bus_driven \in 0..24
  BY <1>2, <1>3, <1>5 DEF Sending
<1>8. ASSUME NEW sda \in 0..1, NEW scl \in 0..1, levels[bus_driven + 1] = <<sda, scl>>
      PROVE  /\ BusTypes' /\ UNCHANGED <<bus_pc, bus_i, bus_wanted, bus_free>>
             /\ B!setDC(sda, scl) /\ bus_m_nLast' = <<sda, scl>>
  BY <1>1, <1>3, <1>6, <1>8, DrivesIs
<1>9. bus_free => First(bus_i - 1)
  BY <1>3, <1>7 DEF Sending
<1>10. ASSUME UNCHANGED <<bus_i, bus_wanted, bus_free>>, bus_panel'.got = bus_panel.got
       PROVE  bus_free' => First(bus_i - 1)'
  BY <1>9, <1>10 DEF First
<1>11. CASE bus_driven = 0
  <2>1. levels[bus_driven + 1] = <<d, 0>>
    BY <1>5, <1>11
  <2>2. BusTypes' /\ UNCHANGED <<bus_pc, bus_i, bus_wanted, bus_free>> /\ B!setDC(d, 0) /\ bus_m_nLast' = <<d, 0>>
    BY <1>8, <2>1
  <2>3. Empty' /\ bus_panel'.got = bus_panel.got
    <3>1. Began \/ (c = 0 /\ Empty)
      BY <1>1, <1>3, <1>11 DEF Sending
    <3>2. CASE c = 0 /\ Empty
      BY <1>1, <1>3, <2>2, <3>2, SetDC DEF Empty
    <3>3. CASE Began
      <4>1. c = 1
        BY <1>1, <3>3 DEF Began
      <4>2. PICK a \in BOOLEAN : bus_panel' = B!SclFalls(bus_panel, a)
        BY <1>1, <1>3, <2>2, <4>1, SetDC
      <4>3. CASE bus_panel.pulls
        BY <1>3, <4>2, <4>3, SclFallsIs DEF Empty
      <4>4. CASE Empty
        <5>1. ~bus_panel.pulls /\ bus_panel.n < 8
          BY <4>4 DEF Empty
        <5>2. bus_panel' = bus_panel
          BY <1>3, <4>2, <5>1, SclFallsIs
        <5> QED
          BY <4>4, <5>2 DEF Empty
      <4> QED
        BY <3>3, <4>3, <4>4 DEF Began
    <3> QED
      BY <3>1, <3>2, <3>3
  <2>4. bus_driven' = 1 /\ bus_m_nLast'[2] = 0
    BY <1>2, <1>11, <2>2
  <2>5. Taking(0)'
    <3>1. b \div B!Powers[9 - 0] = 0 /\ Sent' = b
      BY <1>4, <2>2, PowersAre DEF Bytes, Sent
    <3> QED
      BY <2>3, <3>1 DEF Taking, Empty
  <2>6. ASSUME NEW j \in 0..7
        PROVE  /\ bus_driven' \in {3 * j + 1, 3 * j + 2} => bus_m_nLast'[2] = 0 /\ Taking(j)'
               /\ bus_driven' # 3 * j + 3
    <3>1. bus_driven' \in {3 * j + 1, 3 * j + 2} => j = 0
      BY <2>4
    <3>2. bus_driven' # 3 * j + 3
      BY <2>4
    <3> QED
      BY <2>4, <2>5, <3>1, <3>2
  <2>7. bus_free' => First(bus_i - 1)'
    BY <1>10, <2>2, <2>3
  <2>8. Sending'
    BY <1>3, <2>2, <2>4, <2>6, <2>7 DEF Sending
  <2> QED
    BY <1>2, <2>2, <2>8 DEF BusInv
<1>12. ASSUME NEW j \in 0..7, bus_driven = 3 * j + 1
       PROVE  BusInv'
  <2>1. levels[bus_driven + 1] = <<B!Bit(b, 7 - j), 0>> /\ B!Bit(b, 7 - j) \in 0..1
    <3>1. bus_driven + 1 = 3 * j + 2
      BY <1>12
    <3> QED
      BY <1>5, <3>1, NextBit
  <2>2. BusTypes' /\ UNCHANGED <<bus_pc, bus_i, bus_wanted, bus_free>> /\ B!setDC(B!Bit(b, 7 - j), 0)
        /\ bus_m_nLast' = <<B!Bit(b, 7 - j), 0>>
    BY <1>8, <2>1
  <2>3. c = 0 /\ Taking(j)
    BY <1>1, <1>3, <1>12 DEF Sending
  <2>4. bus_panel' = bus_panel
    BY <1>1, <1>3, <2>1, <2>2, <2>3, SetDC
  <2>5. bus_driven' = 3 * j + 2 /\ bus_driven' \in 0..25 /\ bus_driven' # 0 /\ bus_driven' # 25
    BY <1>2, <1>12
  <2>6. Taking(j)' /\ bus_m_nLast'[2] = 0
    BY <2>2, <2>3, <2>4 DEF Taking, Sent
  <2>7. ASSUME NEW k \in 0..7
        PROVE  /\ bus_driven' \in {3 * k + 1, 3 * k + 2} => bus_m_nLast'[2] = 0 /\ Taking(k)'
               /\ bus_driven' # 3 * k + 3
    <3>1. bus_driven' \in {3 * k + 1, 3 * k + 2} => k = j
      BY <2>5
    <3>2. bus_driven' # 3 * k + 3
      BY <2>5
    <3> QED
      BY <2>6, <3>1, <3>2
  <2>8. bus_free' => First(bus_i - 1)'
    BY <1>10, <2>2, <2>4
  <2>9. Sending'
    BY <1>3, <2>2, <2>5, <2>7, <2>8 DEF Sending
  <2> QED
    BY <1>2, <2>2, <2>9 DEF BusInv
<1>13. ASSUME NEW j \in 0..7, bus_driven = 3 * j + 2
       PROVE  BusInv'
  <2>1. levels[bus_driven + 1] = <<B!Bit(b, 7 - j), 1>> /\ B!Bit(b, 7 - j) \in 0..1
    <3>1. bus_driven + 1 = 3 * j + 3
      BY <1>13
    <3> QED
      BY <1>5, <3>1, NextBit
  <2>2. BusTypes' /\ UNCHANGED <<bus_pc, bus_i, bus_wanted, bus_free>> /\ B!setDC(B!Bit(b, 7 - j), 1)
        /\ bus_m_nLast' = <<B!Bit(b, 7 - j), 1>>
    BY <1>8, <2>1
  <2>3. c = 0 /\ Taking(j)
    BY <1>1, <1>3, <1>13 DEF Sending
  <2>4. B!Line(B!Bit(b, 7 - j), bus_panel) = B!Bit(b, 7 - j)
    BY <1>3, <2>1, <2>3, LineIs DEF Taking
  <2>5. bus_panel' = B!SclRises(bus_panel, B!Bit(b, 7 - j))
    BY <1>1, <1>3, <2>1, <2>2, <2>3, <2>4, SetDC
  <2>6. bus_panel.in /\ bus_panel.n < 8 /\ bus_panel.n = j /\ bus_panel.byte = b \div B!Powers[9 - j]
    BY <1>4, <2>3 DEF Taking, Sent
  <2>7. bus_panel'.in /\ bus_panel'.n = j + 1 /\ bus_panel'.byte = 2 * (b \div B!Powers[9 - j]) + B!Bit(b, 7 - j)
        /\ ~bus_panel'.pulls /\ bus_panel'.got = bus_panel.got
    BY <1>3, <2>1, <2>5, <2>6, SclRisesIs
  <2>8. 9 - (j + 1) = 8 - j /\ Sent' = b
    BY <1>4, <2>2 DEF Sent
  <2>9. Taking(j + 1)'
    BY <2>7, <2>8, NextBit DEF Taking
  <2>10. bus_driven' = 3 * j + 3 /\ bus_driven' \in 0..25 /\ bus_driven' # 0 /\ bus_driven' # 25
    BY <1>2, <1>13
  <2>11. ASSUME NEW k \in 0..7
         PROVE  /\ bus_driven' \notin {3 * k + 1, 3 * k + 2}
                /\ bus_driven' = 3 * k + 3 => bus_m_nLast' = <<B!Bit(Sent', 7 - k), 1>> /\ Taking(k + 1)'
    <3>1. bus_driven' = 3 * k + 3 => k = j
      BY <2>10
    <3>2. bus_driven' \notin {3 * k + 1, 3 * k + 2}
      BY <2>10
    <3> QED
      BY <2>2, <2>8, <2>9, <3>1, <3>2
  <2>12. bus_free' => First(bus_i - 1)'
    BY <1>10, <2>2, <2>7
  <2>13. Sending'
    BY <1>3, <2>2, <2>10, <2>11, <2>12 DEF Sending
  <2> QED
    BY <1>2, <2>2, <2>13 DEF BusInv
<1>14. ASSUME NEW j \in 0..7, bus_driven = 3 * j + 3
       PROVE  BusInv'
  <2>1. levels[bus_driven + 1] = <<B!Bit(b, 7 - j), 0>> /\ B!Bit(b, 7 - j) \in 0..1
    <3>1. bus_driven + 1 = 3 * j + 4
      BY <1>14
    <3> QED
      BY <1>5, <3>1, NextBit
  <2>2. BusTypes' /\ UNCHANGED <<bus_pc, bus_i, bus_wanted, bus_free>> /\ B!setDC(B!Bit(b, 7 - j), 0)
        /\ bus_m_nLast' = <<B!Bit(b, 7 - j), 0>>
    BY <1>8, <2>1
  <2>3. bus_m_nLast = <<B!Bit(Sent, 7 - j), 1>> /\ Taking(j + 1)
    BY <1>3, <1>14 DEF Sending
  <2>4. d = B!Bit(b, 7 - j) /\ c = 1
    BY <1>1, <1>4, <2>3 DEF Sent
  <2>5. PICK a \in BOOLEAN : bus_panel' = B!SclFalls(bus_panel, a)
    BY <1>1, <1>3, <2>1, <2>2, <2>4, SetDC
  <2>6. bus_panel.in /\ ~bus_panel.pulls /\ bus_panel.n = j + 1 /\ bus_panel.byte = b \div B!Powers[9 - (j + 1)]
    BY <1>4, <2>3 DEF Taking, Sent
  <2>7. CASE j < 7
    <3>1. bus_panel.n < 8
      BY <2>6, <2>7
    <3>2. bus_panel' = bus_panel
      BY <1>3, <2>5, <2>6, <3>1, SclFallsIs
    <3>3. PICK l \in 0..7 : l = j + 1
      BY <2>7
    <3>4. Taking(l)' /\ bus_m_nLast'[2] = 0
      BY <2>2, <2>3, <3>2, <3>3 DEF Taking, Sent
    <3>5. bus_driven' = 3 * l + 1 /\ bus_driven' \in 0..25 /\ bus_driven' # 0 /\ bus_driven' # 25
      BY <1>2, <1>14, <3>3
    <3>6. ASSUME NEW k \in 0..7
          PROVE  /\ bus_driven' \in {3 * k + 1, 3 * k + 2} => bus_m_nLast'[2] = 0 /\ Taking(k)'
                 /\ bus_driven' # 3 * k + 3
      <4>1. bus_driven' \in {3 * k + 1, 3 * k + 2} => k = l
        BY <3>5
      <4>2. bus_driven' # 3 * k + 3
        BY <3>5
      <4> QED
        BY <3>4, <4>1, <4>2
    <3>7. bus_free' => First(bus_i - 1)'
      BY <1>10, <2>2, <3>2
    <3>8. Sending'
      BY <1>3, <2>2, <3>5, <3>6, <3>7 DEF Sending
    <3> QED
      BY <1>2, <2>2, <3>8 DEF BusInv
  <2>8. CASE j = 7
    <3>1. bus_panel.n = 8 /\ bus_panel.byte = b
      <4>1. B!Powers[9 - (j + 1)] = 1 /\ b \div 1 = b
        BY <2>8, PowersAre DEF Bytes
      <4> QED
        BY <2>6, <2>8, <4>1
    <3>2. bus_driven' = 25 /\ bus_m_nLast'[2] = 0
      BY <1>2, <1>14, <2>2, <2>8
    <3>3. a => Answering' /\ bus_panel'.got = Append(bus_panel.got, b)
      BY <1>3, <2>5, <2>6, <3>1, SclFallsIs DEF Answering
    <3>4. ~a => Deaf' /\ bus_panel'.got = bus_panel.got
      BY <1>3, <2>5, <2>6, <3>1, SclFallsIs DEF Deaf
    <3>5. Answering' \/ Deaf'
      BY <3>3, <3>4
    <3>6. ASSUME bus_free', bus_panel'.pulls
          PROVE  First(bus_i)'
      <4>1. a /\ bus_panel'.got = Append(bus_panel.got, b)
        BY <3>3, <3>4, <3>6 DEF Deaf
      <4>2. First(bus_i - 1)
        BY <1>9, <2>2, <3>6
      <4>3. PICK g \in Seq(Bytes) : g = bus_panel.got
        BY <1>3, ListenerIs
      <4>4. PICK l \in Nat : l = bus_i /\ l >= 1
        BY <1>3 DEF Sending
      <4>5. Len(g) = l - 1 /\ \A k \in 1..(l - 1) : g[k] = bus_wanted[k]
        BY <4>2, <4>3, <4>4 DEF First
      <4>6. Len(Append(g, b)) = l /\ Append(g, b)[l] = b /\ \A k \in 1..(l - 1) : Append(g, b)[k] = g[k]
        BY <4>4, <4>5, AppendProperties
      <4>7. \A k \in 1..l : Append(g, b)[k] = bus_wanted[k]
        <5>1. ASSUME NEW k \in 1..l
              PROVE  Append(g, b)[k] = bus_wanted[k]
          <6>1. k \in 1..(l - 1) \/ k = l
            BY <4>4
          <6> QED
            BY <1>4, <4>4, <4>5, <4>6, <6>1
        <5> QED
          BY <5>1
      <4> QED
        BY <2>2, <4>1, <4>3, <4>4, <4>6, <4>7 DEF First
    <3>7. ASSUME bus_free', ~bus_panel'.pulls
          PROVE  First(bus_i - 1)'
      <4>1. ~a
        BY <3>3, <3>7 DEF Answering
      <4>2. bus_panel'.got = bus_panel.got
        BY <3>4, <4>1
      <4> QED
        BY <1>10, <2>2, <3>7, <4>2
    <3>8. bus_free' => First(IF bus_driven = 25 /\ bus_panel.pulls THEN bus_i ELSE bus_i - 1)'
      BY <3>2, <3>6, <3>7
    <3>9. \A k \in 0..7 : bus_driven' # 3 * k + 1 /\ bus_driven' # 3 * k + 2 /\ bus_driven' # 3 * k + 3
      BY <3>2
    <3>10. Sending'
      BY <1>3, <2>2, <3>2, <3>5, <3>8, <3>9 DEF Sending
    <3> QED
      BY <1>2, <2>2, <3>10 DEF BusInv
  <2> QED
    BY <2>7, <2>8
<1>15. bus_driven = 0 \/ \E j \in 0..7 : bus_driven = 3 * j + 1 \/ bus_driven = 3 * j + 2 \/ bus_driven = 3 * j + 3
  <2>1. bus_driven = 0 \/ ((bus_driven - 1) \div 3) \in 0..7
    BY <1>7
  <2>2. bus_driven # 0 =>
          LET j == (bus_driven - 1) \div 3
          IN  bus_driven = 3 * j + 1 \/ bus_driven = 3 * j + 2 \/ bus_driven = 3 * j + 3
    BY <1>7
  <2> QED
    BY <2>1, <2>2
<1> QED
  BY <1>11, <1>12, <1>13, <1>14, <1>15

(* What is called next.                                                     *)
LEMMA CallKeeps ==
  ASSUME BusInv, B!Call
  PROVE  BusInv'
<1>1. PICK d \in 0..1, c \in 0..1 : bus_m_nLast = <<d, c>>
  BY DEF BusInv, BusTypes
<1>2. ASSUME NEW call, NEW levels, B!Returns(call, levels)
      PROVE  /\ bus_pc = call /\ bus_driven = Len(levels) /\ bus_driven' = 0
             /\ UNCHANGED <<bus_m_nLast, bus_wanted, bus_ret, bus_free, bus_panel>>
  BY <1>2 DEF B!Returns
<1>3. CASE B!Returns("start", B!master_start) /\ bus_pc' = "byte" /\ UNCHANGED bus_i
  <2>1. /\ bus_pc = "start" /\ bus_driven = 3 /\ bus_driven' = 0
        /\ UNCHANGED <<bus_m_nLast, bus_wanted, bus_ret, bus_free, bus_panel>>
    BY <1>1, <1>2, <1>3, StartLevels
  <2>2. Starting /\ BusTypes
    BY <2>1 DEF BusInv
  <2>3. Began /\ bus_ret /\ bus_i = 1 /\ Len(bus_wanted) > 0
    BY <2>1, <2>2 DEF Starting
  <2>4. bus_free => First(bus_i - 1)
    BY <2>3 DEF Began, First
  <2>5. bus_i \in 1..Len(bus_wanted)
    BY <2>2, <2>3, LenProperties DEF BusTypes
  <2>6. Began' /\ bus_i' \in 1..Len(bus_wanted') /\ bus_ret'
    BY <1>3, <2>1, <2>3, <2>5 DEF Began, Empty
  <2>7. bus_free' => First(bus_i - 1)'
    BY <1>3, <2>1, <2>4 DEF First
  <2>8. Sending'
    BY <2>1, <2>6, <2>7 DEF Sending
  <2>9. BusTypes'
    BY <1>3, <2>1, <2>2 DEF BusTypes
  <2> QED
    BY <1>3, <2>8, <2>9 DEF BusInv
<1>4. CASE B!Returns("byte", B!master_writeByte(bus_wanted[bus_i])) /\ bus_pc' = "ack" /\ UNCHANGED bus_i
  <2>1. /\ bus_pc = "byte" /\ bus_driven = Len(B!master_writeByte(bus_wanted[bus_i])) /\ bus_driven' = 0
        /\ UNCHANGED <<bus_m_nLast, bus_wanted, bus_ret, bus_free, bus_panel>>
    BY <1>2, <1>4
  <2>2. Sending /\ BusTypes
    BY <2>1 DEF BusInv
  <2>3. bus_wanted[bus_i] \in Bytes
    BY <2>2, ElementOfSeq DEF Sending, BusTypes
  <2>4. bus_driven = 25
    BY <1>1, <2>1, <2>3, ByteLevels
  <2>5. /\ bus_ret /\ bus_i \in 1..Len(bus_wanted) /\ bus_m_nLast[2] = 0 /\ (Answering \/ Deaf)
        /\ bus_free => First(IF bus_panel.pulls THEN bus_i ELSE bus_i - 1)
    BY <2>2, <2>4 DEF Sending
  <2>6. bus_free' => First(IF bus_panel.pulls THEN bus_i ELSE bus_i - 1)'
    BY <1>4, <2>1, <2>5 DEF First
  <2>7. (Answering \/ Deaf)' /\ bus_ret' /\ bus_i' \in 1..Len(bus_wanted') /\ bus_m_nLast'[2] = 0
    BY <1>4, <2>1, <2>5 DEF Answering, Deaf
  <2>8. Acking'
    BY <2>1, <2>6, <2>7 DEF Acking
  <2>9. BusTypes'
    BY <1>4, <2>1, <2>2 DEF BusTypes
  <2> QED
    BY <1>4, <2>8, <2>9 DEF BusInv
<1>5. CASE /\ B!Returns("ack", B!getAck)
           /\ IF bus_ret /\ bus_i < Len(bus_wanted) THEN bus_pc' = "byte" /\ bus_i' = bus_i + 1
                                                    ELSE bus_pc' = "stop" /\ UNCHANGED bus_i
  <2>1. /\ bus_pc = "ack" /\ bus_driven = 4 /\ bus_driven' = 0
        /\ UNCHANGED <<bus_m_nLast, bus_wanted, bus_ret, bus_free, bus_panel>>
    BY <1>1, <1>2, <1>5, StartLevels
  <2>2. Acking /\ BusTypes
    BY <2>1 DEF BusInv
  <2>3. /\ bus_i \in 1..Len(bus_wanted) /\ bus_m_nLast = <<1, 0>> /\ (IF bus_ret THEN Empty ELSE Deaf)
        /\ ~bus_panel.pulls
        /\ bus_free => First(IF bus_ret THEN bus_i ELSE bus_i - 1)
    BY <2>1, <2>2 DEF Acking, Empty, Deaf
  <2>4. CASE bus_ret /\ bus_i < Len(bus_wanted)
    <3>1. bus_pc' = "byte" /\ bus_i' = bus_i + 1
      BY <1>5, <2>4
    <3>2. bus_i' \in 1..Len(bus_wanted') /\ bus_i' - 1 = bus_i /\ bus_i' \in Nat
      BY <2>1, <2>2, <2>3, <2>4, <3>1, LenProperties DEF BusTypes
    <3>3. bus_free' => First(bus_i - 1)'
      BY <2>1, <2>3, <2>4, <3>2 DEF First
    <3>4. Empty' /\ bus_m_nLast'[2] = 0 /\ bus_ret'
      BY <2>1, <2>3, <2>4 DEF Empty
    <3>5. Sending'
      BY <2>1, <3>2, <3>3, <3>4 DEF Sending
    <3>6. BusTypes'
      BY <2>1, <2>2, <3>1, <3>2 DEF BusTypes
    <3> QED
      BY <3>1, <3>5, <3>6 DEF BusInv
  <2>5. CASE ~(bus_ret /\ bus_i < Len(bus_wanted))
    <3>1. bus_pc' = "stop" /\ bus_i' = bus_i
      BY <1>5, <2>5
    <3>2. bus_ret => bus_i = Len(bus_wanted)
      BY <2>2, <2>3, <2>5, LenProperties DEF BusTypes
    <3>3. Brought
      BY <2>3, <3>2 DEF Brought
    <3>4. Brought'
      BY <2>1, <3>1, <3>3 DEF Brought, First
    <3>5. Stopping'
      BY <2>1, <2>3, <3>4 DEF Stopping
    <3>6. BusTypes'
      BY <2>1, <2>2, <3>1 DEF BusTypes
    <3> QED
      BY <3>1, <3>5, <3>6 DEF BusInv
  <2> QED
    BY <2>4, <2>5
<1> QED
  BY <1>3, <1>4, <1>5 DEF B!Call

(* A call returns to the board.                                             *)
LEMMA ReturnKeeps ==
  ASSUME BusInv, B!Return
  PROVE  BusInv'
<1>1. PICK d \in 0..1, c \in 0..1 : bus_m_nLast = <<d, c>>
  BY DEF BusInv, BusTypes
<1>2. ASSUME NEW call, NEW levels, B!Returns(call, levels)
      PROVE  /\ bus_pc = call /\ bus_driven = Len(levels) /\ bus_driven' = 0
             /\ UNCHANGED <<bus_m_nLast, bus_wanted, bus_ret, bus_free, bus_panel>>
  BY <1>2 DEF B!Returns
<1>3. bus_pc' = "idle" /\ bus_i' = bus_i
  BY DEF B!Return
<1>4. CASE B!Returns("init", B!master_init)
  <2>1. /\ bus_pc = "init" /\ bus_driven = 62 /\ bus_driven' = 0
        /\ UNCHANGED <<bus_m_nLast, bus_wanted, bus_ret, bus_free, bus_panel>>
    BY <1>2, <1>4, InitLevels
  <2>2. Initing /\ BusTypes
    BY <2>1 DEF BusInv
  <2>3. Idling'
    BY <2>1, <2>2 DEF Initing, Idling
  <2>4. BusTypes'
    BY <1>3, <2>1, <2>2 DEF BusTypes
  <2> QED
    BY <1>3, <2>3, <2>4 DEF BusInv
<1>5. CASE B!Returns("stop", B!master_stop)
  <2>1. /\ bus_pc = "stop" /\ bus_driven = 3 /\ bus_driven' = 0
        /\ UNCHANGED <<bus_m_nLast, bus_wanted, bus_ret, bus_free, bus_panel>>
    BY <1>1, <1>2, <1>5, StartLevels
  <2>2. Stopping /\ BusTypes
    BY <2>1 DEF BusInv
  <2>3. Brought /\ bus_m_nLast = <<1, 1>> /\ ~bus_panel.in
    BY <2>1, <2>2 DEF Stopping
  <2>4. Brought'
    BY <1>3, <2>1, <2>3 DEF Brought, First
  <2>5. Idling'
    BY <2>1, <2>3, <2>4 DEF Idling
  <2>6. BusTypes'
    BY <1>3, <2>1, <2>2 DEF BusTypes
  <2> QED
    BY <1>3, <2>5, <2>6 DEF BusInv
<1> QED
  BY <1>4, <1>5 DEF B!Return

(* A transfer begins.                                                       *)
LEMMA WriteKeeps ==
  ASSUME BusInv, BoardAssumption, NEW control \in Controls, NEW data \in Datas, B!I2C_Write(control, data)
  PROVE  BusInv'
<1>1. /\ bus_pc = "idle" /\ bus_pc' = "start" /\ bus_driven' = 0 /\ bus_i' = 1
      /\ bus_ret' = TRUE /\ bus_free' = ~bus_panel.in
      /\ UNCHANGED <<bus_m_nLast, bus_panel>>
  BY DEF B!I2C_Write
<1>2. bus_wanted' = <<2 * SSD1306_I2C_ADDR, control>> \o data
  BY DEF B!I2C_Write
<1>3. 2 * SSD1306_I2C_ADDR \in Bytes /\ control \in Bytes /\ data \in Seq(Bytes)
  BY DEF BoardAssumption, B!I2cBusAssumption, Bytes
<1>4. <<2 * SSD1306_I2C_ADDR, control>> \in Seq(Bytes) /\ Len(<<2 * SSD1306_I2C_ADDR, control>>) = 2
  BY <1>3
<1>5. bus_wanted' \in Seq(Bytes) /\ Len(bus_wanted') > 0
  BY <1>2, <1>3, <1>4, ConcatProperties, LenProperties
<1>6. Idling /\ BusTypes
  BY <1>1 DEF BusInv
<1>7. bus_free' \in BOOLEAN
  BY <1>1, <1>6, ListenerIs DEF BusTypes
<1>8. BusTypes'
  BY <1>1, <1>5, <1>6, <1>7 DEF BusTypes
<1>9. bus_m_nLast' = <<1, 1>> /\ (bus_free' => ~bus_panel'.in)
  BY <1>1, <1>6 DEF Idling
<1>10. Starting'
  BY <1>1, <1>5, <1>9 DEF Starting
<1> QED
  BY <1>1, <1>8, <1>10 DEF BusInv

(* The board is reset: the lines go high in either order.                   *)
LEMMA ResetKeeps ==
  ASSUME BusInv, B!Reset
  PROVE  BusInv'
<1>1. PICK d \in 0..1, c \in 0..1 : bus_m_nLast = <<d, c>>
  BY DEF BusInv, BusTypes
<1>2. /\ bus_pc' = "off" /\ bus_m_nLast' = <<1, 1>> /\ bus_driven' = 0 /\ bus_i' = 1
      /\ bus_wanted' = << >> /\ bus_ret' = FALSE /\ bus_free' = FALSE
  BY DEF B!Reset
<1>3. Listening(bus_panel) /\ bus_m_nLast[1] = d /\ bus_m_nLast[2] = c
  BY <1>1 DEF BusInv, BusTypes
<1>4. ASSUME NEW p, Listening(p), NEW from \in 0..1, NEW to \in 0..1, NEW scl \in 0..1, p.pulls => from = to
      PROVE  Listening(B!SdaMoves(p, from, to, scl))
  <2>1. CASE scl = 0 \/ from = to
    BY <1>4, <2>1, SdaMovesIs
  <2>2. CASE ~(scl = 0 \/ from = to)
    <3>1. ~p.pulls
      BY <1>4, <2>2
    <3> QED
      BY <1>4, <2>2, <3>1, SdaMovesIs
  <2> QED
    BY <2>1, <2>2
<1>5. ASSUME NEW p, Listening(p), NEW sda \in 0..1
      PROVE  Listening(B!Hears(p, sda, 1, FALSE))
  <2>1. B!Line(sda, p) \in 0..1
    BY <1>5, LineIs
  <2>2. Listening(B!SclRises(p, B!Line(sda, p)))
    BY <1>5, <2>1, SclRisesIs
  <2> QED
    BY <1>3, <1>5, <2>2 DEF B!Hears
<1>6. ASSUME NEW p, Listening(p), NEW from \in 0..1, NEW to \in 0..1
      PROVE  /\ B!Line(from, p) \in 0..1 /\ B!Line(to, p) \in 0..1
             /\ p.pulls => B!Line(from, p) = B!Line(to, p)
  BY <1>6, LineIs
<1>7. Listening(bus_panel')
  <2> DEFINE q == B!Hears(bus_panel, bus_m_nLast[1], 1, FALSE)
  <2>1. 1 \in 0..1
    OBVIOUS
  <2>2. Listening(B!Hears(B!AfterSda(1), 1, 1, FALSE))
    <3>1. Listening(B!AfterSda(1))
      BY <1>3, <1>4, <1>6 DEF B!AfterSda
    <3> QED
      BY <1>5, <2>1, <3>1, Zenon
  <2>3. Listening(B!SdaMoves(q, B!Line(bus_m_nLast[1], q), B!Line(1, q), 1))
    <3>1. bus_m_nLast[1] \in 0..1
      BY <1>3
    <3>2. Listening(q)
      BY <1>3, <1>5, <3>1, Zenon
    <3> HIDE DEF q
    <3>3. /\ B!Line(bus_m_nLast[1], q) \in 0..1 /\ B!Line(1, q) \in 0..1
          /\ q.pulls => B!Line(bus_m_nLast[1], q) = B!Line(1, q)
      BY <1>6, <2>1, <3>1, <3>2, Zenon
    <3> QED
      BY <1>4, <2>1, <3>2, <3>3, Zenon
  <2>4. \/ bus_panel' = B!Hears(B!AfterSda(1), 1, 1, FALSE)
        \/ bus_panel' = B!SdaMoves(q, B!Line(bus_m_nLast[1], q), B!Line(1, q), 1)
    BY Zenon DEF B!Reset
  <2> QED
    BY <2>2, <2>3, <2>4, Zenon
<1>8. << >> \in Seq(Bytes)
  BY EmptySeq
<1>9. bus_m_nLast' \in (0..1) \X (0..1) /\ bus_driven' \in Nat /\ bus_i' \in Nat
  BY <1>2
<1>10. bus_ret' \in BOOLEAN /\ bus_free' \in BOOLEAN
  BY <1>2, Zenon
<1>11. bus_wanted' \in Seq(Bytes)
  BY <1>2, <1>8
<1>12. BusTypes'
  BY <1>2, <1>7, <1>9, <1>10, <1>11 DEF BusTypes
<1> QED
  BY <1>2, <1>12 DEF BusInv

(* The pins are about to be started.                                        *)
LEMMA GpioKeeps ==
  ASSUME BusInv, B!gpio_init
  PROVE  BusInv'
<1>1. /\ bus_pc = "off" /\ bus_pc' = "init" /\ bus_driven' = 0
      /\ UNCHANGED <<bus_m_nLast, bus_i, bus_wanted, bus_ret, bus_free, bus_panel>>
  BY DEF B!gpio_init
<1>2. BusTypes /\ bus_wanted = << >>
  BY <1>1 DEF BusInv
<1>3. BusTypes'
  BY <1>1, <1>2 DEF BusTypes
<1>4. Initing'
  BY <1>1, <1>2 DEF Initing
<1> QED
  BY <1>1, <1>3, <1>4 DEF BusInv

(* It holds at first.                                                       *)
LEMMA BusBegins ==
  ASSUME B!Init
  PROVE  BusInv
<1>1. /\ bus_m_nLast = <<1, 1>> /\ bus_pc = "off" /\ bus_driven = 0 /\ bus_i = 1
      /\ bus_wanted = << >> /\ bus_ret = FALSE /\ bus_free = FALSE /\ bus_panel = B!Free
  BY DEF B!Init
<1>2. << >> \in Seq(Bytes) /\ 0 \in Bytes /\ 0 \in 0..8 /\ 0 < B!Powers[0 + 1]
  BY EmptySeq, PowersAre DEF Bytes
<1>3. B!Free \in Listeners
  BY <1>2 DEF B!Free, Listeners
<1>4. B!Free.n = 0 /\ B!Free.byte = 0 /\ ~B!Free.pulls
  BY DEF B!Free
<1>5. Listening(B!Free)
  BY <1>2, <1>3, <1>4 DEF Listening
<1>6. bus_m_nLast \in (0..1) \X (0..1) /\ bus_driven \in Nat /\ bus_i \in Nat
  BY <1>1
<1>7. bus_ret \in BOOLEAN /\ bus_free \in BOOLEAN
  BY <1>1, Zenon
<1>8. bus_wanted \in Seq(Bytes)
  BY <1>1, <1>2
<1>9. BusTypes
  BY <1>1, <1>5, <1>6, <1>7, <1>8 DEF BusTypes
<1> QED
  BY <1>1, <1>9 DEF BusInv

(* Every step keeps it.                                                     *)
LEMMA BusSteps ==
  ASSUME BusInv, BoardAssumption, B!Next
  PROVE  BusInv'
<1>1. ASSUME B!Drive PROVE BusInv'
  BY <1>1, DrivesAck, DrivesInit, DrivesStart, DrivesByte, DrivesStop DEF B!Drive
<1> QED
  BY <1>1, GpioKeeps, CallKeeps, ReturnKeeps, ResetKeeps, WriteKeeps, Zenon DEF B!Next

(* And it says what the transfer promises.                                  *)
LEMMA BusArrives ==
  ASSUME BusInv
  PROVE  B!TypeOK /\ B!TransferArrives
<1>1. B!TypeOK
  <2>1. bus_panel.n \in 0..8 /\ bus_panel.byte \in 0..255
    BY ListenerIs DEF BusInv, BusTypes, Bytes
  <2> QED
    BY <2>1 DEF B!TypeOK, BusInv, BusTypes
<1>2. B!TransferArrives
  <2>1. SUFFICES ASSUME bus_pc = "idle", bus_wanted # << >>
                 PROVE  /\ ~bus_panel.in /\ ~bus_panel.pulls
                        /\ bus_free => IF bus_ret THEN bus_panel.got = bus_wanted
                                       ELSE B!IsStrictPrefix(bus_panel.got, bus_wanted)
    BY DEF B!TransferArrives
  <2>2. Brought /\ ~bus_panel.in
    BY <2>1 DEF BusInv, Idling
  <2>3. ASSUME bus_free, bus_ret
        PROVE  bus_panel.got = bus_wanted
    <3>1. First(Len(bus_wanted))
      BY <2>2, <2>3 DEF Brought
    <3>2. bus_panel.got \in Seq(Bytes) /\ bus_wanted \in Seq(Bytes)
      BY ListenerIs DEF BusInv, BusTypes
    <3> QED
      BY <3>1, <3>2, SeqEqual DEF First
  <2>4. ASSUME bus_free, ~bus_ret
        PROVE  B!IsStrictPrefix(bus_panel.got, bus_wanted)
    <3>1. PICK s \in Seq(Bytes), t \in Seq(Bytes) : s = bus_panel.got /\ t = bus_wanted
      BY ListenerIs DEF BusInv, BusTypes
    <3>2. First(bus_i - 1) /\ bus_i \in 1..Len(t)
      BY <2>2, <2>4, <3>1 DEF Brought
    <3>3. PICK l \in Nat : l = bus_i - 1 /\ l < Len(t)
      BY <3>1, <3>2, LenProperties
    <3>4. Len(s) = l /\ \A k \in 1..l : s[k] = t[k]
      BY <3>1, <3>2, <3>3 DEF First
    <3>5. SubSeq(s, 1, l) \in Seq(Bytes) /\ SubSeq(t, 1, l) \in Seq(Bytes)
          /\ Len(SubSeq(s, 1, l)) = l /\ Len(SubSeq(t, 1, l)) = l
          /\ \A k \in 1..l : SubSeq(s, 1, l)[k] = s[k] /\ SubSeq(t, 1, l)[k] = t[k]
      BY <3>3, <3>4, SubSeqProperties, LenProperties
    <3>6. SubSeq(s, 1, l) = SubSeq(t, 1, l)
      BY <3>4, <3>5, SeqEqual
    <3>7. s # t /\ Len(s) <= Len(t)
      BY <3>3, <3>4
    <3> QED
      BY <3>1, <3>4, <3>6, <3>7 DEF B!IsStrictPrefix, B!IsPrefix
  <2> QED
    BY <2>2, <2>3, <2>4 DEF Brought
<1> QED
  BY <1>1, <1>2

(* SSD1306_I2C_Write, the calls of ssd1306_i2c.c under it and a panel that  *)
(* listens as the bus asks: for every address, control byte, data and       *)
(* number of resets, a transfer that the driver takes for done has brought  *)
(* its bytes, one it broke off a proper part of them, and after either the  *)
(* panel is out of it, unless a reset left it inside an earlier one.        *)
THEOREM TransferCorrect == Spec => []TransferArrives
<1> DEFINE Inv == active = "bus" => BusInv
<1>1. Init => Inv
  BY BusBegins, Zenon DEF Init
<1>2. Inv /\ [Next]_vars => Inv'
  <2> SUFFICES ASSUME Inv, [Next]_vars, active' = "bus" PROVE BusInv'
    OBVIOUS
  <2>1. CASE UNCHANGED vars
    <3>1. active = "bus" /\ UNCHANGED busVars
      BY <2>1 DEF vars
    <3>2. BusInv
      BY <3>1
    <3> QED
      BY <3>1, <3>2 DEF busVars, BusInv, BusTypes, Initing, Starting, Sending, Acking, Stopping, Idling,
                        Brought, Began, Empty, Answering, Deaf, Taking, Sent, First
  <2>2. CASE active = "bus" /\ B!Next
    BY <2>2, BoardAssumption, BusSteps
  <2>3. CASE active # "bus" /\ UNCHANGED active
    BY <2>3
  <2>4. Next => (active = "bus" /\ B!Next) \/ (active # "bus" /\ UNCHANGED active)
    BY DEF Next
  <2> QED
    BY <2>1, <2>2, <2>3, <2>4
<1>3. Inv => TransferArrives
  BY BusArrives DEF TransferArrives
<1> QED
  BY <1>1, <1>2, <1>3, PTL DEF Spec
-----------------------------------------------------------------------------
(* What holds before the first round and is kept by each holds up to the    *)
(* last.                                                                    *)
LEMMA UpTo ==
  ASSUME NEW n \in Nat, NEW good, 0 \in good,
         \A i \in 0..n - 1 : i \in good => i + 1 \in good
  PROVE  \A i \in 0..n : i \in good
<1> DEFINE bad == {i \in 0..n : i \notin good}
<1> SUFFICES ASSUME bad # {} PROVE FALSE
  OBVIOUS
<1>1. bad \in SUBSET Nat
  OBVIOUS
<1> HIDE DEF bad
<1>2. PICK c \in bad : \A d \in bad : c <= d
  BY <1>1, LeastThere
<1>3. c \in 0..n /\ c \notin good /\ c # 0
  BY DEF bad
<1>4. c - 1 \in 0..n - 1 /\ c - 1 + 1 = c /\ ~(c <= c - 1)
  BY <1>3
<1>5. c - 1 \notin bad
  BY <1>2, <1>4
<1>6. c - 1 \in good
  BY <1>4, <1>5 DEF bad
<1> QED
  BY <1>3, <1>4, <1>6

(* The states that n rounds lead to, one by one.                            *)
IsRun(m, F, start, n) == m[0] = start /\ \A i \in 1..n : m[i] = F[i][m[i - 1]]

(* Each round of a loop can be made from the one before.                    *)
LEMMA Made ==
  ASSUME NEW X, NEW n \in Nat, NEW F, F \in [1..n -> [X -> X]], NEW start, start \in X
  PROVE  \E m \in [0..n -> X] : IsRun(m, F, start, n)
<1> DEFINE IsMade(m, k) == m[0] = start /\ \A i \in 1..k : m[i] = F[i][m[i - 1]]
           good == {k \in 0..n : \E m \in [0..k -> X] : IsMade(m, k)}
<1>1. 0 \in good
  <2> DEFINE first == [i \in 0..0 |-> start]
  <2>1. first \in [0..0 -> X] /\ IsMade(first, 0)
    OBVIOUS
  <2>2. 0 \in 0..n
    OBVIOUS
  <2> HIDE DEF first
  <2> QED
    BY <2>1, <2>2
<1>2. ASSUME NEW k \in 0..n - 1, k \in good PROVE k + 1 \in good
  <2>1. PICK m \in [0..k -> X] : IsMade(m, k)
    BY <1>2
  <2> DEFINE next == [i \in 0..k + 1 |-> IF i = k + 1 THEN F[k + 1][m[k]] ELSE m[i]]
  <2>2. k + 1 \in 1..n /\ k \in 0..k
    OBVIOUS
  <2>3. F[k + 1] \in [X -> X] /\ m[k] \in X
    BY <2>2
  <2>4. F[k + 1][m[k]] \in X
    BY <2>3
  <2>5. next \in [0..k + 1 -> X]
    BY <2>4
  <2>6. next[0] = start
    BY <2>1
  <2>7. ASSUME NEW i \in 1..k + 1 PROVE next[i] = F[i][next[i - 1]]
    <3>1. CASE i = k + 1
      <4>1. i - 1 = k /\ i - 1 \in 0..k + 1 /\ i - 1 # k + 1
        BY <3>1
      <4> QED
        BY <3>1, <4>1
    <3>2. CASE i # k + 1
      <4>1. i \in 1..k /\ i - 1 \in 0..k + 1 /\ i - 1 # k + 1 /\ i \in 0..k + 1
        BY <3>2
      <4> QED
        BY <2>1, <3>2, <4>1
    <3> QED
      BY <3>1, <3>2
  <2> HIDE DEF next
  <2>8. IsMade(next, k + 1)
    BY <2>6, <2>7
  <2>9. k + 1 \in 0..n
    OBVIOUS
  <2> QED
    BY <2>5, <2>8, <2>9
<1> HIDE DEF good
<1>3. n \in good
  <2>1. n \in 0..n
    OBVIOUS
  <2> QED
    BY <1>1, <1>2, <2>1, UpTo
<1>4. PICK m \in [0..n -> X] : IsMade(m, n)
  BY <1>3 DEF good
<1> QED
  BY <1>4 DEF IsRun
-----------------------------------------------------------------------------
(* Products keep an order.                                                  *)
LEMMA ProductsOrdered ==
  ASSUME NEW a \in Int, NEW b \in Int, NEW c \in Nat, a <= b
  PROVE  a * c <= b * c
OBVIOUS

(* Half a number, rounded down.                                             *)
LEMMA Half ==
  ASSUME NEW d \in Nat
  PROVE  /\ d \div 2 \in Nat /\ 2 * (d \div 2) <= d /\ d <= 2 * (d \div 2) + 1
         /\ d > 0 => d \div 2 < d
OBVIOUS

(* A round of the walk along a flat line: x goes on, y when the error says  *)
(* so, and the point is at most half a point away from the line.            *)
LEMMA FlatRound ==
  ASSUME NEW dx \in Nat, NEW dy \in Nat, dy < dx,
         NEW x \in 0..dx - 1, NEW y \in 0..dy, NEW err \in 0..dx - 1,
         err = dx \div 2 + y * dx - x * dy,
         NEW toY \in Int, NEW toErr \in Int,
         toY = (IF err < dy THEN y + 1 ELSE y),
         toErr = (IF err < dy THEN err - dy + dx ELSE err - dy)
  PROVE  /\ err > -dx /\ toErr \in 0..dx - 1 /\ toY \in 0..dy
         /\ toErr = dx \div 2 + toY * dx - (x + 1) * dy
         /\ 2 * (toY * dx - (x + 1) * dy) <= dx
         /\ -(2 * (toY * dx - (x + 1) * dy)) <= dx
<1>1. toErr \in 0..dx - 1
  OBVIOUS
<1>2. (x + 1) * dy = x * dy + dy /\ (y + 1) * dx = y * dx + dx
  OBVIOUS
<1>3. toErr = dx \div 2 + toY * dx - (x + 1) * dy
  <2>1. CASE err < dy
    <3>1. toY = y + 1 /\ toErr = err - dy + dx
      BY <2>1
    <3> QED
      BY <1>2, <3>1, Half
  <2>2. CASE ~(err < dy)
    <3>1. toY = y /\ toErr = err - dy
      BY <2>2
    <3> QED
      BY <1>2, <3>1, Half
  <2> QED
    BY <2>1, <2>2
<1>4. toY \in 0..dy
  <2>1. toY \in 0..dy + 1
    OBVIOUS
  <2> SUFFICES ASSUME toY = dy + 1 PROVE FALSE
    BY <2>1
  <2>2. (x + 1) * dy <= dx * dy
    BY ProductsOrdered
  <2>3. (dy + 1) * dx = dx * dy + dx
    OBVIOUS
  <2> QED
    BY <1>1, <1>3, <2>2, <2>3, Half
<1> QED
  BY <1>1, <1>3, <1>4, Half

(* The same along a steep line.                                             *)
LEMMA SteepRound ==
  ASSUME NEW dx \in Nat, NEW dy \in Nat, dx <= dy, dy > 0,
         NEW x \in 0..dx, NEW y \in 0..dy - 1, NEW err \in -dy + 1..0,
         err = -(dy \div 2) + y * dx - x * dy,
         NEW toX \in Int, NEW toErr \in Int,
         toX = (IF err > -dx THEN x + 1 ELSE x),
         toErr = (IF err > -dx THEN err - dy + dx ELSE err + dx)
  PROVE  /\ err < dy /\ toErr \in -dy + 1..0 /\ toX \in 0..dx
         /\ toErr = -(dy \div 2) + (y + 1) * dx - toX * dy
         /\ 2 * ((y + 1) * dx - toX * dy) <= dy
         /\ -(2 * ((y + 1) * dx - toX * dy)) <= dy
<1>1. toErr \in -dy + 1..0
  OBVIOUS
<1>2. (x + 1) * dy = x * dy + dy /\ (y + 1) * dx = y * dx + dx
  OBVIOUS
<1>3. toErr = -(dy \div 2) + (y + 1) * dx - toX * dy
  <2>1. CASE err > -dx
    <3>1. toX = x + 1 /\ toErr = err - dy + dx
      BY <2>1
    <3> QED
      BY <1>2, <3>1, Half
  <2>2. CASE ~(err > -dx)
    <3>1. toX = x /\ toErr = err + dx
      BY <2>2
    <3> QED
      BY <1>2, <3>1, Half
  <2> QED
    BY <2>1, <2>2
<1>4. toX \in 0..dx
  <2>1. toX \in 0..dx + 1
    OBVIOUS
  <2> SUFFICES ASSUME toX = dx + 1 PROVE FALSE
    BY <2>1
  <2>2. (y + 1) * dx <= dy * dx
    BY ProductsOrdered
  <2>3. (dx + 1) * dy = dy * dx + dy
    OBVIOUS
  <2> QED
    BY <1>1, <1>3, <2>2, <2>3, Half
<1> QED
  BY <1>1, <1>3, <1>4, Half

(* At the end of the longer side the shorter one is at its end, too.        *)
LEMMA FlatEnd ==
  ASSUME NEW dx \in Nat, NEW dy \in Nat, dy < dx, NEW y \in 0..dy,
         dx \div 2 + y * dx - dx * dy \in 0..dx - 1
  PROVE  y = dy
<1> SUFFICES ASSUME y <= dy - 1 PROVE FALSE
  OBVIOUS
<1>1. y * dx <= (dy - 1) * dx
  BY ProductsOrdered
<1>2. (dy - 1) * dx = dx * dy - dx
  OBVIOUS
<1> QED
  BY <1>1, <1>2, Half

LEMMA SteepEnd ==
  ASSUME NEW dx \in Nat, NEW dy \in Nat, dx <= dy, dy > 0, NEW x \in 0..dx,
         -(dy \div 2) + dy * dx - x * dy \in -dy + 1..0
  PROVE  x = dx
<1> SUFFICES ASSUME x <= dx - 1 PROVE FALSE
  OBVIOUS
<1>1. x * dy <= (dx - 1) * dy
  BY ProductsOrdered
<1>2. (dx - 1) * dy = dy * dx - dy
  OBVIOUS
<1> QED
  BY <1>1, <1>2, Half
-----------------------------------------------------------------------------
(* Points, on the panel or not, and where a walk may be.                    *)
Pixels == Int \X Int
Walkers == [at : Pixels, points : SUBSET Pixels, err : Int]

Dx(a, b) == G!Abs(b[1] - a[1])
Dy(a, b) == G!Abs(b[2] - a[2])

(* The point that lies x columns and y rows from a, towards b, and whether  *)
(* it is no further from the line than half a point.                        *)
Towards(a, b, x, y) == <<a[1] + x * G!Sign(a[1], b[1]), a[2] + y * G!Sign(a[2], b[2])>>
Near(a, b, x, y) ==
  /\ 2 * (y * Dx(a, b) - x * Dy(a, b)) <= G!Most(Dx(a, b), Dy(a, b))
  /\ -(2 * (y * Dx(a, b) - x * Dy(a, b))) <= G!Most(Dx(a, b), Dy(a, b))

(* The points of a walk of k rounds that has come so far.                   *)
Trail(a, b, x, y, k, s) ==
  /\ {a, s.at} \subseteq s.points /\ IsFiniteSet(s.points) /\ Cardinality(s.points) = k + 1
  /\ \A p \in s.points : \E u \in 0..x, v \in 0..y : p = Towards(a, b, u, v) /\ Near(a, b, u, v)

(* After k rounds: where the walk is, what its error says, and its points.  *)
Walked(a, b, k, s) ==
  \E x \in 0..Dx(a, b), y \in 0..Dy(a, b) :
    /\ s.at = Towards(a, b, x, y)
    /\ Dx(a, b) > Dy(a, b) => /\ x = k /\ s.err \in 0..Dx(a, b) - 1
                              /\ s.err = Dx(a, b) \div 2 + y * Dx(a, b) - x * Dy(a, b)
    /\ Dx(a, b) <= Dy(a, b) => /\ y = k /\ s.err \in -Dy(a, b) + 1..0
                               /\ s.err = -(Dy(a, b) \div 2) + y * Dx(a, b) - x * Dy(a, b)
    /\ Trail(a, b, x, y, k, s)

(* Distances and directions.                                                *)
LEMMA Distances ==
  ASSUME NEW a \in Pixels, NEW b \in Pixels
  PROVE  /\ a[1] \in Int /\ a[2] \in Int /\ b[1] \in Int /\ b[2] \in Int
         /\ a = <<a[1], a[2]>> /\ b = <<b[1], b[2]>>
         /\ Dx(a, b) \in Nat /\ Dy(a, b) \in Nat
         /\ G!Sign(a[1], b[1]) \in {1, -1} /\ G!Sign(a[2], b[2]) \in {1, -1}
         /\ b[1] = a[1] + Dx(a, b) * G!Sign(a[1], b[1])
         /\ b[2] = a[2] + Dy(a, b) * G!Sign(a[2], b[2])
         /\ b = Towards(a, b, Dx(a, b), Dy(a, b))
         /\ G!Most(Dx(a, b), Dy(a, b)) \in Nat
         /\ Dx(a, b) = 0 <=> a[1] = b[1]
         /\ Dy(a, b) = 0 <=> a[2] = b[2]
<1>1. /\ a[1] \in Int /\ a[2] \in Int /\ b[1] \in Int /\ b[2] \in Int
      /\ a = <<a[1], a[2]>> /\ b = <<b[1], b[2]>>
  BY DEF Pixels
<1>2. /\ Dx(a, b) \in Nat /\ G!Sign(a[1], b[1]) \in {1, -1}
      /\ b[1] = a[1] + Dx(a, b) * G!Sign(a[1], b[1])
      /\ Dx(a, b) = 0 <=> a[1] = b[1]
  BY <1>1 DEF Dx, G!Abs, G!Sign
<1>3. /\ Dy(a, b) \in Nat /\ G!Sign(a[2], b[2]) \in {1, -1}
      /\ b[2] = a[2] + Dy(a, b) * G!Sign(a[2], b[2])
      /\ Dy(a, b) = 0 <=> a[2] = b[2]
  BY <1>1 DEF Dy, G!Abs, G!Sign
<1>4. b = Towards(a, b, Dx(a, b), Dy(a, b))
  BY <1>1, <1>2, <1>3 DEF Towards
<1>5. G!Most(Dx(a, b), Dy(a, b)) \in Nat
  BY <1>2, <1>3 DEF G!Most
<1> QED
  BY <1>1, <1>2, <1>3, <1>4, <1>5

(* Different steps lead to different points.                                *)
LEMMA TowardsApart ==
  ASSUME NEW a \in Pixels, NEW b \in Pixels,
         NEW x \in Int, NEW y \in Int, NEW u \in Int, NEW v \in Int
  PROVE  /\ Towards(a, b, x, y) \in Pixels
         /\ Towards(a, b, x, y) = Towards(a, b, u, v) <=> x = u /\ y = v
<1>1. PICK sx \in {1, -1}, sy \in {1, -1} : sx = G!Sign(a[1], b[1]) /\ sy = G!Sign(a[2], b[2])
  BY Distances
<1>2. a[1] \in Int /\ a[2] \in Int
  BY Distances
<1>3. Towards(a, b, x, y) = <<a[1] + x * sx, a[2] + y * sy>> /\ Towards(a, b, u, v) = <<a[1] + u * sx, a[2] + v * sy>>
  BY <1>1 DEF Towards
<1>4. x * sx \in Int /\ y * sy \in Int /\ u * sx \in Int /\ v * sy \in Int
      /\ (x * sx = u * sx <=> x = u) /\ (y * sy = v * sy <=> y = v)
  BY <1>1
<1>5. (a[1] + x * sx = a[1] + u * sx /\ a[2] + y * sy = a[2] + v * sy) <=> x = u /\ y = v
  BY <1>2, <1>4
<1>6. <<a[1] + x * sx, a[2] + y * sy>> = <<a[1] + u * sx, a[2] + v * sy>>
        <=> (a[1] + x * sx = a[1] + u * sx /\ a[2] + y * sy = a[2] + v * sy)
  OBVIOUS
<1>7. <<a[1] + x * sx, a[2] + y * sy>> \in Pixels
  BY <1>2, <1>4 DEF Pixels
<1> QED
  BY <1>3, <1>5, <1>6, <1>7

LEMMA TowardsOne ==
  ASSUME NEW a \in Pixels, NEW b \in Pixels,
         NEW x \in Int, NEW y \in Int, NEW u \in Int, NEW v \in Int,
         Towards(a, b, x, y) = Towards(a, b, u, v)
  PROVE  x = u /\ y = v
BY TowardsApart

(* A round in which the walk goes from (x, y) to (toX, toY).                *)
LEMMA HalfKept ==
  ASSUME NEW a \in Pixels, NEW b \in Pixels, NEW s \in Walkers, NEW t \in Walkers, NEW k \in Nat,
         NEW x \in 0..Dx(a, b), NEW y \in 0..Dy(a, b), NEW toX \in x..x + 1, NEW toY \in y..y + 1,
         toX + toY > x + y, toX <= Dx(a, b), toY <= Dy(a, b),
         Trail(a, b, x, y, k, s),
         t.at = Towards(a, b, toX, toY), t.points = s.points \cup {t.at}, Near(a, b, toX, toY)
  PROVE  Trail(a, b, toX, toY, k + 1, t)
<1>1. Dx(a, b) \in Nat /\ Dy(a, b) \in Nat
  BY Distances
<1>2. t.at \notin s.points
  <2> SUFFICES ASSUME t.at \in s.points PROVE FALSE
    OBVIOUS
  <2>1. PICK u \in 0..x, v \in 0..y : t.at = Towards(a, b, u, v)
    BY DEF Trail
  <2>3. toX \in Int /\ toY \in Int /\ u \in Int /\ v \in Int
    BY <1>1
  <2>4. Towards(a, b, toX, toY) = Towards(a, b, u, v)
    BY <2>1
  <2>2. toX = u /\ toY = v
    BY <2>3, <2>4, TowardsOne
  <2> QED
    BY <1>1, <2>2
<1>3. IsFiniteSet(t.points) /\ Cardinality(t.points) = k + 1 + 1
  BY <1>2, FS_AddElement DEF Trail
<1>4. ASSUME NEW p \in t.points
      PROVE  \E u \in 0..toX, v \in 0..toY : p = Towards(a, b, u, v) /\ Near(a, b, u, v)
  <2>1. CASE p \in s.points
    <3>1. PICK u \in 0..x, v \in 0..y : p = Towards(a, b, u, v) /\ Near(a, b, u, v)
      BY <2>1 DEF Trail
    <3>2. u \in 0..toX /\ v \in 0..toY
      BY <1>1
    <3> QED
      BY <3>1, <3>2
  <2>2. CASE p = t.at
    <3>1. toX \in 0..toX /\ toY \in 0..toY
      BY <1>1
    <3> QED
      BY <2>2, <3>1
  <2> QED
    BY <2>1, <2>2
<1> QED
  BY <1>3, <1>4 DEF Trail

(* A round of the walk of DrawLine, before its end.                         *)
LEMMA WalkRound ==
  ASSUME NEW a \in Pixels, NEW b \in Pixels, Dx(a, b) > 0, Dy(a, b) > 0,
         NEW k \in 0..G!Most(Dx(a, b), Dy(a, b)) - 1,
         NEW s \in Walkers, Walked(a, b, k, s)
  PROVE  s.at # b /\ Walked(a, b, k + 1, G!WalkOn(a, b, s))
<1> DEFINE dx == Dx(a, b)
           dy == Dy(a, b)
           t == G!WalkOn(a, b, s)
<1>1. dx \in Nat /\ dy \in Nat /\ a[1] \in Int /\ a[2] \in Int
  BY Distances
<1>2. PICK x \in 0..dx, y \in 0..dy :
    /\ s.at = Towards(a, b, x, y)
    /\ dx > dy => /\ x = k /\ s.err \in 0..dx - 1
                  /\ s.err = dx \div 2 + y * dx - x * dy
    /\ dx <= dy => /\ y = k /\ s.err \in -dy + 1..0
                   /\ s.err = -(dy \div 2) + y * dx - x * dy
    /\ Trail(a, b, x, y, k, s)
  BY Zenon DEF Walked
<1>3. s.at # b
  <2> SUFFICES ASSUME s.at = b PROVE FALSE
    OBVIOUS
  <2>1. x \in Int /\ y \in Int /\ dx \in Int /\ dy \in Int
    BY <1>1
  <2>2. Towards(a, b, x, y) = Towards(a, b, dx, dy)
    BY <1>2, Distances, Zenon
  <2>3. x = dx /\ y = dy
    BY <2>1, <2>2, TowardsOne
  <2> QED
    BY <1>1, <1>2, <2>3 DEF G!Most
<1> DEFINE right == s.err > -dx
           down == s.err < dy
           toX == IF right THEN x + 1 ELSE x
           toY == IF down THEN y + 1 ELSE y
           toErr == s.err - (IF right THEN dy ELSE 0) + (IF down THEN dx ELSE 0)
<1>4. s.err \in Int
  BY DEF Walkers
<1>5. toX \in x..x + 1 /\ toY \in y..y + 1 /\ toX \in Int /\ toY \in Int /\ toErr \in Int
  BY <1>1, <1>4
<1>6. t.at = Towards(a, b, toX, toY) /\ t.points = s.points \cup {t.at} /\ t.err = toErr /\ t \in Walkers
  <2>1. s.at = <<a[1] + x * G!Sign(a[1], b[1]), a[2] + y * G!Sign(a[2], b[2])>>
    BY <1>2 DEF Towards
  <2> DEFINE to == <<s.at[1] + (IF right THEN G!Sign(a[1], b[1]) ELSE 0),
                     s.at[2] + (IF down THEN G!Sign(a[2], b[2]) ELSE 0)>>
  <2>2. t = [at |-> to, points |-> s.points \cup {to}, err |-> toErr]
    BY <1>3 DEF G!WalkOn, Dx, Dy
  <2>3. to = Towards(a, b, toX, toY)
    <3>1. PICK sx \in {1, -1}, sy \in {1, -1} : sx = G!Sign(a[1], b[1]) /\ sy = G!Sign(a[2], b[2])
      BY Distances
    <3>2. (x + 1) * sx = x * sx + sx /\ (y + 1) * sy = y * sy + sy /\ x * sx \in Int /\ y * sy \in Int
      BY <1>1, <3>1
    <3>3. a[1] + x * sx + (IF right THEN sx ELSE 0) = a[1] + toX * sx
      BY <1>1, <3>1, <3>2
    <3>4. a[2] + y * sy + (IF down THEN sy ELSE 0) = a[2] + toY * sy
      BY <1>1, <3>1, <3>2
    <3> QED
      BY <2>1, <3>1, <3>3, <3>4 DEF Towards
  <2>4. to \in Pixels
    BY <1>5, <2>3, <1>1, TowardsApart
  <2>5. s.points \subseteq Pixels
    BY DEF Walkers
  <2> QED
    BY <1>5, <2>2, <2>3, <2>4, <2>5 DEF Walkers
<1> HIDE DEF t
<1>7. CASE dx > dy
  <2>1. x = k /\ s.err \in 0..dx - 1 /\ s.err = dx \div 2 + y * dx - x * dy /\ x \in 0..dx - 1
    BY <1>1, <1>2, <1>7 DEF G!Most
  <2>2. right
    BY <1>1, <2>1
  <2>3. toErr = IF s.err < dy THEN s.err - dy + dx ELSE s.err - dy
    BY <1>1, <1>4, <2>2
  <2>4. /\ toErr \in 0..dx - 1 /\ toY \in 0..dy /\ toX = x + 1
        /\ toErr = dx \div 2 + toY * dx - toX * dy
        /\ 2 * (toY * dx - toX * dy) <= dx
        /\ -(2 * (toY * dx - toX * dy)) <= dx
    <3> HIDE DEF toErr, toY, dx, dy
    <3>1. toX = x + 1
      BY <2>2
    <3>2. toY \in Int /\ toErr \in Int /\ toY = (IF s.err < dy THEN y + 1 ELSE y)
      BY <1>5 DEF toY
    <3> HIDE DEF toX
    <3> QED
      BY <1>1, <1>7, <2>1, <2>3, <3>1, <3>2, FlatRound
  <2>5. Near(a, b, toX, toY)
    BY <1>1, <1>7, <2>4 DEF Near, G!Most
  <2> HIDE DEF toX, toY, toErr, right, down
  <2>6. toX <= dx /\ toY <= dy /\ toX + toY > x + y /\ toX \in 0..dx
    BY <1>1, <1>5, <2>1, <2>4
  <2>7. Trail(a, b, toX, toY, k + 1, t)
    BY <1>2, <1>5, <1>6, <2>5, <2>6, HalfKept
  <2>8. toX = k + 1 /\ ~(dx <= dy)
    BY <1>1, <1>7, <2>1, <2>4
  <2>9. Walked(a, b, k + 1, t)
    BY <1>6, <2>4, <2>6, <2>7, <2>8 DEF Walked
  <2> QED
    BY <1>3, <2>9 DEF t
<1>8. CASE dx <= dy
  <2>1. y = k /\ s.err \in -dy + 1..0 /\ s.err = -(dy \div 2) + y * dx - x * dy /\ y \in 0..dy - 1
    BY <1>1, <1>2, <1>8 DEF G!Most
  <2>2. down
    BY <1>1, <2>1
  <2>3. toErr = IF s.err > -dx THEN s.err - dy + dx ELSE s.err + dx
    BY <1>1, <1>4, <2>2
  <2>4. /\ toErr \in -dy + 1..0 /\ toX \in 0..dx /\ toY = y + 1
        /\ toErr = -(dy \div 2) + toY * dx - toX * dy
        /\ 2 * (toY * dx - toX * dy) <= dy
        /\ -(2 * (toY * dx - toX * dy)) <= dy
    <3> HIDE DEF toErr, toX, dx, dy
    <3>1. toY = y + 1
      BY <2>2
    <3>2. toX \in Int /\ toErr \in Int /\ toX = (IF s.err > -dx THEN x + 1 ELSE x)
      BY <1>5 DEF toX
    <3> HIDE DEF toY
    <3> QED
      BY <1>1, <1>8, <2>1, <2>3, <3>1, <3>2, SteepRound
  <2>5. Near(a, b, toX, toY)
    BY <1>1, <1>8, <2>4 DEF Near, G!Most
  <2> HIDE DEF toX, toY, toErr, right, down
  <2>6. toX <= dx /\ toY <= dy /\ toX + toY > x + y /\ toY \in 0..dy
    BY <1>1, <1>5, <2>1, <2>4
  <2>7. Trail(a, b, toX, toY, k + 1, t)
    BY <1>2, <1>5, <1>6, <2>5, <2>6, HalfKept
  <2>8. toY = k + 1 /\ ~(dx > dy)
    BY <1>1, <1>8, <2>1, <2>4
  <2>9. Walked(a, b, k + 1, t)
    BY <1>6, <2>4, <2>6, <2>7, <2>8 DEF Walked
  <2> QED
    BY <1>3, <2>9 DEF t
<1> QED
  BY <1>1, <1>3, <1>7, <1>8

(* A walk is made of its rounds.                                            *)
LEMMA WalkMade ==
  ASSUME NEW a \in Pixels, NEW b \in Pixels
  PROVE  \E w \in [0..Dx(a, b) + Dy(a, b) -> Walkers] :
           /\ w[0] = [at |-> a, points |-> {a},
                      err |-> IF Dx(a, b) > Dy(a, b) THEN Dx(a, b) \div 2 ELSE -(Dy(a, b) \div 2)]
           /\ \A i \in 1..Dx(a, b) + Dy(a, b) : w[i] = G!WalkOn(a, b, w[i - 1])
           /\ G!Walk(a, b) = w[Dx(a, b) + Dy(a, b)]
<1> DEFINE n == Dx(a, b) + Dy(a, b)
           start == [at |-> a, points |-> {a},
                     err |-> IF Dx(a, b) > Dy(a, b) THEN Dx(a, b) \div 2 ELSE -(Dy(a, b) \div 2)]
           F == [i \in 1..n |-> [s \in Walkers |-> G!WalkOn(a, b, s)]]
           IsMade(m) == m = [i \in 0..n |-> IF i = 0 THEN start ELSE G!WalkOn(a, b, m[i - 1])]
<1>1. Dx(a, b) \in Nat /\ Dy(a, b) \in Nat /\ n \in Nat
  BY Distances
<1>2. start \in Walkers
  <2>1. Dx(a, b) \div 2 \in Int /\ -(Dy(a, b) \div 2) \in Int
    BY <1>1
  <2> QED
    BY <2>1 DEF Walkers
<1>3. ASSUME NEW s \in Walkers PROVE G!WalkOn(a, b, s) \in Walkers
  <2>1. /\ a[1] \in Int /\ a[2] \in Int /\ s.at[1] \in Int /\ s.at[2] \in Int /\ s.err \in Int
        /\ s.points \subseteq Pixels /\ G!Sign(a[1], b[1]) \in Int /\ G!Sign(a[2], b[2]) \in Int
    BY Distances DEF Walkers, Pixels
  <2> DEFINE to == <<s.at[1] + (IF s.err > -Dx(a, b) THEN G!Sign(a[1], b[1]) ELSE 0),
                     s.at[2] + (IF s.err < Dy(a, b) THEN G!Sign(a[2], b[2]) ELSE 0)>>
             err == s.err - (IF s.err > -Dx(a, b) THEN Dy(a, b) ELSE 0)
                          + (IF s.err < Dy(a, b) THEN Dx(a, b) ELSE 0)
  <2>2. to \in Pixels /\ err \in Int
    BY <1>1, <2>1 DEF Pixels
  <2>3. G!WalkOn(a, b, s) = IF s.at = b THEN s ELSE [at |-> to, points |-> s.points \cup {to}, err |-> err]
    BY DEF G!WalkOn, Dx, Dy
  <2> HIDE DEF to, err
  <2>4. [at |-> to, points |-> s.points \cup {to}, err |-> err] \in Walkers
    BY <2>1, <2>2 DEF Walkers
  <2> QED
    BY <2>3, <2>4
<1> HIDE DEF n, start
<1>4. F \in [1..n -> [Walkers -> Walkers]]
  BY <1>3
<1> HIDE DEF F
<1>5. PICK m \in [0..n -> Walkers] : IsRun(m, F, start, n)
  BY <1>1, <1>2, <1>4, Made
<1>6. ASSUME NEW i \in 0..n PROVE m[i] = IF i = 0 THEN start ELSE G!WalkOn(a, b, m[i - 1])
  <2> SUFFICES ASSUME i # 0 PROVE m[i] = G!WalkOn(a, b, m[i - 1])
    BY <1>5 DEF IsRun
  <2>1. i \in 1..n /\ i - 1 \in 0..n
    BY <1>1
  <2>2. m[i - 1] \in Walkers
    BY <2>1
  <2> QED
    BY <1>5, <2>1, <2>2 DEF F, IsRun
<1>7. IsMade(m)
  <2>1. m = [i \in 0..n |-> m[i]]
    OBVIOUS
  <2> QED
    BY <1>6, <2>1, Zenon
<1> DEFINE w == CHOOSE made : IsMade(made)
<1>8. IsMade(w)
  BY <1>7, Zenon
<1>9. G!Walk(a, b) = w[n]
  BY Zenon DEF G!Walk, G!Rounds, Dx, Dy, n, start
<1> HIDE DEF w
<1>10. ASSUME NEW i \in 0..n PROVE w[i] = IF i = 0 THEN start ELSE G!WalkOn(a, b, w[i - 1])
  BY <1>8
<1>11. w[0] = start /\ \A i \in 1..n : w[i] = G!WalkOn(a, b, w[i - 1])
  <2>1. 0 \in 0..n /\ \A i \in 1..n : i \in 0..n /\ i # 0
    BY <1>1
  <2> QED
    BY <1>10, <2>1
<1>12. \A i \in 0..n : w[i] \in Walkers
  <2> DEFINE good == {i \in 0..n : w[i] \in Walkers}
  <2>1. 0 \in good
    BY <1>1, <1>2, <1>11
  <2>2. ASSUME NEW i \in 0..n - 1, i \in good PROVE i + 1 \in good
    <3>1. i + 1 \in 1..n /\ i + 1 \in 0..n /\ i + 1 - 1 = i
      BY <1>1
    <3> QED
      BY <1>3, <1>11, <2>2, <3>1
  <2> HIDE DEF good
  <2>3. \A i \in 0..n : i \in good
    BY <1>1, <2>1, <2>2, UpTo
  <2> QED
    BY <2>3 DEF good
<1>13. DOMAIN w = 0..n /\ w = [i \in 0..n |-> w[i]]
  <2> DEFINE e == [i \in 0..n |-> IF i = 0 THEN start ELSE G!WalkOn(a, b, w[i - 1])]
  <2>1. w = e
    BY <1>8
  <2>2. DOMAIN e = 0..n /\ e = [i \in 0..n |-> e[i]]
    OBVIOUS
  <2> QED
    BY <2>1, <2>2
<1> QED
  BY <1>9, <1>11, <1>12, <1>13 DEF n, start

(* The walk ends at its end, and is there with the longer side.             *)
LEMMA WalkDone ==
  ASSUME NEW a \in Pixels, NEW b \in Pixels, Dx(a, b) > 0, Dy(a, b) > 0
  PROVE  /\ G!Walk(a, b) \in Walkers /\ G!Walk(a, b).at = b
         /\ \E x \in 0..Dx(a, b), y \in 0..Dy(a, b) :
              Trail(a, b, x, y, G!Most(Dx(a, b), Dy(a, b)), G!Walk(a, b))
<1>1. /\ Dx(a, b) \in Nat /\ Dy(a, b) \in Nat /\ G!Most(Dx(a, b), Dy(a, b)) \in Nat
      /\ G!Most(Dx(a, b), Dy(a, b)) <= Dx(a, b) + Dy(a, b)
      /\ (Dx(a, b) > Dy(a, b) => G!Most(Dx(a, b), Dy(a, b)) = Dx(a, b))
      /\ (Dx(a, b) <= Dy(a, b) => G!Most(Dx(a, b), Dy(a, b)) = Dy(a, b))
  BY Distances DEF G!Most
<1> DEFINE start == [at |-> a, points |-> {a},
                     err |-> IF Dx(a, b) > Dy(a, b) THEN Dx(a, b) \div 2 ELSE -(Dy(a, b) \div 2)]
<1>2. PICK n \in Nat, long \in Nat : n = Dx(a, b) + Dy(a, b) /\ long = G!Most(Dx(a, b), Dy(a, b)) /\ long <= n
  BY <1>1
<1>3. PICK w \in [0..n -> Walkers] :
        /\ w[0] = start /\ \A i \in 1..n : w[i] = G!WalkOn(a, b, w[i - 1])
        /\ G!Walk(a, b) = w[n]
  BY <1>2, WalkMade
<1>4. Walked(a, b, 0, w[0])
  <2>1. 0 \in 0..Dx(a, b) /\ 0 \in 0..Dy(a, b)
    BY <1>1
  <2>2. a = Towards(a, b, 0, 0)
    <3>1. /\ a[1] \in Int /\ a[2] \in Int /\ a = <<a[1], a[2]>>
          /\ 0 * G!Sign(a[1], b[1]) = 0 /\ 0 * G!Sign(a[2], b[2]) = 0
      BY Distances
    <3>2. a[1] + 0 = a[1] /\ a[2] + 0 = a[2]
      BY <3>1
    <3> QED
      BY <3>1, <3>2 DEF Towards
  <2>3. Near(a, b, 0, 0)
    BY <1>1 DEF Near
  <2>4. /\ start.at = a /\ start.points = {a}
        /\ Dx(a, b) > Dy(a, b) => /\ start.err \in 0..Dx(a, b) - 1
                                  /\ start.err = Dx(a, b) \div 2 + 0 * Dx(a, b) - 0 * Dy(a, b)
        /\ Dx(a, b) <= Dy(a, b) => /\ start.err \in -Dy(a, b) + 1..0
                                   /\ start.err = -(Dy(a, b) \div 2) + 0 * Dx(a, b) - 0 * Dy(a, b)
    BY <1>1, Half
  <2> HIDE DEF start
  <2>5. Trail(a, b, 0, 0, 0, start)
    <3>1. IsFiniteSet({a}) /\ Cardinality({a}) = 1
      BY FS_Singleton
    <3>2. 0 \in 0..0
      OBVIOUS
    <3> QED
      BY <2>2, <2>3, <2>4, <3>1, <3>2 DEF Trail
  <2>6. Walked(a, b, 0, start)
    BY <2>1, <2>2, <2>4, <2>5 DEF Walked
  <2> QED
    BY <1>3, <2>6
<1>5. \A i \in 0..long : Walked(a, b, i, w[i])
  <2> DEFINE good == {i \in 0..long : Walked(a, b, i, w[i])}
  <2>1. 0 \in good
    BY <1>4
  <2>2. ASSUME NEW i \in 0..long - 1, i \in good PROVE i + 1 \in good
    <3>1. i + 1 \in 1..n /\ i + 1 \in 0..long /\ i + 1 - 1 = i /\ i \in 0..n
      BY <1>2
    <3>2. w[i] \in Walkers /\ Walked(a, b, i, w[i]) /\ i \in 0..G!Most(Dx(a, b), Dy(a, b)) - 1
      BY <1>2, <2>2, <3>1
    <3>3. Walked(a, b, i + 1, G!WalkOn(a, b, w[i]))
      BY <3>2, WalkRound
    <3> QED
      BY <1>3, <3>1, <3>3
  <2> HIDE DEF good
  <2>3. \A i \in 0..long : i \in good
    BY <2>1, <2>2, UpTo
  <2> QED
    BY <2>3 DEF good
<1>6. w[long].at = b /\ \E x \in 0..Dx(a, b), y \in 0..Dy(a, b) : Trail(a, b, x, y, long, w[long])
  <2>1. long \in 0..long
    OBVIOUS
  <2>2. Walked(a, b, long, w[long])
    BY <1>5, <2>1
  <2>3. PICK x \in 0..Dx(a, b), y \in 0..Dy(a, b) :
          /\ w[long].at = Towards(a, b, x, y)
          /\ Dx(a, b) > Dy(a, b) => /\ x = long /\ w[long].err \in 0..Dx(a, b) - 1
                                    /\ w[long].err = Dx(a, b) \div 2 + y * Dx(a, b) - x * Dy(a, b)
          /\ Dx(a, b) <= Dy(a, b) => /\ y = long /\ w[long].err \in -Dy(a, b) + 1..0
                                     /\ w[long].err = -(Dy(a, b) \div 2) + y * Dx(a, b) - x * Dy(a, b)
          /\ Trail(a, b, x, y, long, w[long])
    BY <2>2, Zenon DEF Walked
  <2>4. CASE Dx(a, b) > Dy(a, b)
    <3>1. x = Dx(a, b) /\ Dx(a, b) \div 2 + y * Dx(a, b) - Dx(a, b) * Dy(a, b) \in 0..Dx(a, b) - 1
      BY <1>1, <1>2, <2>3, <2>4
    <3>2. y = Dy(a, b)
      BY <1>1, <2>4, <3>1, FlatEnd
    <3> QED
      BY <2>3, <3>1, <3>2, Distances
  <2>5. CASE Dx(a, b) <= Dy(a, b)
    <3>1. y = Dy(a, b) /\ -(Dy(a, b) \div 2) + Dy(a, b) * Dx(a, b) - x * Dy(a, b) \in -Dy(a, b) + 1..0
      BY <1>1, <1>2, <2>3, <2>5
    <3>2. x = Dx(a, b)
      BY <1>1, <2>5, <3>1, SteepEnd
    <3> QED
      BY <2>3, <3>1, <3>2, Distances
  <2> QED
    BY <1>1, <2>4, <2>5
<1>7. \A i \in 0..n - long : w[long + i] = w[long]
  <2> DEFINE good == {i \in 0..n - long : w[long + i] = w[long]}
  <2>1. 0 \in good
    BY <1>2
  <2>2. ASSUME NEW i \in 0..n - long - 1, i \in good PROVE i + 1 \in good
    <3>1. long + (i + 1) \in 1..n /\ i + 1 \in 0..n - long /\ long + (i + 1) - 1 = long + i
      BY <1>2
    <3>2. w[long + (i + 1)] = G!WalkOn(a, b, w[long])
      BY <1>3, <2>2, <3>1
    <3>3. G!WalkOn(a, b, w[long]) = w[long]
      BY <1>6 DEF G!WalkOn
    <3> QED
      BY <3>1, <3>2, <3>3
  <2> HIDE DEF good
  <2>3. n - long \in Nat
    BY <1>2
  <2>4. \A i \in 0..n - long : i \in good
    BY <2>1, <2>2, <2>3, UpTo
  <2> QED
    BY <2>4 DEF good
<1>8. w[n] = w[long] /\ w[n] \in Walkers
  <2>1. n - long \in 0..n - long /\ long + (n - long) = n /\ n \in 0..n
    BY <1>2
  <2> QED
    BY <1>7, <2>1
<1> QED
  BY <1>2, <1>3, <1>6, <1>8
-----------------------------------------------------------------------------
(* The size of the panel.                                                   *)
LEMMA DrawingConstants ==
  /\ SSD1306_WIDTH \in Nat /\ SSD1306_WIDTH > 0 /\ 2 * SSD1306_WIDTH <= G!Unsigned16
  /\ SSD1306_HEIGHT \in Nat /\ SSD1306_HEIGHT > 0 /\ SSD1306_HEIGHT < 255
  /\ FontWidth \in Nat /\ FontWidth > 0 /\ FontHeight \in Nat /\ FontHeight > 0
  /\ \A ch \in DOMAIN Font : Font[ch] \subseteq (0..FontWidth - 1) \X (0..FontHeight - 1)
  /\ Scales \subseteq Nat \ {0}
  /\ \A str \in Strings : str \in Seq(DOMAIN Font)
  /\ Corners \subseteq G!Screen
  /\ \A c \in Circles : c[3] \in Nat /\ c[1] \in c[3]..SSD1306_WIDTH - 1 /\ c[2] \in c[3]..SSD1306_HEIGHT - 1
<1>1. /\ SSD1306_WIDTH \in Nat /\ SSD1306_WIDTH > 0 /\ 4 * SSD1306_WIDTH <= G!Unsigned16
      /\ G!Unsigned16 \in Nat
  BY BoardAssumption DEF G!DrawingAssumption, G!Unsigned16
<1>2. 2 * SSD1306_WIDTH <= G!Unsigned16
  BY <1>1
<1> QED
  BY <1>1, <1>2, BoardAssumption DEF G!DrawingAssumption

(* Least and Most.                                                          *)
LEMMA Ordered ==
  ASSUME NEW a \in Int, NEW b \in Int
  PROVE  /\ G!Least(a, b) \in {a, b} /\ G!Least(a, b) <= a /\ G!Least(a, b) <= b
         /\ G!Most(a, b) \in {a, b} /\ a <= G!Most(a, b) /\ b <= G!Most(a, b)
BY DEF G!Least, G!Most

LEMMA Between ==
  ASSUME NEW n \in Int, NEW a \in 0..n, NEW b \in 0..n, NEW c \in Int, G!Least(a, b) <= c, c <= G!Most(a, b)
  PROVE  c \in 0..n
BY DEF G!Least, G!Most

(* An end that is cut lies on the panel.                                    *)
LEMMA ClipIn ==
  ASSUME NEW x \in Nat, NEW y \in Nat
  PROVE  /\ G!Clip(x, y) \in G!Screen /\ G!Clip(x, y) \in Pixels
         /\ G!Clip(x, y)[1] = G!Least(x, SSD1306_WIDTH - 1) /\ G!Clip(x, y)[1] \in 0..SSD1306_WIDTH - 1
         /\ G!Clip(x, y)[2] = G!Least(y, SSD1306_HEIGHT - 1) /\ G!Clip(x, y)[2] \in 0..SSD1306_HEIGHT - 1
         /\ x < SSD1306_WIDTH => G!Clip(x, y)[1] = x
         /\ y < SSD1306_HEIGHT => G!Clip(x, y)[2] = y
<1>1. G!Least(x, SSD1306_WIDTH - 1) \in 0..SSD1306_WIDTH - 1 /\ (x < SSD1306_WIDTH => G!Least(x, SSD1306_WIDTH - 1) = x)
  BY DrawingConstants DEF G!Least
<1>2. G!Least(y, SSD1306_HEIGHT - 1) \in 0..SSD1306_HEIGHT - 1 /\ (y < SSD1306_HEIGHT => G!Least(y, SSD1306_HEIGHT - 1) = y)
  BY DrawingConstants DEF G!Least
<1> QED
  BY <1>1, <1>2 DEF G!Clip, G!Screen, Pixels

(* A cross product does not depend on directions.                           *)
LEMMA CrossOf ==
  ASSUME NEW u \in Int, NEW v \in Int, NEW x \in Int, NEW y \in Int, NEW sx \in {1, -1}, NEW sy \in {1, -1}
  PROVE  \/ (u * sx) * (y * sy) - (v * sy) * (x * sx) = u * y - v * x
         \/ (u * sx) * (y * sy) - (v * sy) * (x * sx) = -(u * y - v * x)
<1>1. CASE sx = 1 /\ sy = 1
  BY <1>1
<1>2. CASE sx = 1 /\ sy = -1
  BY <1>2
<1>3. CASE sx = -1 /\ sy = 1
  BY <1>3
<1>4. CASE sx = -1 /\ sy = -1
  BY <1>4
<1> QED
  BY <1>1, <1>2, <1>3, <1>4

(* The instance counts as everybody does.                                   *)
LEMMA SameCardinality ==
  ASSUME NEW points
  PROVE  G!Cardinality(points) = Cardinality(points)
BY Zenon DEF G!Cardinality, Cardinality

(* The walk looks like a line.                                              *)
LEMMA WalkIsLine ==
  ASSUME NEW a \in Pixels, NEW b \in Pixels, Dx(a, b) > 0, Dy(a, b) > 0
  PROVE  G!IsLine(G!Walk(a, b).points, a, b)
<1> DEFINE points == G!Walk(a, b).points
           long == G!Most(Dx(a, b), Dy(a, b))
<1>1. PICK x \in 0..Dx(a, b), y \in 0..Dy(a, b) : Trail(a, b, x, y, long, G!Walk(a, b))
  BY WalkDone
<1>2. {a, b} \subseteq points /\ Cardinality(points) = long + 1
  BY <1>1, WalkDone DEF Trail
<1>3. ASSUME NEW p \in points
      PROVE  /\ G!Abs(2 * ((p[1] - a[1]) * (b[2] - a[2]) - (p[2] - a[2]) * (b[1] - a[1]))) <= long
             /\ G!Least(a[1], b[1]) <= p[1] /\ p[1] <= G!Most(a[1], b[1])
             /\ G!Least(a[2], b[2]) <= p[2] /\ p[2] <= G!Most(a[2], b[2])
  <2>1. PICK u \in 0..x, v \in 0..y : p = Towards(a, b, u, v) /\ Near(a, b, u, v)
    BY <1>1 DEF Trail
  <2>2. PICK dx \in Nat, dy \in Nat : dx = Dx(a, b) /\ dy = Dy(a, b)
    BY Distances
  <2>3. PICK sx \in {1, -1}, sy \in {1, -1} : sx = G!Sign(a[1], b[1]) /\ sy = G!Sign(a[2], b[2])
    BY Distances
  <2>4. u \in 0..dx /\ v \in 0..dy
    BY <2>2
  <2>5. p[1] = a[1] + u * sx /\ p[2] = a[2] + v * sy /\ b[1] = a[1] + dx * sx /\ b[2] = a[2] + dy * sy
        /\ a[1] \in Int /\ a[2] \in Int
    BY <2>1, <2>2, <2>3, Distances DEF Towards
  <2>6. 2 * (v * dx - u * dy) <= long /\ -(2 * (v * dx - u * dy)) <= long /\ long \in Nat
    BY <2>1, <2>2, Distances DEF Near
  <2>7. /\ p[1] - a[1] = u * sx /\ b[2] - a[2] = dy * sy /\ p[2] - a[2] = v * sy /\ b[1] - a[1] = dx * sx
        /\ u * sx \in Int /\ dy * sy \in Int /\ v * sy \in Int /\ dx * sx \in Int
    BY <2>3, <2>4, <2>5
  <2>8. PICK c \in Int : c = (u * sx) * (dy * sy) - (v * sy) * (dx * sx)
    BY <2>7
  <2>9. c = u * dy - v * dx \/ c = -(u * dy - v * dx)
    BY <2>4, <2>8, CrossOf
  <2>10. G!Abs(2 * c) <= long
    BY <2>4, <2>6, <2>9 DEF G!Abs
  <2>11. G!Least(a[1], b[1]) <= p[1] /\ p[1] <= G!Most(a[1], b[1])
    BY <2>3, <2>4, <2>5 DEF G!Least, G!Most
  <2>12. G!Least(a[2], b[2]) <= p[2] /\ p[2] <= G!Most(a[2], b[2])
    BY <2>3, <2>4, <2>5 DEF G!Least, G!Most
  <2> QED
    BY <2>7, <2>8, <2>10, <2>11, <2>12
<1> QED
  BY <1>2, <1>3, SameCardinality, Zenon DEF G!IsLine, Dx, Dy

(* As many points as there are columns, or rows.                            *)
LEMMA RowCounted ==
  ASSUME NEW l \in Int, NEW h \in Int, l <= h, NEW y
  PROVE  Cardinality((l..h) \X {y}) = h - l + 1
<1> DEFINE f == [x \in l..h |-> <<x, y>>]
<1>1. f \in Bijection(l..h, (l..h) \X {y})
  <2>1. f \in [l..h -> (l..h) \X {y}]
    OBVIOUS
  <2>2. ASSUME NEW x \in l..h, NEW u \in l..h, f[x] = f[u] PROVE x = u
    BY <2>2
  <2>3. ASSUME NEW p \in (l..h) \X {y} PROVE \E x \in l..h : f[x] = p
    OBVIOUS
  <2> HIDE DEF f
  <2> QED
    BY <2>1, <2>2, <2>3 DEF Bijection, Injection, Surjection, IsInjective
<1>2. IsFiniteSet(l..h) /\ Cardinality(l..h) = h - l + 1
  BY FS_Interval
<1> QED
  BY <1>1, <1>2, FS_Bijection DEF ExistsBijection

LEMMA ColumnCounted ==
  ASSUME NEW l \in Int, NEW h \in Int, l <= h, NEW x
  PROVE  Cardinality({x} \X (l..h)) = h - l + 1
<1> DEFINE f == [y \in l..h |-> <<x, y>>]
<1>1. f \in Bijection(l..h, {x} \X (l..h))
  <2>1. f \in [l..h -> {x} \X (l..h)]
    OBVIOUS
  <2>2. ASSUME NEW y \in l..h, NEW v \in l..h, f[y] = f[v] PROVE y = v
    BY <2>2
  <2>3. ASSUME NEW p \in {x} \X (l..h) PROVE \E y \in l..h : f[y] = p
    OBVIOUS
  <2> HIDE DEF f
  <2> QED
    BY <2>1, <2>2, <2>3 DEF Bijection, Injection, Surjection, IsInjective
<1>2. IsFiniteSet(l..h) /\ Cardinality(l..h) = h - l + 1
  BY FS_Interval
<1> QED
  BY <1>1, <1>2, FS_Bijection DEF ExistsBijection

(* A line along a row, or a column, looks like one.                         *)
LEMMA RowIsLine ==
  ASSUME NEW a \in Pixels, NEW b \in Pixels, a[2] = b[2]
  PROVE  G!IsLine((G!Least(a[1], b[1])..G!Most(a[1], b[1])) \X {a[2]}, a, b)
<1> DEFINE points == (G!Least(a[1], b[1])..G!Most(a[1], b[1])) \X {a[2]}
<1>1. /\ a[1] \in Int /\ a[2] \in Int /\ b[1] \in Int /\ b[2] \in Int /\ a = <<a[1], a[2]>> /\ b = <<b[1], b[2]>>
  BY Distances
<1>2. PICK l \in Int, h \in Int : l = G!Least(a[1], b[1]) /\ h = G!Most(a[1], b[1])
  BY <1>1, Ordered
<1>3. l <= h /\ a[1] \in l..h /\ b[1] \in l..h /\ h - l = G!Abs(b[1] - a[1])
  BY <1>1, <1>2 DEF G!Least, G!Most, G!Abs
<1>4. {a, b} \subseteq points
  BY <1>1, <1>2, <1>3
<1>5. G!Cardinality(points) = G!Most(G!Abs(b[1] - a[1]), G!Abs(b[2] - a[2])) + 1
  <2>1. Cardinality((l..h) \X {a[2]}) = h - l + 1
    BY <1>3, RowCounted
  <2>2. G!Most(G!Abs(b[1] - a[1]), G!Abs(b[2] - a[2])) = G!Abs(b[1] - a[1])
    BY <1>1 DEF G!Most, G!Abs
  <2> QED
    BY <1>2, <1>3, <2>1, <2>2, SameCardinality
<1>6. ASSUME NEW p \in points
      PROVE  /\ G!Abs(2 * ((p[1] - a[1]) * (b[2] - a[2]) - (p[2] - a[2]) * (b[1] - a[1])))
                  <= G!Most(G!Abs(b[1] - a[1]), G!Abs(b[2] - a[2]))
             /\ G!Least(a[1], b[1]) <= p[1] /\ p[1] <= G!Most(a[1], b[1])
             /\ G!Least(a[2], b[2]) <= p[2] /\ p[2] <= G!Most(a[2], b[2])
  <2>1. p[1] \in l..h /\ p[2] = a[2]
    BY <1>2
  <2>2. (p[1] - a[1]) * (b[2] - a[2]) = 0 /\ (p[2] - a[2]) * (b[1] - a[1]) = 0
    <3>1. b[2] - a[2] = 0 /\ p[2] - a[2] = 0 /\ p[1] - a[1] \in Int /\ b[1] - a[1] \in Int
      BY <1>1, <2>1
    <3> QED
      BY <3>1
  <2>3. G!Abs(2 * (0 - 0)) = 0 /\ 0 <= G!Most(G!Abs(b[1] - a[1]), G!Abs(b[2] - a[2]))
    BY <1>1 DEF G!Most, G!Abs
  <2>4. G!Least(a[2], b[2]) = a[2] /\ G!Most(a[2], b[2]) = a[2]
    BY <1>1 DEF G!Least, G!Most
  <2> QED
    BY <1>1, <1>2, <2>1, <2>2, <2>3, <2>4
<1> HIDE DEF points
<1>7. G!IsLine(points, a, b)
  BY <1>4, <1>5, <1>6, Zenon DEF G!IsLine
<1> QED
  BY <1>7 DEF points

LEMMA ColumnIsLine ==
  ASSUME NEW a \in Pixels, NEW b \in Pixels, a[1] = b[1]
  PROVE  G!IsLine({a[1]} \X (G!Least(a[2], b[2])..G!Most(a[2], b[2])), a, b)
<1> DEFINE points == {a[1]} \X (G!Least(a[2], b[2])..G!Most(a[2], b[2]))
<1>1. /\ a[1] \in Int /\ a[2] \in Int /\ b[1] \in Int /\ b[2] \in Int /\ a = <<a[1], a[2]>> /\ b = <<b[1], b[2]>>
  BY Distances
<1>2. PICK l \in Int, h \in Int : l = G!Least(a[2], b[2]) /\ h = G!Most(a[2], b[2])
  BY <1>1, Ordered
<1>3. l <= h /\ a[2] \in l..h /\ b[2] \in l..h /\ h - l = G!Abs(b[2] - a[2])
  BY <1>1, <1>2 DEF G!Least, G!Most, G!Abs
<1>4. {a, b} \subseteq points
  BY <1>1, <1>2, <1>3
<1>5. G!Cardinality(points) = G!Most(G!Abs(b[1] - a[1]), G!Abs(b[2] - a[2])) + 1
  <2>1. Cardinality({a[1]} \X (l..h)) = h - l + 1
    BY <1>3, ColumnCounted
  <2>2. G!Most(G!Abs(b[1] - a[1]), G!Abs(b[2] - a[2])) = G!Abs(b[2] - a[2])
    BY <1>1 DEF G!Most, G!Abs
  <2> QED
    BY <1>2, <1>3, <2>1, <2>2, SameCardinality
<1>6. ASSUME NEW p \in points
      PROVE  /\ G!Abs(2 * ((p[1] - a[1]) * (b[2] - a[2]) - (p[2] - a[2]) * (b[1] - a[1])))
                  <= G!Most(G!Abs(b[1] - a[1]), G!Abs(b[2] - a[2]))
             /\ G!Least(a[1], b[1]) <= p[1] /\ p[1] <= G!Most(a[1], b[1])
             /\ G!Least(a[2], b[2]) <= p[2] /\ p[2] <= G!Most(a[2], b[2])
  <2>1. p[2] \in l..h /\ p[1] = a[1]
    BY <1>2
  <2>2. (p[1] - a[1]) * (b[2] - a[2]) = 0 /\ (p[2] - a[2]) * (b[1] - a[1]) = 0
    <3>1. b[1] - a[1] = 0 /\ p[1] - a[1] = 0 /\ p[2] - a[2] \in Int /\ b[2] - a[2] \in Int
      BY <1>1, <2>1
    <3> QED
      BY <3>1
  <2>3. G!Abs(2 * (0 - 0)) = 0 /\ 0 <= G!Most(G!Abs(b[1] - a[1]), G!Abs(b[2] - a[2]))
    BY <1>1 DEF G!Most, G!Abs
  <2>4. G!Least(a[1], b[1]) = a[1] /\ G!Most(a[1], b[1]) = a[1]
    BY <1>1 DEF G!Least, G!Most
  <2> QED
    BY <1>1, <1>2, <2>1, <2>2, <2>3, <2>4
<1> HIDE DEF points
<1>7. G!IsLine(points, a, b)
  BY <1>4, <1>5, <1>6, Zenon DEF G!IsLine
<1> QED
  BY <1>7 DEF points

(* DrawLine: from each point to each, cut at the edge of the panel, it      *)
(* looks like a line, and it is on the panel.                               *)
LEMMA LineDrawn ==
  ASSUME NEW x0 \in Nat, NEW y0 \in Nat, NEW x1 \in Nat, NEW y1 \in Nat
  PROVE  /\ G!IsLine(G!DrawLine(x0, y0, x1, y1), G!Clip(x0, y0), G!Clip(x1, y1))
         /\ G!DrawLine(x0, y0, x1, y1) \subseteq G!Screen
<1> DEFINE a == G!Clip(x0, y0)
           b == G!Clip(x1, y1)
           points == G!DrawLine(x0, y0, x1, y1)
<1>1. /\ a \in Pixels /\ a[1] \in 0..SSD1306_WIDTH - 1 /\ a[2] \in 0..SSD1306_HEIGHT - 1
      /\ b \in Pixels /\ b[1] \in 0..SSD1306_WIDTH - 1 /\ b[2] \in 0..SSD1306_HEIGHT - 1
  BY ClipIn
<1> HIDE DEF a, b
<1>2. points = IF a[1] = b[1] THEN {a[1]} \X (G!Least(a[2], b[2])..G!Most(a[2], b[2]))
               ELSE IF a[2] = b[2] THEN (G!Least(a[1], b[1])..G!Most(a[1], b[1])) \X {a[2]}
               ELSE G!Walk(a, b).points
  BY Zenon DEF G!DrawLine, a, b
<1>3. CASE a[1] = b[1]
  <2>1. points \subseteq G!Screen
    <3>1. G!Least(a[2], b[2]) \in Int /\ G!Most(a[2], b[2]) \in Int
          /\ 0 <= G!Least(a[2], b[2]) /\ G!Most(a[2], b[2]) <= SSD1306_HEIGHT - 1
      BY <1>1, DrawingConstants DEF G!Least, G!Most
    <3>2. G!Least(a[2], b[2])..G!Most(a[2], b[2]) \subseteq 0..SSD1306_HEIGHT - 1
      BY <3>1, DrawingConstants
    <3> QED
      BY <1>1, <1>2, <1>3, <3>2 DEF G!Screen
  <2> QED
    BY <1>1, <1>2, <1>3, <2>1, ColumnIsLine DEF a, b
<1>4. CASE a[1] # b[1] /\ a[2] = b[2]
  <2>1. points \subseteq G!Screen
    <3>1. G!Least(a[1], b[1]) \in Int /\ G!Most(a[1], b[1]) \in Int
          /\ 0 <= G!Least(a[1], b[1]) /\ G!Most(a[1], b[1]) <= SSD1306_WIDTH - 1
      BY <1>1, DrawingConstants DEF G!Least, G!Most
    <3>2. G!Least(a[1], b[1])..G!Most(a[1], b[1]) \subseteq 0..SSD1306_WIDTH - 1
      BY <3>1, DrawingConstants
    <3> QED
      BY <1>1, <1>2, <1>4, <3>2 DEF G!Screen
  <2> QED
    BY <1>1, <1>2, <1>4, <2>1, RowIsLine DEF a, b
<1>5. CASE a[1] # b[1] /\ a[2] # b[2]
  <2>1. Dx(a, b) > 0 /\ Dy(a, b) > 0
    <3>1. Dx(a, b) \in Nat /\ Dy(a, b) \in Nat /\ Dx(a, b) # 0 /\ Dy(a, b) # 0
      BY <1>1, <1>5, Distances
    <3> QED
      BY <3>1
  <2>2. G!IsLine(points, a, b) /\ points = G!Walk(a, b).points
    BY <1>1, <1>2, <1>5, <2>1, WalkIsLine
  <2>3. points \subseteq Pixels
    BY <1>1, <2>1, <2>2, WalkDone DEF Walkers
  <2>4. points \subseteq G!Screen
    <3> SUFFICES ASSUME NEW p \in points PROVE p \in G!Screen
      OBVIOUS
    <3>1. /\ G!Least(a[1], b[1]) <= p[1] /\ p[1] <= G!Most(a[1], b[1])
          /\ G!Least(a[2], b[2]) <= p[2] /\ p[2] <= G!Most(a[2], b[2])
      BY <2>2, Zenon DEF G!IsLine
    <3>2. p = <<p[1], p[2]>> /\ p[1] \in Int /\ p[2] \in Int
      BY <2>3 DEF Pixels
    <3>3. p[1] \in 0..SSD1306_WIDTH - 1 /\ p[2] \in 0..SSD1306_HEIGHT - 1
      <4>1. SSD1306_WIDTH - 1 \in Int /\ SSD1306_HEIGHT - 1 \in Int
        BY DrawingConstants
      <4> QED
        BY <1>1, <3>1, <3>2, <4>1, Between
    <3> QED
      BY <3>2, <3>3 DEF G!Screen
  <2> QED
    BY <2>2, <2>4 DEF a, b
<1> QED
  BY <1>3, <1>4, <1>5
-----------------------------------------------------------------------------
(* Lines along a row and along a column.                                    *)
LEMMA RowDrawn ==
  ASSUME NEW x0 \in Nat, NEW x1 \in Nat, NEW y \in Nat, x0 <= x1
  PROVE  G!DrawLine(x0, y, x1, y)
           = {p \in G!Screen : /\ p[2] = G!Least(y, SSD1306_HEIGHT - 1)
                               /\ G!Least(x0, SSD1306_WIDTH - 1) <= p[1] /\ p[1] <= x1}
<1> DEFINE a == G!Clip(x0, y)
           b == G!Clip(x1, y)
           row == {p \in G!Screen : /\ p[2] = G!Least(y, SSD1306_HEIGHT - 1)
                                    /\ G!Least(x0, SSD1306_WIDTH - 1) <= p[1] /\ p[1] <= x1}
<1>1. /\ a[1] = G!Least(x0, SSD1306_WIDTH - 1) /\ a[1] \in 0..SSD1306_WIDTH - 1
      /\ b[1] = G!Least(x1, SSD1306_WIDTH - 1) /\ b[1] \in 0..SSD1306_WIDTH - 1
      /\ a[2] = G!Least(y, SSD1306_HEIGHT - 1) /\ a[2] \in 0..SSD1306_HEIGHT - 1 /\ b[2] = a[2]
  BY ClipIn
<1>2. /\ G!Least(a[1], b[1]) = a[1] /\ G!Most(a[1], b[1]) = b[1]
      /\ G!Least(a[2], b[2]) = a[2] /\ G!Most(a[2], b[2]) = a[2]
  BY <1>1, DrawingConstants DEF G!Least, G!Most
<1> HIDE DEF a, b
<1>3. G!DrawLine(x0, y, x1, y)
        = IF a[1] = b[1] THEN {a[1]} \X (G!Least(a[2], b[2])..G!Most(a[2], b[2]))
          ELSE IF a[2] = b[2] THEN (G!Least(a[1], b[1])..G!Most(a[1], b[1])) \X {a[2]}
          ELSE G!Walk(a, b).points
  BY Zenon DEF G!DrawLine, a, b
<1>4. G!DrawLine(x0, y, x1, y) = (a[1]..b[1]) \X {a[2]}
  <2>1. CASE a[1] = b[1]
    <3>1. a[2]..a[2] = {a[2]} /\ a[1]..b[1] = {a[1]}
      BY <1>1, <2>1
    <3> QED
      BY <1>2, <1>3, <2>1, <3>1
  <2>2. CASE a[1] # b[1]
    BY <1>1, <1>2, <1>3, <2>2
  <2> QED
    BY <2>1, <2>2
<1>5. ASSUME NEW p \in row PROVE p \in (a[1]..b[1]) \X {a[2]}
  <2>1. p = <<p[1], p[2]>> /\ p[1] \in 0..SSD1306_WIDTH - 1
    BY DEF G!Screen
  <2>2. p[1] <= b[1]
    BY <1>1, <2>1, DrawingConstants DEF G!Least
  <2>3. p[1] \in a[1]..b[1] /\ p[2] = a[2]
    BY <1>1, <2>1, <2>2
  <2> QED
    BY <2>1, <2>3
<1>6. ASSUME NEW p \in (a[1]..b[1]) \X {a[2]} PROVE p \in row
  <2>1. p = <<p[1], p[2]>> /\ p[1] \in a[1]..b[1] /\ p[2] = a[2]
    OBVIOUS
  <2>2. b[1] <= x1
    BY <1>1, DrawingConstants DEF G!Least
  <2>3. p[1] \in 0..SSD1306_WIDTH - 1 /\ p[1] <= x1
    BY <1>1, <2>1, <2>2, DrawingConstants
  <2> QED
    BY <1>1, <2>1, <2>3 DEF G!Screen
<1> HIDE DEF row
<1>7. (a[1]..b[1]) \X {a[2]} = row
  BY <1>5, <1>6
<1> QED
  BY <1>4, <1>7 DEF row

LEMMA ColumnDrawn ==
  ASSUME NEW y0 \in Nat, NEW y1 \in Nat, NEW x \in Nat, y0 <= y1
  PROVE  G!DrawLine(x, y0, x, y1)
           = {p \in G!Screen : /\ p[1] = G!Least(x, SSD1306_WIDTH - 1)
                               /\ G!Least(y0, SSD1306_HEIGHT - 1) <= p[2] /\ p[2] <= y1}
<1> DEFINE a == G!Clip(x, y0)
           b == G!Clip(x, y1)
           column == {p \in G!Screen : /\ p[1] = G!Least(x, SSD1306_WIDTH - 1)
                                       /\ G!Least(y0, SSD1306_HEIGHT - 1) <= p[2] /\ p[2] <= y1}
<1>1. /\ a[2] = G!Least(y0, SSD1306_HEIGHT - 1) /\ a[2] \in 0..SSD1306_HEIGHT - 1
      /\ b[2] = G!Least(y1, SSD1306_HEIGHT - 1) /\ b[2] \in 0..SSD1306_HEIGHT - 1
      /\ a[1] = G!Least(x, SSD1306_WIDTH - 1) /\ a[1] \in 0..SSD1306_WIDTH - 1 /\ b[1] = a[1]
  BY ClipIn
<1>2. G!Least(a[2], b[2]) = a[2] /\ G!Most(a[2], b[2]) = b[2]
  BY <1>1, DrawingConstants DEF G!Least, G!Most
<1> HIDE DEF a, b
<1>3. G!DrawLine(x, y0, x, y1)
        = IF a[1] = b[1] THEN {a[1]} \X (G!Least(a[2], b[2])..G!Most(a[2], b[2]))
          ELSE IF a[2] = b[2] THEN (G!Least(a[1], b[1])..G!Most(a[1], b[1])) \X {a[2]}
          ELSE G!Walk(a, b).points
  BY Zenon DEF G!DrawLine, a, b
<1>4. G!DrawLine(x, y0, x, y1) = {a[1]} \X (a[2]..b[2])
  BY <1>1, <1>2, <1>3
<1>5. ASSUME NEW p \in column PROVE p \in {a[1]} \X (a[2]..b[2])
  <2>1. p = <<p[1], p[2]>> /\ p[2] \in 0..SSD1306_HEIGHT - 1
    BY DEF G!Screen
  <2>2. p[2] <= b[2]
    BY <1>1, <2>1, DrawingConstants DEF G!Least
  <2>3. p[2] \in a[2]..b[2] /\ p[1] = a[1]
    BY <1>1, <2>1, <2>2
  <2> QED
    BY <2>1, <2>3
<1>6. ASSUME NEW p \in {a[1]} \X (a[2]..b[2]) PROVE p \in column
  <2>1. p = <<p[1], p[2]>> /\ p[2] \in a[2]..b[2] /\ p[1] = a[1]
    OBVIOUS
  <2>2. b[2] <= y1
    BY <1>1, DrawingConstants DEF G!Least
  <2>3. p[2] \in 0..SSD1306_HEIGHT - 1 /\ p[2] <= y1
    BY <1>1, <2>1, <2>2, DrawingConstants
  <2> QED
    BY <1>1, <2>1, <2>3 DEF G!Screen
<1> HIDE DEF column
<1>7. {a[1]} \X (a[2]..b[2]) = column
  BY <1>5, <1>6
<1> QED
  BY <1>4, <1>7 DEF column

(* The last column, or row, of a rectangle that is cut at the edge.         *)
LEMMA WithinEdge ==
  ASSUME NEW from \in Nat, NEW size \in Nat, NEW bound \in Nat, from < bound
  PROVE  /\ G!Within(from, size, bound) \in Nat
         /\ G!Least(from + G!Within(from, size, bound), bound - 1) = G!Least(from + size, bound - 1)
         /\ G!Least(from + size, bound - 1) \in from..bound - 1
         /\ \A c \in 0..bound - 1 : /\ c <= from + G!Within(from, size, bound) <=> c <= G!Least(from + size, bound - 1)
                                    /\ c <= from + size <=> c <= G!Least(from + size, bound - 1)
BY DEF G!Within, G!Least

(* A box that begins on the panel, along its width and along its height.    *)
LEMMA AcrossPanel ==
  ASSUME NEW x \in Nat, NEW size \in Nat, x < SSD1306_WIDTH
  PROVE  \E w \in Nat, r \in Int :
           /\ w = G!Within(x, size, SSD1306_WIDTH) /\ r = G!Least(x + size, SSD1306_WIDTH - 1)
           /\ x <= r /\ r < SSD1306_WIDTH /\ G!Least(x + w, SSD1306_WIDTH - 1) = r
           /\ \A c \in 0..SSD1306_WIDTH - 1 : (c <= x + w <=> c <= r) /\ (c <= x + size <=> c <= r)
<1>1. PICK bound \in Nat : bound = SSD1306_WIDTH
  BY DrawingConstants
<1>2. /\ G!Within(x, size, bound) \in Nat
      /\ G!Least(x + G!Within(x, size, bound), bound - 1) = G!Least(x + size, bound - 1)
      /\ G!Least(x + size, bound - 1) \in x..bound - 1
      /\ \A c \in 0..bound - 1 : /\ c <= x + G!Within(x, size, bound) <=> c <= G!Least(x + size, bound - 1)
                                 /\ c <= x + size <=> c <= G!Least(x + size, bound - 1)
  BY <1>1, WithinEdge
<1>3. PICK w \in Nat, r \in Int : w = G!Within(x, size, bound) /\ r = G!Least(x + size, bound - 1)
  BY <1>2
<1>4. /\ x <= r /\ r < bound /\ G!Least(x + w, bound - 1) = r
      /\ \A c \in 0..bound - 1 : (c <= x + w <=> c <= r) /\ (c <= x + size <=> c <= r)
  BY <1>2, <1>3
<1> QED
  BY <1>1, <1>3, <1>4, Zenon

LEMMA DownPanel ==
  ASSUME NEW y \in Nat, NEW size \in Nat, y < SSD1306_HEIGHT
  PROVE  \E h \in Nat, b \in Int :
           /\ h = G!Within(y, size, SSD1306_HEIGHT) /\ b = G!Least(y + size, SSD1306_HEIGHT - 1)
           /\ y <= b /\ b < SSD1306_HEIGHT /\ G!Least(y + h, SSD1306_HEIGHT - 1) = b
           /\ \A c \in 0..SSD1306_HEIGHT - 1 : (c <= y + h <=> c <= b) /\ (c <= y + size <=> c <= b)
<1>1. PICK bound \in Nat : bound = SSD1306_HEIGHT
  BY DrawingConstants
<1>2. /\ G!Within(y, size, bound) \in Nat
      /\ G!Least(y + G!Within(y, size, bound), bound - 1) = G!Least(y + size, bound - 1)
      /\ G!Least(y + size, bound - 1) \in y..bound - 1
      /\ \A c \in 0..bound - 1 : /\ c <= y + G!Within(y, size, bound) <=> c <= G!Least(y + size, bound - 1)
                                 /\ c <= y + size <=> c <= G!Least(y + size, bound - 1)
  BY <1>1, WithinEdge
<1>3. PICK h \in Nat, b \in Int : h = G!Within(y, size, bound) /\ b = G!Least(y + size, bound - 1)
  BY <1>2
<1>4. /\ y <= b /\ b < bound /\ G!Least(y + h, bound - 1) = b
      /\ \A c \in 0..bound - 1 : (c <= y + h <=> c <= b) /\ (c <= y + size <=> c <= b)
  BY <1>2, <1>3
<1> QED
  BY <1>1, <1>3, <1>4, Zenon

(* A box on the panel by its four edges.                                    *)
Framed(l, r, t, b) == {p \in G!Screen : l <= p[1] /\ p[1] <= r /\ t <= p[2] /\ p[2] <= b}

LEMMA BoxFramed ==
  ASSUME NEW x \in Nat, NEW y \in Nat, NEW w \in Nat, NEW h \in Nat, x < SSD1306_WIDTH, y < SSD1306_HEIGHT
  PROVE  G!Box(<<x, y>>, <<w, h>>)
           = Framed(x, G!Least(x + w, SSD1306_WIDTH - 1), y, G!Least(y + h, SSD1306_HEIGHT - 1))
<1>1. ASSUME NEW p \in G!Screen
      PROVE  /\ p[1] <= x + w <=> p[1] <= G!Least(x + w, SSD1306_WIDTH - 1)
             /\ p[2] <= y + h <=> p[2] <= G!Least(y + h, SSD1306_HEIGHT - 1)
  <2>1. p[1] \in 0..SSD1306_WIDTH - 1 /\ p[2] \in 0..SSD1306_HEIGHT - 1
    BY DEF G!Screen
  <2> QED
    BY <2>1, DrawingConstants DEF G!Least
<1> QED
  BY <1>1 DEF G!Box, Framed

(* What lies off the panel has no box.                                      *)
LEMMA BoxOff ==
  ASSUME NEW x \in Nat, NEW y \in Nat, NEW w \in Nat, NEW h \in Nat, x >= SSD1306_WIDTH \/ y >= SSD1306_HEIGHT
  PROVE  G!Box(<<x, y>>, <<w, h>>) = {}
<1> SUFFICES ASSUME NEW p \in G!Screen, x <= p[1], y <= p[2] PROVE FALSE
  BY DEF G!Box
<1>1. p[1] \in 0..SSD1306_WIDTH - 1 /\ p[2] \in 0..SSD1306_HEIGHT - 1
  BY DEF G!Screen
<1> QED
  BY <1>1, DrawingConstants

(* The border of a box: a neighbour lies outside.                           *)
LEMMA BorderIs ==
  ASSUME NEW l \in Int, NEW r \in Int, NEW t \in Int, NEW b \in Int,
         0 <= l, l <= r, r < SSD1306_WIDTH, 0 <= t, t <= b, b < SSD1306_HEIGHT, NEW p \in Framed(l, r, t, b)
  PROVE  (\E d \in {<<1, 0>>, <<-1, 0>>, <<0, 1>>, <<0, -1>>} : <<p[1] + d[1], p[2] + d[2]>> \notin Framed(l, r, t, b))
           <=> p[1] = l \/ p[1] = r \/ p[2] = t \/ p[2] = b
<1>1. p[1] \in l..r /\ p[2] \in t..b
  BY DEF Framed, G!Screen
<1>2. \A c \in Int, d \in Int : <<c, d>> \in Framed(l, r, t, b) <=> c \in l..r /\ d \in t..b
  BY DrawingConstants DEF Framed, G!Screen
<1>3. /\ <<p[1] + 1, p[2] + 0>> \in Framed(l, r, t, b) <=> p[1] # r
      /\ <<p[1] + (-1), p[2] + 0>> \in Framed(l, r, t, b) <=> p[1] # l
      /\ <<p[1] + 0, p[2] + 1>> \in Framed(l, r, t, b) <=> p[2] # b
      /\ <<p[1] + 0, p[2] + (-1)>> \in Framed(l, r, t, b) <=> p[2] # t
  <2>1. /\ p[1] + 1 \in Int /\ p[1] + 0 \in Int /\ p[1] + (-1) \in Int
        /\ p[2] + 1 \in Int /\ p[2] + 0 \in Int /\ p[2] + (-1) \in Int
    BY <1>1
  <2>2. /\ (p[1] + 1 \in l..r <=> p[1] # r) /\ (p[1] + (-1) \in l..r <=> p[1] # l) /\ p[1] + 0 \in l..r
        /\ (p[2] + 1 \in t..b <=> p[2] # b) /\ (p[2] + (-1) \in t..b <=> p[2] # t) /\ p[2] + 0 \in t..b
    BY <1>1
  <2> QED
    BY <1>2, <2>1, <2>2
<1> DEFINE Out(d) == <<p[1] + d[1], p[2] + d[2]>> \notin Framed(l, r, t, b)
<1>4. /\ Out(<<1, 0>>) <=> p[1] = r
      /\ Out(<<-1, 0>>) <=> p[1] = l
      /\ Out(<<0, 1>>) <=> p[2] = b
      /\ Out(<<0, -1>>) <=> p[2] = t
  BY <1>3
<1> HIDE DEF Out
<1>5. (\E d \in {<<1, 0>>, <<-1, 0>>, <<0, 1>>, <<0, -1>>} : Out(d))
        <=> Out(<<1, 0>>) \/ Out(<<-1, 0>>) \/ Out(<<0, 1>>) \/ Out(<<0, -1>>)
  BY Zenon
<1> QED
  BY <1>4, <1>5 DEF Out

(* DrawRectangle: what it draws is the border of the box, the part of which *)
(* that leaves the panel is cut.                                            *)
LEMMA RectangleDrawn ==
  ASSUME NEW x \in Nat, NEW y \in Nat, NEW w0 \in Nat, NEW h0 \in Nat
  PROVE  LET box == G!Box(<<x, y>>, <<w0, h0>>)
         IN  G!DrawRectangle(x, y, w0, h0)
               = {p \in box : \E d \in {<<1, 0>>, <<-1, 0>>, <<0, 1>>, <<0, -1>>} :
                                <<p[1] + d[1], p[2] + d[2]>> \notin box}
<1> DEFINE box == G!Box(<<x, y>>, <<w0, h0>>)
           border == {p \in box : \E d \in {<<1, 0>>, <<-1, 0>>, <<0, 1>>, <<0, -1>>} :
                                    <<p[1] + d[1], p[2] + d[2]>> \notin box}
<1>1. CASE x >= SSD1306_WIDTH \/ y >= SSD1306_HEIGHT
  <2>1. box = {} /\ G!DrawRectangle(x, y, w0, h0) = {}
    BY <1>1, BoxOff DEF G!DrawRectangle
  <2> QED
    BY <2>1
<1>2. CASE x < SSD1306_WIDTH /\ y < SSD1306_HEIGHT
  <2>1. PICK w \in Nat, r \in Int :
          /\ w = G!Within(x, w0, SSD1306_WIDTH) /\ r = G!Least(x + w0, SSD1306_WIDTH - 1)
          /\ x <= r /\ r < SSD1306_WIDTH /\ G!Least(x + w, SSD1306_WIDTH - 1) = r
          /\ \A c \in 0..SSD1306_WIDTH - 1 : (c <= x + w <=> c <= r) /\ (c <= x + w0 <=> c <= r)
    BY <1>2, AcrossPanel
  <2>2. PICK h \in Nat, b \in Int :
          /\ h = G!Within(y, h0, SSD1306_HEIGHT) /\ b = G!Least(y + h0, SSD1306_HEIGHT - 1)
          /\ y <= b /\ b < SSD1306_HEIGHT /\ G!Least(y + h, SSD1306_HEIGHT - 1) = b
          /\ \A c \in 0..SSD1306_HEIGHT - 1 : (c <= y + h <=> c <= b) /\ (c <= y + h0 <=> c <= b)
    BY <1>2, DownPanel
  <2>3. /\ x <= r /\ r < SSD1306_WIDTH /\ y <= b /\ b < SSD1306_HEIGHT
        /\ G!Least(x + w, SSD1306_WIDTH - 1) = r /\ G!Least(y + h, SSD1306_HEIGHT - 1) = b
        /\ \A c \in 0..SSD1306_WIDTH - 1 : c <= x + w <=> c <= r
        /\ \A c \in 0..SSD1306_HEIGHT - 1 : c <= y + h <=> c <= b
    BY <2>1, <2>2
  <2>4. box = Framed(x, r, y, b)
    BY <1>2, <2>1, <2>2, BoxFramed
  <2>5. G!DrawRectangle(x, y, w0, h0)
          = G!DrawLine(x, y, x + w, y) \cup G!DrawLine(x, y + h, x + w, y + h)
              \cup G!DrawLine(x, y, x, y + h) \cup G!DrawLine(x + w, y, x + w, y + h)
    <3>1. ~(x >= SSD1306_WIDTH \/ y >= SSD1306_HEIGHT)
      BY <1>2, DrawingConstants
    <3> QED
      BY <2>1, <2>2, <3>1 DEF G!DrawRectangle
  <2>6. /\ x + w \in Nat /\ y + h \in Nat /\ x <= x + w /\ y <= y + h
        /\ G!Least(x, SSD1306_WIDTH - 1) = x /\ G!Least(y, SSD1306_HEIGHT - 1) = y
    BY <1>2, DrawingConstants DEF G!Least
  <2>7. ASSUME NEW p \in G!Screen
        PROVE  /\ p \in G!DrawLine(x, y, x + w, y) <=> p[2] = y /\ x <= p[1] /\ p[1] <= r
               /\ p \in G!DrawLine(x, y + h, x + w, y + h) <=> p[2] = b /\ x <= p[1] /\ p[1] <= r
               /\ p \in G!DrawLine(x, y, x, y + h) <=> p[1] = x /\ y <= p[2] /\ p[2] <= b
               /\ p \in G!DrawLine(x + w, y, x + w, y + h) <=> p[1] = r /\ y <= p[2] /\ p[2] <= b
    <3>1. p[1] \in 0..SSD1306_WIDTH - 1 /\ p[2] \in 0..SSD1306_HEIGHT - 1
      BY DEF G!Screen
    <3>2. p \in G!DrawLine(x, y, x + w, y) <=> p[2] = y /\ x <= p[1] /\ p[1] <= x + w
      BY <2>6, RowDrawn
    <3>3. p \in G!DrawLine(x, y + h, x + w, y + h) <=> p[2] = b /\ x <= p[1] /\ p[1] <= x + w
      BY <2>3, <2>6, RowDrawn
    <3>4. p \in G!DrawLine(x, y, x, y + h) <=> p[1] = x /\ y <= p[2] /\ p[2] <= y + h
      BY <2>6, ColumnDrawn
    <3>5. p \in G!DrawLine(x + w, y, x + w, y + h) <=> p[1] = r /\ y <= p[2] /\ p[2] <= y + h
      BY <2>3, <2>6, ColumnDrawn
    <3> QED
      BY <2>3, <3>1, <3>2, <3>3, <3>4, <3>5
  <2>8. G!DrawRectangle(x, y, w0, h0) \subseteq G!Screen
    BY <2>5, <2>6, LineDrawn
  <2>9. ASSUME NEW p \in G!Screen
        PROVE  p \in G!DrawRectangle(x, y, w0, h0) <=> p \in Framed(x, r, y, b) /\ (p[1] = x \/ p[1] = r \/ p[2] = y \/ p[2] = b)
    <3>1. p[1] \in Int /\ p[2] \in Int
      BY DEF G!Screen
    <3> QED
      BY <2>3, <2>5, <2>7, <3>1 DEF Framed
  <2>10. ASSUME NEW p \in Framed(x, r, y, b)
         PROVE  (\E d \in {<<1, 0>>, <<-1, 0>>, <<0, 1>>, <<0, -1>>} : <<p[1] + d[1], p[2] + d[2]>> \notin Framed(x, r, y, b))
                  <=> p[1] = x \/ p[1] = r \/ p[2] = y \/ p[2] = b
    BY <2>3, BorderIs
  <2>11. Framed(x, r, y, b) \subseteq G!Screen
    BY DEF Framed
  <2>12. G!DrawRectangle(x, y, w0, h0)
           = {p \in Framed(x, r, y, b) : p[1] = x \/ p[1] = r \/ p[2] = y \/ p[2] = b}
    BY <2>8, <2>9, <2>11
  <2>13. {p \in Framed(x, r, y, b) : p[1] = x \/ p[1] = r \/ p[2] = y \/ p[2] = b}
           = {p \in Framed(x, r, y, b) : \E d \in {<<1, 0>>, <<-1, 0>>, <<0, 1>>, <<0, -1>>} :
                                           <<p[1] + d[1], p[2] + d[2]>> \notin Framed(x, r, y, b)}
    BY <2>10, Zenon
  <2> QED
    BY <2>4, <2>12, <2>13, Zenon
<1>3. (x >= SSD1306_WIDTH \/ y >= SSD1306_HEIGHT) \/ (x < SSD1306_WIDTH /\ y < SSD1306_HEIGHT)
  <2>1. SSD1306_WIDTH \in Nat /\ SSD1306_HEIGHT \in Nat
    BY DrawingConstants, Zenon
  <2> QED
    BY <2>1
<1> QED
  BY <1>1, <1>2, <1>3, Zenon

(* DrawFilledRectangle: what it draws is the box.                           *)
LEMMA FilledRectangleDrawn ==
  ASSUME NEW x \in Nat, NEW y \in Nat, NEW w0 \in Nat, NEW h0 \in Nat
  PROVE  G!DrawFilledRectangle(x, y, w0, h0) = G!Box(<<x, y>>, <<w0, h0>>)
<1>1. CASE x >= SSD1306_WIDTH \/ y >= SSD1306_HEIGHT
  BY <1>1, BoxOff DEF G!DrawFilledRectangle
<1>2. CASE x < SSD1306_WIDTH /\ y < SSD1306_HEIGHT
  <2>1. PICK w \in Nat, r \in Int :
          /\ w = G!Within(x, w0, SSD1306_WIDTH) /\ r = G!Least(x + w0, SSD1306_WIDTH - 1)
          /\ x <= r /\ r < SSD1306_WIDTH /\ G!Least(x + w, SSD1306_WIDTH - 1) = r
          /\ \A c \in 0..SSD1306_WIDTH - 1 : (c <= x + w <=> c <= r) /\ (c <= x + w0 <=> c <= r)
    BY <1>2, AcrossPanel
  <2>2. PICK h \in Nat, b \in Int :
          /\ h = G!Within(y, h0, SSD1306_HEIGHT) /\ b = G!Least(y + h0, SSD1306_HEIGHT - 1)
          /\ y <= b /\ b < SSD1306_HEIGHT /\ G!Least(y + h, SSD1306_HEIGHT - 1) = b
          /\ \A c \in 0..SSD1306_HEIGHT - 1 : (c <= y + h <=> c <= b) /\ (c <= y + h0 <=> c <= b)
    BY <1>2, DownPanel
  <2>3. /\ x <= r /\ r < SSD1306_WIDTH /\ y <= b /\ b < SSD1306_HEIGHT
        /\ G!Least(y + h, SSD1306_HEIGHT - 1) = b
        /\ \A c \in 0..SSD1306_WIDTH - 1 : c <= x + w <=> c <= r
        /\ \A c \in 0..SSD1306_HEIGHT - 1 : c <= y + h <=> c <= b
    BY <2>1, <2>2
  <2>4. G!Box(<<x, y>>, <<w0, h0>>) = Framed(x, r, y, b)
    BY <1>2, <2>1, <2>2, BoxFramed
  <2>5. G!DrawFilledRectangle(x, y, w0, h0) = UNION {G!DrawLine(x, y + i, x + w, y + i) : i \in 0..h}
    <3>1. ~(x >= SSD1306_WIDTH \/ y >= SSD1306_HEIGHT)
      BY <1>2, DrawingConstants
    <3> QED
      BY <2>1, <2>2, <3>1 DEF G!DrawFilledRectangle
  <2>6. G!Least(x, SSD1306_WIDTH - 1) = x /\ x + w \in Nat /\ x <= x + w
    BY <1>2, DrawingConstants DEF G!Least
  <2>7. ASSUME NEW i \in 0..h, NEW p
        PROVE  p \in G!DrawLine(x, y + i, x + w, y + i)
                 <=> p \in G!Screen /\ p[2] = G!Least(y + i, SSD1306_HEIGHT - 1) /\ x <= p[1] /\ p[1] <= x + w
    <3>1. y + i \in Nat
      OBVIOUS
    <3> QED
      BY <2>6, <3>1, RowDrawn
  <2>8. ASSUME NEW i \in 0..h, NEW p \in G!DrawLine(x, y + i, x + w, y + i) PROVE p \in Framed(x, r, y, b)
    <3>1. p \in G!Screen /\ p[2] = G!Least(y + i, SSD1306_HEIGHT - 1) /\ x <= p[1] /\ p[1] <= x + w
      BY <2>7, <2>8
    <3>2. p[1] \in 0..SSD1306_WIDTH - 1 /\ p[2] \in 0..SSD1306_HEIGHT - 1
      BY <3>1 DEF G!Screen
    <3>3. p[1] <= r
      BY <2>3, <3>1, <3>2
    <3>4. y <= p[2] /\ p[2] <= y + h
      BY <1>2, <3>1, DrawingConstants DEF G!Least
    <3>5. p[2] <= b
      BY <2>3, <3>2, <3>4
    <3> QED
      BY <3>1, <3>3, <3>4, <3>5 DEF Framed
  <2>9. ASSUME NEW p \in Framed(x, r, y, b) PROVE \E i \in 0..h : p \in G!DrawLine(x, y + i, x + w, y + i)
    <3>1. /\ p \in G!Screen /\ x <= p[1] /\ p[1] <= r /\ y <= p[2] /\ p[2] <= b
          /\ p[1] \in 0..SSD1306_WIDTH - 1 /\ p[2] \in 0..SSD1306_HEIGHT - 1
      BY DEF Framed, G!Screen
    <3>2. p[1] <= x + w /\ p[2] <= y + h
      BY <2>3, <3>1
    <3>3. p[2] - y \in 0..h /\ y + (p[2] - y) = p[2] /\ G!Least(p[2], SSD1306_HEIGHT - 1) = p[2]
      BY <3>1, <3>2, DrawingConstants DEF G!Least
    <3>4. p \in G!DrawLine(x, y + (p[2] - y), x + w, y + (p[2] - y))
      BY <2>7, <3>1, <3>2, <3>3
    <3> QED
      BY <3>3, <3>4
  <2>10. UNION {G!DrawLine(x, y + i, x + w, y + i) : i \in 0..h} = Framed(x, r, y, b)
    BY <2>8, <2>9
  <2> QED
    BY <2>4, <2>5, <2>10
<1> QED
  BY <1>1, <1>2, DrawingConstants
-----------------------------------------------------------------------------
(* A point within the hull of three, by column and by row.                  *)
Inside(p, q, r, z) ==
  \A i \in 1..2 : \E l, h \in {p, q, r} : l[i] <= z[i] /\ z[i] <= h[i]

(* A point of the panel.                                                    *)
LEMMA OfPanel ==
  ASSUME NEW p \in G!Screen
  PROVE  /\ p = <<p[1], p[2]>> /\ p \in Pixels /\ p[1] \in Nat /\ p[2] \in Nat
         /\ p[1] \in 0..SSD1306_WIDTH - 1 /\ p[2] \in 0..SSD1306_HEIGHT - 1
         /\ p[1] < SSD1306_WIDTH /\ p[2] < SSD1306_HEIGHT
         /\ G!Clip(p[1], p[2]) = p
<1>1. p = <<p[1], p[2]>> /\ p[1] \in 0..SSD1306_WIDTH - 1 /\ p[2] \in 0..SSD1306_HEIGHT - 1
  BY DEF G!Screen
<1>2. G!Least(p[1], SSD1306_WIDTH - 1) = p[1] /\ G!Least(p[2], SSD1306_HEIGHT - 1) = p[2]
  BY <1>1, DrawingConstants DEF G!Least
<1> QED
  BY <1>1, <1>2, DrawingConstants DEF Pixels, G!Clip

(* A line between two points of a hull stays in it.                         *)
LEMMA LineInside ==
  ASSUME NEW p \in G!Screen, NEW q \in G!Screen, NEW r \in G!Screen,
         NEW a \in G!Screen, NEW b \in G!Screen, Inside(p, q, r, a), Inside(p, q, r, b)
  PROVE  /\ {a, b} \subseteq G!DrawLine(a[1], a[2], b[1], b[2])
         /\ G!DrawLine(a[1], a[2], b[1], b[2]) \subseteq G!Screen
         /\ \A z \in G!DrawLine(a[1], a[2], b[1], b[2]) : Inside(p, q, r, z)
<1> DEFINE points == G!DrawLine(a[1], a[2], b[1], b[2])
<1>1. G!IsLine(points, a, b) /\ points \subseteq G!Screen
  <2>1. a[1] \in Nat /\ a[2] \in Nat /\ b[1] \in Nat /\ b[2] \in Nat /\ G!Clip(a[1], a[2]) = a /\ G!Clip(b[1], b[2]) = b
    BY OfPanel
  <2> QED
    BY <2>1, LineDrawn
<1> HIDE DEF points
<1>2. {a, b} \subseteq points
  BY <1>1, Zenon DEF G!IsLine
<1>3. ASSUME NEW z \in points, NEW i \in 1..2
      PROVE  \E l, h \in {p, q, r} : l[i] <= z[i] /\ z[i] <= h[i]
  <2>1. G!Least(a[i], b[i]) <= z[i] /\ z[i] <= G!Most(a[i], b[i])
    <3>1. /\ G!Least(a[1], b[1]) <= z[1] /\ z[1] <= G!Most(a[1], b[1])
          /\ G!Least(a[2], b[2]) <= z[2] /\ z[2] <= G!Most(a[2], b[2])
      BY <1>1, Zenon DEF G!IsLine
    <3> QED
      BY <3>1
  <2>2. a[i] \in Int /\ b[i] \in Int /\ z[i] \in Int /\ p[i] \in Int /\ q[i] \in Int /\ r[i] \in Int
    BY <1>1, OfPanel
  <2>3. PICK la \in {p, q, r}, ha \in {p, q, r} : la[i] <= a[i] /\ a[i] <= ha[i]
    BY DEF Inside
  <2>4. PICK lb \in {p, q, r}, hb \in {p, q, r} : lb[i] <= b[i] /\ b[i] <= hb[i]
    BY DEF Inside
  <2>5. la[i] \in Int /\ lb[i] \in Int /\ ha[i] \in Int /\ hb[i] \in Int
    BY <2>2
  <2>6. la[i] <= z[i] \/ lb[i] <= z[i]
    BY <2>1, <2>2, <2>3, <2>4, <2>5 DEF G!Least
  <2>7. z[i] <= ha[i] \/ z[i] <= hb[i]
    BY <2>1, <2>2, <2>3, <2>4, <2>5 DEF G!Most
  <2> QED
    BY <2>6, <2>7, Zenon
<1>4. \A z \in points : Inside(p, q, r, z)
  BY <1>3, Zenon DEF Inside
<1> QED
  BY <1>1, <1>2, <1>4 DEF points

LEMMA CornersInside ==
  ASSUME NEW p \in G!Screen, NEW q \in G!Screen, NEW r \in G!Screen
  PROVE  Inside(p, q, r, p) /\ Inside(p, q, r, q) /\ Inside(p, q, r, r)
<1>1. ASSUME NEW z \in {p, q, r}, NEW i \in 1..2 PROVE z[i] <= z[i]
  <2>1. z[i] \in Int
    BY OfPanel
  <2> QED
    BY <2>1
<1> QED
  BY <1>1, Zenon DEF Inside

(* How a triangle looks.                                                    *)
IsTriangle(points, p, q, r) ==
  points \subseteq G!Screen /\ {p, q, r} \subseteq points /\ \A z \in points : Inside(p, q, r, z)

(* DrawTriangle: the corners, and nothing outside their hull.               *)
LEMMA TriangleDrawn ==
  ASSUME NEW p \in G!Screen, NEW q \in G!Screen, NEW r \in G!Screen
  PROVE  IsTriangle(G!DrawTriangle(p, q, r), p, q, r)
<1>1. Inside(p, q, r, p) /\ Inside(p, q, r, q) /\ Inside(p, q, r, r)
  BY CornersInside
<1> DEFINE pq == G!DrawLine(p[1], p[2], q[1], q[2])
           qr == G!DrawLine(q[1], q[2], r[1], r[2])
           rp == G!DrawLine(r[1], r[2], p[1], p[2])
<1>2. {p, q} \subseteq pq /\ pq \subseteq G!Screen /\ \A z \in pq : Inside(p, q, r, z)
  BY <1>1, LineInside, Zenon
<1>3. {q, r} \subseteq qr /\ qr \subseteq G!Screen /\ \A z \in qr : Inside(p, q, r, z)
  BY <1>1, LineInside, Zenon
<1>4. {r, p} \subseteq rp /\ rp \subseteq G!Screen /\ \A z \in rp : Inside(p, q, r, z)
  BY <1>1, LineInside, Zenon
<1>5. G!DrawTriangle(p, q, r) = pq \cup qr \cup rp
  BY DEF G!DrawTriangle
<1> HIDE DEF pq, qr, rp
<1> QED
  BY <1>2, <1>3, <1>4, <1>5 DEF IsTriangle

(* A round of the side that a filled triangle goes along: the longer of its *)
(* distances goes on by one, the shorter when the fraction is full.         *)
LEMMA SideRound ==
  ASSUME NEW den \in Nat, NEW least \in 0..den, NEW i \in 0..den - 1, NEW c \in 0..least, NEW num \in 0..den - 1,
         num = den \div 2 + i * least - c * den,
         NEW toC \in Int, NEW toNum \in Int,
         toC = (IF num + least >= den THEN c + 1 ELSE c),
         toNum = num + least - (IF num + least >= den THEN den ELSE 0)
  PROVE  /\ toNum \in 0..den - 1 /\ toC \in 0..least
         /\ toNum = den \div 2 + (i + 1) * least - toC * den
<1>1. toNum \in 0..den - 1
  OBVIOUS
<1>2. (i + 1) * least = i * least + least /\ (c + 1) * den = c * den + den
  OBVIOUS
<1>3. toNum = den \div 2 + (i + 1) * least - toC * den
  <2>1. CASE num + least >= den
    <3>1. toC = c + 1 /\ toNum = num + least - den
      BY <2>1
    <3> QED
      BY <1>2, <3>1, Half
  <2>2. CASE ~(num + least >= den)
    <3>1. toC = c /\ toNum = num + least
      BY <2>2
    <3> QED
      BY <1>2, <3>1, Half
  <2> QED
    BY <2>1, <2>2
<1>4. toC \in 0..least
  <2>1. toC \in 0..least + 1
    OBVIOUS
  <2> SUFFICES ASSUME toC = least + 1 PROVE FALSE
    BY <2>1
  <2>2. (i + 1) * least <= den * least
    BY ProductsOrdered
  <2>3. (least + 1) * den = den * least + den
    OBVIOUS
  <2> QED
    BY <1>1, <1>3, <2>2, <2>3, Half
<1> QED
  BY <1>1, <1>3, <1>4

LEMMA SideEnd ==
  ASSUME NEW den \in Nat, NEW least \in 0..den, NEW c \in 0..least,
         den \div 2 + den * least - c * den \in 0..den - 1
  PROVE  c = least
<1> SUFFICES ASSUME c <= least - 1 PROVE FALSE
  OBVIOUS
<1>1. c * den <= (least - 1) * den
  BY ProductsOrdered
<1>2. (least - 1) * den = den * least - den
  OBVIOUS
<1> QED
  BY <1>1, <1>2, Half

(* What a loop makes is a run of its rounds.                                *)
LEMMA RunIs ==
  ASSUME NEW X, NEW n \in Nat, NEW F, F \in [1..n -> [X -> X]], NEW start, start \in X,
         NEW w, w = [i \in 0..n |-> w[i]], w[0] = start,
         \A i \in 1..n : w[i - 1] \in X => w[i] = F[i][w[i - 1]]
  PROVE  w \in [0..n -> X] /\ IsRun(w, F, start, n)
<1>1. \A i \in 0..n : w[i] \in X
  <2> DEFINE good == {i \in 0..n : w[i] \in X}
  <2>1. 0 \in good
    OBVIOUS
  <2>2. ASSUME NEW i \in 0..n - 1, i \in good PROVE i + 1 \in good
    <3>1. i + 1 \in 1..n /\ i + 1 \in 0..n /\ i + 1 - 1 = i
      OBVIOUS
    <3>2. PICK j \in 1..n : j = i + 1 /\ j - 1 = i
      BY <3>1
    <3>3. w[j - 1] \in X
      BY <2>2, <3>2
    <3>4. w[j] = F[j][w[j - 1]] /\ F[j] \in [X -> X]
      BY <3>3
    <3>5. w[i + 1] \in X
      BY <3>2, <3>3, <3>4
    <3> QED
      BY <3>1, <3>5
  <2> HIDE DEF good
  <2>3. \A i \in 0..n : i \in good
    BY <2>1, <2>2, UpTo
  <2> QED
    BY <2>3 DEF good
<1>2. w \in [0..n -> X]
  BY <1>1
<1>3. ASSUME NEW i \in 1..n PROVE w[i] = F[i][w[i - 1]]
  <2>1. i - 1 \in 0..n
    OBVIOUS
  <2> QED
    BY <1>1, <2>1
<1> QED
  BY <1>2, <1>3 DEF IsRun

(* Where the filling of a triangle may be.                                  *)
Fillers(r) ==
  [x : Int, y : Int, num : Int, points : SUBSET UNION {G!DrawLine(x, y, r[1], r[2]) : x \in Int, y \in Int}]
Least2(p, q) == G!Least(Dx(p, q), Dy(p, q))
Most2(p, q) == G!Most(Dx(p, q), Dy(p, q))

LEMMA FillTyped ==
  ASSUME NEW p \in Pixels, NEW q \in Pixels, NEW r \in Pixels, NEW s \in Fillers(r)
  PROVE  G!FillOn(p, q, r, s) \in Fillers(r)
<1> DEFINE U == UNION {G!DrawLine(x, y, r[1], r[2]) : x \in Int, y \in Int}
           carry == s.num + Least2(p, q) >= Most2(p, q)
           wide == Dx(p, q) >= Dy(p, q)
           x == s.x + (IF ~(wide \/ carry) THEN 0 ELSE IF q[1] >= p[1] THEN 1 ELSE -1)
           y == s.y + (IF ~(~wide \/ carry) THEN 0 ELSE IF q[2] >= p[2] THEN 1 ELSE -1)
           num == s.num + Least2(p, q) - (IF carry THEN Most2(p, q) ELSE 0)
           points == s.points \cup G!DrawLine(s.x, s.y, r[1], r[2])
<1>1. s.x \in Int /\ s.y \in Int /\ s.num \in Int /\ s.points \subseteq U
  BY DEF Fillers
<1>2. Least2(p, q) \in Int /\ Most2(p, q) \in Int
  <2>1. Dx(p, q) \in Nat /\ Dy(p, q) \in Nat
    BY Distances
  <2> QED
    BY <2>1 DEF Least2, Most2, G!Least, G!Most
<1>3. x \in Int /\ y \in Int /\ num \in Int
  BY <1>1, <1>2
<1>4. points \subseteq U
  <2>1. G!DrawLine(s.x, s.y, r[1], r[2]) \subseteq U
    BY <1>1
  <2> QED
    BY <1>1, <2>1
<1>5. G!FillOn(p, q, r, s) = [x |-> x, y |-> y, num |-> num, points |-> points]
  BY Zenon DEF G!FillOn, Least2, Most2, Dx, Dy
<1> HIDE DEF x, y, num, points
<1> QED
  BY <1>3, <1>4, <1>5 DEF Fillers

(* The filling is made of its rounds.                                       *)
LEMMA FillMade ==
  ASSUME NEW p \in Pixels, NEW q \in Pixels, NEW r \in Pixels
  PROVE  \E w \in [0..Most2(p, q) + 1 -> Fillers(r)] :
           /\ w[0] = [x |-> p[1], y |-> p[2], num |-> Most2(p, q) \div 2, points |-> {}]
           /\ \A i \in 1..Most2(p, q) + 1 : w[i] = G!FillOn(p, q, r, w[i - 1])
           /\ G!DrawFilledTriangle(p, q, r) = w[Most2(p, q) + 1].points
<1> DEFINE den == Most2(p, q)
           n == den + 1
           X == Fillers(r)
           start == [x |-> p[1], y |-> p[2], num |-> den \div 2, points |-> {}]
           F == [i \in 1..n |-> [s \in X |-> G!FillOn(p, q, r, s)]]
           IsMade(m) == m = [i \in 0..n |-> IF i = 0 THEN start ELSE G!FillOn(p, q, r, m[i - 1])]
<1>1. n \in Nat /\ den \in Nat
  BY Distances DEF Most2
<1>2. start \in X
  <2>1. p[1] \in Int /\ p[2] \in Int /\ den \div 2 \in Int
    BY <1>1, Distances, Half
  <2> QED
    BY <2>1 DEF Fillers
<1>3. ASSUME NEW s \in X PROVE G!FillOn(p, q, r, s) \in X
  BY FillTyped
<1> DEFINE w == CHOOSE made : IsMade(made)
<1>4. G!DrawFilledTriangle(p, q, r) = w[n].points
  BY Zenon DEF G!DrawFilledTriangle, G!Rounds, Dx, Dy, Most2
<1> HIDE DEF n, start, X
<1>5. F \in [1..n -> [X -> X]]
  BY <1>3
<1> HIDE DEF F
<1>6. PICK m \in [0..n -> X] : IsRun(m, F, start, n)
  BY <1>1, <1>2, <1>5, Made
<1>7. ASSUME NEW i \in 0..n PROVE m[i] = IF i = 0 THEN start ELSE G!FillOn(p, q, r, m[i - 1])
  <2> SUFFICES ASSUME i # 0 PROVE m[i] = G!FillOn(p, q, r, m[i - 1])
    BY <1>6 DEF IsRun
  <2>1. i \in 1..n /\ i - 1 \in 0..n
    BY <1>1
  <2>2. m[i - 1] \in X
    BY <2>1
  <2> QED
    BY <1>6, <2>1, <2>2 DEF F, IsRun
<1>8. IsMade(m)
  <2>1. m = [i \in 0..n |-> m[i]]
    OBVIOUS
  <2> QED
    BY <1>7, <2>1, Zenon
<1>9. IsMade(w)
  BY <1>8, Zenon
<1> HIDE DEF w
<1>10. /\ w = [i \in 0..n |-> w[i]]
       /\ \A i \in 0..n : w[i] = IF i = 0 THEN start ELSE G!FillOn(p, q, r, w[i - 1])
  <2> DEFINE e == [i \in 0..n |-> IF i = 0 THEN start ELSE G!FillOn(p, q, r, w[i - 1])]
  <2>1. w = e
    BY <1>9
  <2>2. e = [i \in 0..n |-> e[i]] /\ \A i \in 0..n : e[i] = IF i = 0 THEN start ELSE G!FillOn(p, q, r, w[i - 1])
    OBVIOUS
  <2> QED
    BY <2>1, <2>2
<1>11. w[0] = start /\ \A i \in 1..n : w[i] = G!FillOn(p, q, r, w[i - 1])
  <2>1. 0 \in 0..n /\ \A i \in 1..n : i \in 0..n /\ i # 0
    BY <1>1
  <2> QED
    BY <1>10, <2>1
<1>12. \A i \in 1..n : w[i - 1] \in X => w[i] = F[i][w[i - 1]]
  BY <1>11 DEF F
<1>13. w \in [0..n -> X]
  BY <1>1, <1>2, <1>5, <1>10, <1>11, <1>12, RunIs
<1> QED
  BY <1>4, <1>11, <1>13 DEF n, start, X

(* Where the side is after i rounds.                                        *)
SideAt(p, q, i, s) ==
  \E u \in 0..Dx(p, q), v \in 0..Dy(p, q) :
    /\ s.x = Towards(p, q, u, v)[1] /\ s.y = Towards(p, q, u, v)[2]
    /\ Most2(p, q) > 0 => s.num \in 0..Most2(p, q) - 1
    /\ Dx(p, q) >= Dy(p, q) => u = i /\ s.num = Dx(p, q) \div 2 + i * Dy(p, q) - v * Dx(p, q)
    /\ Dx(p, q) < Dy(p, q) => v = i /\ s.num = Dy(p, q) \div 2 + i * Dx(p, q) - u * Dy(p, q)

(* One step towards the end of a side.                                      *)
LEMMA OneStep ==
  ASSUME NEW a \in Int, NEW b \in Int, NEW n \in Nat, n < G!Abs(b - a)
  PROVE  a + n * G!Sign(a, b) + (IF b >= a THEN 1 ELSE -1) = a + (n + 1) * G!Sign(a, b)
<1>1. CASE a < b
  BY <1>1 DEF G!Sign
<1>2. CASE a > b
  BY <1>2 DEF G!Sign
<1>3. CASE a = b
  BY <1>3 DEF G!Abs
<1> QED
  BY <1>1, <1>2, <1>3

LEMMA FillStep ==
  ASSUME NEW p \in Pixels, NEW q \in Pixels, NEW r \in Pixels, NEW s \in Fillers(r),
         NEW i \in 0..Most2(p, q) - 1, SideAt(p, q, i, s)
  PROVE  SideAt(p, q, i + 1, G!FillOn(p, q, r, s))
<1>1. PICK dx \in Nat, dy \in Nat : dx = Dx(p, q) /\ dy = Dy(p, q)
  BY Distances
<1> DEFINE den == Most2(p, q)
           least == Least2(p, q)
           carry == s.num + least >= den
           t == G!FillOn(p, q, r, s)
<1>2. PICK u \in 0..dx, v \in 0..dy :
        /\ s.x = Towards(p, q, u, v)[1] /\ s.y = Towards(p, q, u, v)[2]
        /\ den > 0 => s.num \in 0..den - 1
        /\ dx >= dy => u = i /\ s.num = dx \div 2 + i * dy - v * dx
        /\ dx < dy => v = i /\ s.num = dy \div 2 + i * dx - u * dy
  BY <1>1, Zenon DEF SideAt
<1>3. p[1] \in Int /\ p[2] \in Int /\ q[1] \in Int /\ q[2] \in Int
  BY Distances
<1>4. s.x = p[1] + u * G!Sign(p[1], q[1]) /\ s.y = p[2] + v * G!Sign(p[2], q[2])
  BY <1>2 DEF Towards
<1>5. /\ t.x = s.x + (IF ~(dx >= dy \/ carry) THEN 0 ELSE IF q[1] >= p[1] THEN 1 ELSE -1)
      /\ t.y = s.y + (IF ~(~(dx >= dy) \/ carry) THEN 0 ELSE IF q[2] >= p[2] THEN 1 ELSE -1)
      /\ t.num = s.num + least - (IF carry THEN den ELSE 0)
  BY <1>1 DEF G!FillOn, Dx, Dy, Least2, Most2
<1>6. s.num \in Int
  BY DEF Fillers
<1> HIDE DEF t
<1>7. CASE dx >= dy
  <2>1. den = dx /\ least = dy /\ den > 0 /\ s.num \in 0..dx - 1 /\ u = i /\ i \in 0..dx - 1
        /\ s.num = dx \div 2 + i * dy - v * dx
    BY <1>1, <1>2, <1>7 DEF Most2, Least2, G!Most, G!Least
  <2> DEFINE toV == IF s.num + dy >= dx THEN v + 1 ELSE v
  <2>2. t.num = s.num + dy - (IF s.num + dy >= dx THEN dx ELSE 0)
    BY <1>5, <2>1
  <2>3. toV \in Int /\ t.num \in Int
    BY <1>6, <2>2
  <2>4. t.num \in 0..dx - 1 /\ toV \in 0..dy /\ t.num = dx \div 2 + (i + 1) * dy - toV * dx
    <3>1. dy \in 0..dx
      BY <1>7
    <3> HIDE DEF toV
    <3>2. toV = (IF s.num + dy >= dx THEN v + 1 ELSE v)
      BY DEF toV
    <3> QED
      BY <2>1, <2>2, <2>3, <3>1, <3>2, SideRound
  <2>5. t.x = p[1] + (i + 1) * G!Sign(p[1], q[1])
    <3>1. i \in Nat /\ i < G!Abs(q[1] - p[1])
      BY <1>1, <2>1 DEF Dx
    <3> QED
      BY <1>3, <1>4, <1>5, <1>7, <2>1, <3>1, OneStep
  <2>6. t.y = p[2] + toV * G!Sign(p[2], q[2])
    <3>1. CASE s.num + dy >= dx
      <4>1. toV = v + 1 /\ v \in Nat /\ v < G!Abs(q[2] - p[2])
        BY <1>1, <2>4, <3>1 DEF Dy
      <4> QED
        BY <1>3, <1>4, <1>5, <1>7, <2>1, <3>1, <4>1, OneStep
    <3>2. CASE ~(s.num + dy >= dx)
      <4>1. toV = v /\ t.y = s.y + 0
        BY <1>5, <1>7, <2>1, <3>2
      <4>2. PICK sy \in {1, -1} : sy = G!Sign(p[2], q[2])
        BY Distances
      <4> QED
        BY <1>3, <1>4, <4>1, <4>2
    <3> QED
      BY <3>1, <3>2
  <2>7. i + 1 \in 0..dx /\ ~(dx < dy) /\ t.num \in 0..den - 1
    BY <1>7, <2>1, <2>4
  <2> HIDE DEF toV
  <2>8. t.x = Towards(p, q, i + 1, toV)[1] /\ t.y = Towards(p, q, i + 1, toV)[2]
    BY <2>5, <2>6 DEF Towards
  <2>9. SideAt(p, q, i + 1, t)
    BY <1>1, <2>4, <2>7, <2>8, Zenon DEF SideAt
  <2> QED
    BY <2>9 DEF t
<1>8. CASE dx < dy
  <2>1. den = dy /\ least = dx /\ den > 0 /\ s.num \in 0..dy - 1 /\ v = i /\ i \in 0..dy - 1
        /\ s.num = dy \div 2 + i * dx - u * dy
    BY <1>1, <1>2, <1>8 DEF Most2, Least2, G!Most, G!Least
  <2> DEFINE toU == IF s.num + dx >= dy THEN u + 1 ELSE u
  <2>2. t.num = s.num + dx - (IF s.num + dx >= dy THEN dy ELSE 0)
    BY <1>5, <2>1
  <2>3. toU \in Int /\ t.num \in Int
    BY <1>6, <2>2
  <2>4. t.num \in 0..dy - 1 /\ toU \in 0..dx /\ t.num = dy \div 2 + (i + 1) * dx - toU * dy
    <3>1. dx \in 0..dy
      BY <1>8
    <3> HIDE DEF toU
    <3>2. toU = (IF s.num + dx >= dy THEN u + 1 ELSE u)
      BY DEF toU
    <3> QED
      BY <2>1, <2>2, <2>3, <3>1, <3>2, SideRound
  <2>5. t.y = p[2] + (i + 1) * G!Sign(p[2], q[2])
    <3>1. i \in Nat /\ i < G!Abs(q[2] - p[2])
      BY <1>1, <2>1 DEF Dy
    <3> QED
      BY <1>3, <1>4, <1>5, <1>8, <2>1, <3>1, OneStep
  <2>6. t.x = p[1] + toU * G!Sign(p[1], q[1])
    <3>1. CASE s.num + dx >= dy
      <4>1. toU = u + 1 /\ u \in Nat /\ u < G!Abs(q[1] - p[1])
        BY <1>1, <2>4, <3>1 DEF Dx
      <4> QED
        BY <1>3, <1>4, <1>5, <1>8, <2>1, <3>1, <4>1, OneStep
    <3>2. CASE ~(s.num + dx >= dy)
      <4>1. toU = u /\ t.x = s.x + 0
        BY <1>5, <1>8, <2>1, <3>2
      <4>2. PICK sx \in {1, -1} : sx = G!Sign(p[1], q[1])
        BY Distances
      <4> QED
        BY <1>3, <1>4, <4>1, <4>2
    <3> QED
      BY <3>1, <3>2
  <2>7. i + 1 \in 0..dy /\ ~(dx >= dy) /\ t.num \in 0..den - 1
    BY <1>8, <2>1, <2>4
  <2> HIDE DEF toU
  <2>8. t.x = Towards(p, q, toU, i + 1)[1] /\ t.y = Towards(p, q, toU, i + 1)[2]
    BY <2>5, <2>6 DEF Towards
  <2>9. SideAt(p, q, i + 1, t)
    BY <1>1, <2>4, <2>7, <2>8, Zenon DEF SideAt
  <2> QED
    BY <2>9 DEF t
<1> QED
  BY <1>7, <1>8

(* What is between two ends, along one axis.                                *)
LEMMA OnAxis ==
  ASSUME NEW n \in Nat, NEW a \in 0..n - 1, NEW b \in 0..n - 1, NEW d \in Nat, NEW s \in {1, -1}, b = a + d * s,
         NEW u \in 0..d
  PROVE  /\ a + u * s \in 0..n - 1
         /\ (a <= a + u * s /\ a + u * s <= b) \/ (b <= a + u * s /\ a + u * s <= a)
<1>1. CASE s = 1
  BY <1>1
<1>2. CASE s = -1
  BY <1>2
<1> QED
  BY <1>1, <1>2

(* The point that a side has come to lies between its ends.                 *)
LEMMA SideInside ==
  ASSUME NEW p \in G!Screen, NEW q \in G!Screen, NEW r \in G!Screen,
         NEW u \in 0..Dx(p, q), NEW v \in 0..Dy(p, q)
  PROVE  Towards(p, q, u, v) \in G!Screen /\ Inside(p, q, r, Towards(p, q, u, v))
<1>1. PICK dx \in Nat, dy \in Nat, sx \in {1, -1}, sy \in {1, -1} :
        /\ dx = Dx(p, q) /\ dy = Dy(p, q) /\ sx = G!Sign(p[1], q[1]) /\ sy = G!Sign(p[2], q[2])
        /\ q[1] = p[1] + dx * sx /\ q[2] = p[2] + dy * sy
  BY OfPanel, Distances
<1>2. /\ p[1] \in 0..SSD1306_WIDTH - 1 /\ p[2] \in 0..SSD1306_HEIGHT - 1
      /\ q[1] \in 0..SSD1306_WIDTH - 1 /\ q[2] \in 0..SSD1306_HEIGHT - 1
      /\ u \in 0..dx /\ v \in 0..dy /\ SSD1306_WIDTH \in Nat /\ SSD1306_HEIGHT \in Nat
  <2>1. SSD1306_WIDTH \in Nat /\ SSD1306_HEIGHT \in Nat
    BY DrawingConstants
  <2>2. u \in 0..dx /\ v \in 0..dy
    BY <1>1
  <2> QED
    BY <2>1, <2>2, OfPanel
<1> DEFINE z == Towards(p, q, u, v)
<1>3. z = <<p[1] + u * sx, p[2] + v * sy>>
  BY <1>1 DEF Towards
<1>4. /\ z[1] \in 0..SSD1306_WIDTH - 1
      /\ (p[1] <= z[1] /\ z[1] <= q[1]) \/ (q[1] <= z[1] /\ z[1] <= p[1])
  <2> DEFINE n == SSD1306_WIDTH
  <2>1. PICK a \in 0..n - 1, b \in 0..n - 1 : a = p[1] /\ b = q[1] /\ b = a + dx * sx
    BY <1>1, <1>2
  <2>2. /\ a + u * sx \in 0..n - 1
        /\ (a <= a + u * sx /\ a + u * sx <= b) \/ (b <= a + u * sx /\ a + u * sx <= a)
    BY <1>2, <2>1, OnAxis
  <2>3. z[1] = a + u * sx
    BY <1>3, <2>1
  <2> HIDE DEF z
  <2> QED
    BY <2>1, <2>2, <2>3, Zenon
<1>5. /\ z[2] \in 0..SSD1306_HEIGHT - 1
      /\ (p[2] <= z[2] /\ z[2] <= q[2]) \/ (q[2] <= z[2] /\ z[2] <= p[2])
  <2> DEFINE n == SSD1306_HEIGHT
  <2>1. PICK a \in 0..n - 1, b \in 0..n - 1 : a = p[2] /\ b = q[2] /\ b = a + dy * sy
    BY <1>1, <1>2
  <2>2. /\ a + v * sy \in 0..n - 1
        /\ (a <= a + v * sy /\ a + v * sy <= b) \/ (b <= a + v * sy /\ a + v * sy <= a)
    BY <1>2, <2>1, OnAxis
  <2>3. z[2] = a + v * sy
    BY <1>3, <2>1
  <2> HIDE DEF z
  <2> QED
    BY <2>1, <2>2, <2>3, Zenon
<1>6. z \in G!Screen
  BY <1>3, <1>4, <1>5 DEF G!Screen
<1> HIDE DEF z
<1>7. Inside(p, q, r, z)
  BY <1>4, <1>5 DEF Inside
<1> QED
  BY <1>6, <1>7 DEF z

(* DrawFilledTriangle: the corners, and nothing outside their hull.         *)
LEMMA FilledTriangleDrawn ==
  ASSUME NEW p \in G!Screen, NEW q \in G!Screen, NEW r \in G!Screen
  PROVE  IsTriangle(G!DrawFilledTriangle(p, q, r), p, q, r)
<1>1. p \in Pixels /\ q \in Pixels /\ r \in Pixels
  BY OfPanel
<1>2. PICK dx \in Nat, dy \in Nat, den \in Nat : dx = Dx(p, q) /\ dy = Dy(p, q) /\ den = Most2(p, q)
  BY <1>1, Distances DEF Most2
<1>3. PICK w \in [0..den + 1 -> Fillers(r)] :
        /\ w[0] = [x |-> p[1], y |-> p[2], num |-> den \div 2, points |-> {}]
        /\ \A i \in 1..den + 1 : w[i] = G!FillOn(p, q, r, w[i - 1])
        /\ G!DrawFilledTriangle(p, q, r) = w[den + 1].points
  <2>1. den = Most2(p, q) /\ Most2(p, q) \in Nat
    BY <1>2
  <2> QED
    BY <1>1, <2>1, FillMade
<1>4. ASSUME NEW i \in 0..den PROVE w[i + 1] = G!FillOn(p, q, r, w[i])
  <2>1. PICK j \in 1..den + 1 : j = i + 1 /\ j - 1 = i
    OBVIOUS
  <2> QED
    BY <1>3, <2>1
<1>5. \A i \in 0..den : SideAt(p, q, i, w[i])
  <2> DEFINE good == {i \in 0..den : SideAt(p, q, i, w[i])}
  <2>1. SideAt(p, q, 0, w[0])
    <3>1. 0 \in 0..dx /\ 0 \in 0..dy
      OBVIOUS
    <3>2. p[1] = Towards(p, q, 0, 0)[1] /\ p[2] = Towards(p, q, 0, 0)[2]
      <4>1. /\ p[1] \in Int /\ p[2] \in Int
            /\ 0 * G!Sign(p[1], q[1]) = 0 /\ 0 * G!Sign(p[2], q[2]) = 0
        <5>1. /\ p[1] \in Int /\ p[2] \in Int
              /\ G!Sign(p[1], q[1]) \in {1, -1} /\ G!Sign(p[2], q[2]) \in {1, -1}
          BY <1>1, Distances, Zenon
        <5> QED
          BY <5>1
      <4>2. p[1] + 0 = p[1] /\ p[2] + 0 = p[2]
        BY <4>1
      <4> QED
        BY <4>1, <4>2 DEF Towards
    <3>3. /\ den > 0 => den \div 2 \in 0..den - 1
          /\ dx >= dy => den \div 2 = dx \div 2 + 0 * dy - 0 * dx
          /\ dx < dy => den \div 2 = dy \div 2 + 0 * dx - 0 * dy
      <4>1. dx >= dy => den = dx
        BY <1>2 DEF Most2, G!Most
      <4>2. dx < dy => den = dy
        BY <1>2 DEF Most2, G!Most
      <4> QED
        BY <4>1, <4>2, Half
    <3>4. w[0].x = p[1] /\ w[0].y = p[2] /\ w[0].num = den \div 2
      BY <1>3
    <3> QED
      BY <1>2, <3>1, <3>2, <3>3, <3>4 DEF SideAt
  <2>2. 0 \in good
    BY <2>1
  <2>3. ASSUME NEW i \in 0..den - 1, i \in good PROVE i + 1 \in good
    <3>1. i \in 0..den /\ i + 1 \in 0..den /\ i \in 0..den + 1 /\ i \in 0..Most2(p, q) - 1
      BY <1>2
    <3>2. w[i] \in Fillers(r) /\ SideAt(p, q, i, w[i])
      BY <2>3, <3>1
    <3>3. SideAt(p, q, i + 1, G!FillOn(p, q, r, w[i]))
      BY <1>1, <3>1, <3>2, FillStep
    <3> QED
      BY <1>4, <3>1, <3>3
  <2> HIDE DEF good
  <2>4. \A i \in 0..den : i \in good
    BY <2>2, <2>3, UpTo
  <2> QED
    BY <2>4 DEF good
<1>6. ASSUME NEW i \in 0..den
      PROVE  /\ <<w[i].x, w[i].y>> \in G!Screen /\ Inside(p, q, r, <<w[i].x, w[i].y>>)
             /\ i = 0 => <<w[i].x, w[i].y>> = p
             /\ i = den => <<w[i].x, w[i].y>> = q
  <2>1. PICK u \in 0..dx, v \in 0..dy :
          /\ w[i].x = Towards(p, q, u, v)[1] /\ w[i].y = Towards(p, q, u, v)[2]
          /\ den > 0 => w[i].num \in 0..den - 1
          /\ dx >= dy => u = i /\ w[i].num = dx \div 2 + i * dy - v * dx
          /\ dx < dy => v = i /\ w[i].num = dy \div 2 + i * dx - u * dy
    BY <1>2, <1>5, Zenon DEF SideAt
  <2>2. <<w[i].x, w[i].y>> = Towards(p, q, u, v)
    BY <2>1 DEF Towards
  <2>3. Towards(p, q, u, v) \in G!Screen /\ Inside(p, q, r, Towards(p, q, u, v))
    BY <1>2, SideInside
  <2>4. i = 0 => <<w[i].x, w[i].y>> = p
    <3>1. w[0].x = p[1] /\ w[0].y = p[2]
      BY <1>3
    <3> QED
      BY <3>1, OfPanel
  <2>5. ASSUME i = den PROVE u = dx /\ v = dy
    <3>1. CASE dx >= dy
      <4>1. den = dx /\ u = dx
        BY <1>2, <2>1, <2>5, <3>1 DEF Most2, G!Most
      <4>2. CASE dx = 0
        BY <3>1, <4>1, <4>2
      <4>3. CASE dx > 0
        <5>1. dx \div 2 + dx * dy - v * dx \in 0..dx - 1 /\ dy \in 0..dx
          BY <2>1, <2>5, <3>1, <4>1, <4>3
        <5> QED
          BY <4>1, <5>1, SideEnd
      <4> QED
        BY <4>2, <4>3
    <3>2. CASE dx < dy
      <4>1. den = dy /\ v = dy /\ den > 0
        BY <1>2, <2>1, <2>5, <3>2 DEF Most2, G!Most
      <4>2. dy \div 2 + dy * dx - u * dy \in 0..dy - 1 /\ dx \in 0..dy
        BY <2>1, <2>5, <3>2, <4>1
      <4> QED
        BY <4>1, <4>2, SideEnd
    <3> QED
      BY <3>1, <3>2
  <2>6. i = den => <<w[i].x, w[i].y>> = q
    <3>1. q = Towards(p, q, dx, dy)
      BY <1>1, <1>2, Distances, Zenon
    <3> QED
      BY <2>2, <2>5, <3>1, Zenon
  <2> QED
    BY <2>2, <2>3, <2>4, <2>6, Zenon
<1> DEFINE Good(i) == /\ w[i].points \subseteq G!Screen
                      /\ \A z \in w[i].points : Inside(p, q, r, z)
                      /\ i > 0 => {p, r} \subseteq w[i].points
           Across(i) == G!DrawLine(w[i].x, w[i].y, r[1], r[2])
<1>7. ASSUME NEW i \in 0..den
      PROVE  /\ w[i + 1].points = w[i].points \cup Across(i)
             /\ {<<w[i].x, w[i].y>>, r} \subseteq Across(i) /\ Across(i) \subseteq G!Screen
             /\ \A z \in Across(i) : Inside(p, q, r, z)
  <2>1. w[i + 1].points = w[i].points \cup Across(i)
    <3>1. G!FillOn(p, q, r, w[i]).points = w[i].points \cup Across(i)
      BY DEF G!FillOn
    <3> QED
      BY <1>4, <3>1, Zenon
  <2>2. PICK a \in G!Screen : a = <<w[i].x, w[i].y>> /\ Inside(p, q, r, a) /\ a[1] = w[i].x /\ a[2] = w[i].y
    BY <1>6
  <2>3. Inside(p, q, r, r)
    BY CornersInside
  <2> QED
    BY <2>1, <2>2, <2>3, LineInside
<1>8. \A i \in 0..den + 1 : Good(i)
  <2> DEFINE good == {i \in 0..den + 1 : Good(i)}
  <2>1. 0 \in good
    BY <1>3
  <2>2. ASSUME NEW i \in 0..den + 1 - 1, i \in good PROVE i + 1 \in good
    <3>1. i \in 0..den /\ i + 1 \in 0..den + 1 /\ i \in Nat
      OBVIOUS
    <3>2. Good(i)
      BY <2>2
    <3>3. {p, r} \subseteq w[i + 1].points
      <4>1. CASE i = 0
        BY <1>6, <1>7, <3>1, <4>1
      <4>2. CASE i > 0
        BY <1>7, <3>1, <3>2, <4>2
      <4> QED
        BY <3>1, <4>1, <4>2
    <3>4. Good(i + 1)
      BY <1>7, <3>1, <3>2, <3>3
    <3> HIDE DEF Good
    <3> QED
      BY <3>1, <3>4
  <2> HIDE DEF good
  <2>3. \A i \in 0..den + 1 : i \in good
    BY <2>1, <2>2, UpTo
  <2> HIDE DEF Good
  <2> QED
    BY <2>3 DEF good
<1>9. Good(den + 1) /\ q \in w[den + 1].points
  <2>1. den \in 0..den /\ den + 1 \in 0..den + 1 /\ den + 1 > 0
    OBVIOUS
  <2>2. q \in w[den + 1].points
    BY <1>6, <1>7, <2>1
  <2> QED
    BY <1>8, <2>1, <2>2
<1>10. den + 1 > 0
  OBVIOUS
<1> QED
  BY <1>3, <1>9, <1>10 DEF IsTriangle
-----------------------------------------------------------------------------
(* Squares keep the order of what is squared.                               *)
LEMMA SquareWithin ==
  ASSUME NEW b \in Nat, NEW a \in -b..b
  PROVE  a * a \in Nat /\ a * a <= b * b
<1>1. CASE a >= 0
  <2>1. a \in Nat /\ a <= b
    BY <1>1
  <2>2. a * a <= b * a /\ a * b <= b * b /\ a * b = b * a /\ a * a \in Nat
    BY <2>1, ProductsOrdered
  <2>3. a * a \in Int /\ b * a \in Int /\ b * b \in Int
    BY <2>1
  <2> QED
    BY <2>2, <2>3
<1>2. CASE a < 0
  <2>1. PICK c \in Nat : c = -a /\ c <= b
    BY <1>2
  <2>2. c * c <= b * c /\ c * b <= b * b /\ c * b = b * c /\ c * c = a * a /\ c * c \in Nat
    BY <2>1, ProductsOrdered
  <2>3. c * c \in Int /\ b * c \in Int /\ b * b \in Int
    BY <2>1
  <2> QED
    BY <2>2, <2>3
<1> QED
  BY <1>1, <1>2

LEMMA SquareLess ==
  ASSUME NEW a \in Nat, NEW b \in Nat, a * a < b * b
  PROVE  a < b
<1> SUFFICES ASSUME b <= a PROVE FALSE
  OBVIOUS
<1>1. b \in -a..a
  OBVIOUS
<1>2. b * b <= a * a
  BY <1>1, SquareWithin
<1>3. a * a \in Int /\ b * b \in Int
  OBVIOUS
<1> QED
  BY <1>2, <1>3

(* How far a point is from a circle of radius r around the origin, and the  *)
(* points no further than the radius.                                       *)
OffBy(r, u, v) == u * u + v * v - r * r
OnRing(r, p) == p \in Nat \X Nat /\ -r <= OffBy(r, p[1], p[2]) /\ OffBy(r, p[1], p[2]) <= r

(* A round along the eighth of a circle: f decides whether y goes down.     *)
LEMMA RingRound ==
  ASSUME NEW r \in Nat, NEW x \in Nat, NEW y \in 0..r, x < y, NEW f \in Int,
         f = (x + 1) * (x + 1) + y * y - y - r * r,
         -r <= OffBy(r, x, y), OffBy(r, x, y) <= r,
         NEW toY \in Int, NEW toF \in Int,
         toY = (IF f >= 0 THEN y - 1 ELSE y),
         toF = (IF f >= 0 THEN f - 2 * toY ELSE f) + 1 + 2 * (x + 1)
  PROVE  /\ toY \in 0..r
         /\ toF = (x + 2) * (x + 2) + toY * toY - toY - r * r
         /\ -r <= OffBy(r, x + 1, toY) /\ OffBy(r, x + 1, toY) <= r
<1>1. toY \in 0..r
  OBVIOUS
<1>2. PICK x2 \in Int, y2 \in Int, r2 \in Int : x2 = x * x /\ y2 = y * y /\ r2 = r * r
  OBVIOUS
<1>3. /\ (x + 1) * (x + 1) = x2 + 2 * x + 1 /\ (x + 2) * (x + 2) = x2 + 4 * x + 4
      /\ (y - 1) * (y - 1) = y2 - 2 * y + 1
  BY <1>2
<1>4. f = x2 + 2 * x + 1 + y2 - y - r2 /\ OffBy(r, x, y) = x2 + y2 - r2
  BY <1>2, <1>3 DEF OffBy
<1>5. CASE f >= 0
  <2>1. toY = y - 1 /\ toF = f - 2 * (y - 1) + 1 + 2 * (x + 1) /\ toY * toY = y2 - 2 * y + 1
    BY <1>3, <1>5
  <2>2. OffBy(r, x + 1, toY) = x2 + 2 * x + 1 + (y2 - 2 * y + 1) - r2
    BY <1>2, <1>3, <2>1 DEF OffBy
  <2>3. toF = x2 + 4 * x + 4 + (y2 - 2 * y + 1) - toY - r2
    BY <1>4, <2>1
  <2> QED
    BY <1>1, <1>2, <1>3, <1>4, <1>5, <2>1, <2>2, <2>3
<1>6. CASE f < 0
  <2>1. toY = y /\ toF = f + 1 + 2 * (x + 1) /\ toY * toY = y2
    BY <1>2, <1>6
  <2>2. OffBy(r, x + 1, toY) = x2 + 2 * x + 1 + y2 - r2
    BY <1>2, <1>3, <2>1 DEF OffBy
  <2>3. toF = x2 + 4 * x + 4 + y2 - toY - r2
    BY <1>4, <2>1
  <2> QED
    BY <1>1, <1>2, <1>3, <1>4, <1>6, <2>1, <2>2, <2>3
<1> QED
  BY <1>5, <1>6

(* The eighth of a circle after i rounds: a point for each column so far,   *)
(* and for each row.                                                        *)
Turners == [x : Int, y : Int, f : Int, points : SUBSET Pixels]
Turned(r, i, s) ==
  /\ s.x \in Nat /\ s.y \in 0..r /\ (s.x >= s.y \/ s.x = i)
  /\ s.f = (s.x + 1) * (s.x + 1) + s.y * s.y - s.y - r * r
  /\ OnRing(r, <<s.x, s.y>>)
  /\ \A p \in s.points : OnRing(r, p)
  /\ \A w \in 0..s.x : \E p \in s.points : p[1] = w
  /\ \A w \in s.y..r : \E p \in s.points : p[2] = w

LEMMA TurnRound ==
  ASSUME NEW r \in Nat, NEW i \in Nat, NEW s \in Turners, Turned(r, i, s)
  PROVE  Turned(r, i + 1, G!TurnOn(s))
<1>1. CASE s.x >= s.y
  <2>1. G!TurnOn(s) = s
    BY <1>1 DEF G!TurnOn
  <2>2. Turned(r, i + 1, s)
    BY <1>1 DEF Turned
  <2> QED
    BY <2>1, <2>2
<1>2. CASE ~(s.x >= s.y)
  <2>1. PICK x \in Nat, y \in 0..r, f \in Int : x = s.x /\ y = s.y /\ f = s.f
    BY DEF Turned, Turners
  <2>2. x < y /\ x = i
    BY <1>2, <2>1 DEF Turned
  <2>3. PICK toY \in Int, toF \in Int :
          /\ toY = (IF f >= 0 THEN y - 1 ELSE y)
          /\ toF = (IF f >= 0 THEN f - 2 * toY ELSE f) + 1 + 2 * (x + 1)
    <3> DEFINE yy == IF f >= 0 THEN y - 1 ELSE y
               ff == (IF f >= 0 THEN f - 2 * yy ELSE f) + 1 + 2 * (x + 1)
    <3>1. yy \in Int /\ ff \in Int
      OBVIOUS
    <3> QED
      BY <3>1
  <2>4. /\ f = (x + 1) * (x + 1) + y * y - y - r * r
        /\ -r <= OffBy(r, x, y) /\ OffBy(r, x, y) <= r
    BY <2>1 DEF Turned, OnRing
  <2>5. /\ toY \in 0..r
        /\ toF = (x + 2) * (x + 2) + toY * toY - toY - r * r
        /\ -r <= OffBy(r, x + 1, toY) /\ OffBy(r, x + 1, toY) <= r
    BY <2>2, <2>3, <2>4, RingRound
  <2> DEFINE t == G!TurnOn(s)
  <2>6. t = [x |-> x + 1, y |-> toY, f |-> toF, points |-> s.points \cup {<<x + 1, toY>>}]
    <3>1. f + 1 + 2 * (x + 1) \in Int
      OBVIOUS
    <3> QED
      BY <1>2, <2>1, <2>3 DEF G!TurnOn
  <2>7. t.x = x + 1 /\ t.y = toY /\ t.f = toF /\ t.points = s.points \cup {<<x + 1, toY>>}
    BY <2>6
  <2> HIDE DEF t
  <2>8. OnRing(r, <<x + 1, toY>>)
    <3>1. <<x + 1, toY>> \in Nat \X Nat
      BY <2>5
    <3> QED
      BY <2>5, <3>1 DEF OnRing
  <2>9. \A p \in t.points : OnRing(r, p)
    BY <2>7, <2>8 DEF Turned
  <2>10. ASSUME NEW w \in 0..x + 1 PROVE \E p \in t.points : p[1] = w
    <3>1. CASE w = x + 1
      <4>1. <<x + 1, toY>> \in t.points /\ <<x + 1, toY>>[1] = w
        BY <2>7, <3>1
      <4> QED
        BY <4>1, Zenon
    <3>2. CASE w # x + 1
      <4>1. w \in 0..s.x
        BY <2>1, <3>2
      <4> QED
        BY <2>7, <4>1 DEF Turned
    <3> QED
      BY <3>1, <3>2
  <2>11. ASSUME NEW w \in toY..r PROVE \E p \in t.points : p[2] = w
    <3>1. CASE w = toY
      <4>1. <<x + 1, toY>> \in t.points /\ <<x + 1, toY>>[2] = w
        BY <2>7, <3>1
      <4> QED
        BY <4>1, Zenon
    <3>2. CASE w # toY
      <4>1. w \in s.y..r
        BY <2>1, <2>3, <3>2
      <4> QED
        BY <2>7, <4>1 DEF Turned
    <3> QED
      BY <3>1, <3>2
  <2>12. t.f = (t.x + 1) * (t.x + 1) + t.y * t.y - t.y - r * r
    <3>1. x + 1 + 1 = x + 2
      OBVIOUS
    <3> QED
      BY <2>5, <2>7, <3>1
  <2>13. Turned(r, i + 1, t)
    <3>1. x + 1 \in Nat /\ x + 1 = i + 1
      BY <2>2
    <3> QED
      BY <2>5, <2>7, <2>8, <2>9, <2>10, <2>11, <2>12, <3>1 DEF Turned
  <2> QED
    BY <2>13 DEF t
<1> QED
  BY <1>1, <1>2

LEMMA TurnTyped ==
  ASSUME NEW s \in Turners
  PROVE  G!TurnOn(s) \in Turners
<1>1. s.x \in Int /\ s.y \in Int /\ s.f \in Int /\ s.points \subseteq Pixels
  BY DEF Turners
<1> DEFINE y == IF s.f >= 0 THEN s.y - 1 ELSE s.y
           f == (IF s.f >= 0 THEN s.f - 2 * y ELSE s.f) + 1 + 2 * (s.x + 1)
<1>2. y \in Int /\ f \in Int /\ s.x + 1 \in Int
  BY <1>1
<1>3. G!TurnOn(s) = IF s.x >= s.y THEN s ELSE [x |-> s.x + 1, y |-> y, f |-> f, points |-> s.points \cup {<<s.x + 1, y>>}]
  BY DEF G!TurnOn
<1> HIDE DEF y, f
<1>4. s.points \cup {<<s.x + 1, y>>} \subseteq Pixels
  BY <1>1, <1>2 DEF Pixels
<1> QED
  BY <1>2, <1>3, <1>4 DEF Turners

(* The eighth of a circle: points near the ring, one for each column up to  *)
(* X and one for each row from Y on, where X has passed Y.                  *)
LEMMA EighthIs ==
  ASSUME NEW r \in Nat
  PROVE  \E x \in Nat, y \in 0..r :
           /\ x >= y
           /\ \A p \in G!Eighth(r) : OnRing(r, p)
           /\ \A w \in 0..x : \E p \in G!Eighth(r) : p[1] = w
           /\ \A w \in y..r : \E p \in G!Eighth(r) : p[2] = w
<1> DEFINE start == [x |-> 0, y |-> r, f |-> 1 - r, points |-> {<<0, r>>}]
           F == [i \in 1..r |-> [s \in Turners |-> G!TurnOn(s)]]
           IsMade(m) == m = [i \in 0..r |-> IF i = 0 THEN start ELSE G!TurnOn(m[i - 1])]
           w == CHOOSE made : IsMade(made)
<1>1. G!Eighth(r) = w[r].points
  BY Zenon DEF G!Eighth, G!Rounds
<1>2. start \in Turners
  <2>1. <<0, r>> \in Pixels /\ 1 - r \in Int
    BY DEF Pixels
  <2> QED
    BY <2>1 DEF Turners
<1>3. Turned(r, 0, start)
  <2>1. 0 * 0 = 0 /\ r * r \in Int /\ (0 + 1) * (0 + 1) = 1
    OBVIOUS
  <2>2. OnRing(r, <<0, r>>)
    BY <2>1 DEF OnRing, OffBy
  <2>3. start.f = (start.x + 1) * (start.x + 1) + start.y * start.y - start.y - r * r
    BY <2>1
  <2>4. ASSUME NEW v \in 0..0 PROVE <<0, r>> \in start.points /\ <<0, r>>[1] = v
    OBVIOUS
  <2>5. ASSUME NEW v \in r..r PROVE <<0, r>> \in start.points /\ <<0, r>>[2] = v
    OBVIOUS
  <2>6. start.x = 0 /\ start.y = r /\ start.points = {<<0, r>>}
    OBVIOUS
  <2> HIDE DEF start
  <2>7. 0 \in Nat /\ r \in 0..r
    OBVIOUS
  <2> QED
    BY <2>2, <2>3, <2>4, <2>5, <2>6, <2>7, Zenon DEF Turned
<1> HIDE DEF start
<1>4. F \in [1..r -> [Turners -> Turners]]
  BY TurnTyped
<1> HIDE DEF F
<1>5. PICK m \in [0..r -> Turners] : IsRun(m, F, start, r)
  BY <1>2, <1>4, Made
<1>6. ASSUME NEW i \in 0..r PROVE m[i] = IF i = 0 THEN start ELSE G!TurnOn(m[i - 1])
  <2> SUFFICES ASSUME i # 0 PROVE m[i] = G!TurnOn(m[i - 1])
    BY <1>5 DEF IsRun
  <2>1. i \in 1..r /\ i - 1 \in 0..r
    OBVIOUS
  <2>2. m[i - 1] \in Turners
    BY <2>1
  <2> QED
    BY <1>5, <2>1, <2>2 DEF F, IsRun
<1>7. IsMade(m)
  <2>1. m = [i \in 0..r |-> m[i]]
    OBVIOUS
  <2> QED
    BY <1>6, <2>1, Zenon
<1>8. IsMade(w)
  BY <1>7, Zenon
<1> HIDE DEF w
<1>9. /\ w = [i \in 0..r |-> w[i]]
      /\ \A i \in 0..r : w[i] = IF i = 0 THEN start ELSE G!TurnOn(w[i - 1])
  <2> DEFINE e == [i \in 0..r |-> IF i = 0 THEN start ELSE G!TurnOn(w[i - 1])]
  <2>1. w = e
    BY <1>8
  <2>2. e = [i \in 0..r |-> e[i]] /\ \A i \in 0..r : e[i] = IF i = 0 THEN start ELSE G!TurnOn(w[i - 1])
    OBVIOUS
  <2> QED
    BY <2>1, <2>2
<1>10. w[0] = start /\ \A i \in 1..r : w[i] = G!TurnOn(w[i - 1])
  <2>1. 0 \in 0..r /\ \A i \in 1..r : i \in 0..r /\ i # 0
    OBVIOUS
  <2> QED
    BY <1>9, <2>1
<1>11. \A i \in 1..r : w[i - 1] \in Turners => w[i] = F[i][w[i - 1]]
  BY <1>10 DEF F
<1>12. w \in [0..r -> Turners]
  BY <1>2, <1>4, <1>9, <1>10, <1>11, RunIs
<1>13. \A i \in 0..r : Turned(r, i, w[i])
  <2> DEFINE good == {i \in 0..r : Turned(r, i, w[i])}
  <2>1. 0 \in good
    BY <1>3, <1>10
  <2>2. ASSUME NEW i \in 0..r - 1, i \in good PROVE i + 1 \in good
    <3>1. PICK j \in 1..r : j = i + 1 /\ j - 1 = i /\ i \in 0..r /\ j \in 0..r
      OBVIOUS
    <3>2. w[i] \in Turners /\ Turned(r, i, w[i]) /\ w[j] = G!TurnOn(w[i])
      BY <1>10, <1>12, <2>2, <3>1
    <3>3. Turned(r, i + 1, G!TurnOn(w[i]))
      BY <3>2, TurnRound
    <3> QED
      BY <3>1, <3>2, <3>3
  <2> HIDE DEF good
  <2>3. \A i \in 0..r : i \in good
    BY <2>1, <2>2, UpTo
  <2> QED
    BY <2>3 DEF good
<1>14. PICK s \in Turners : s = w[r] /\ Turned(r, r, s)
  <2>1. r \in 0..r
    OBVIOUS
  <2> QED
    BY <1>12, <1>13, <2>1
<1>15. s.x >= s.y
  <2>1. s.x \in Nat /\ s.y \in 0..r /\ (s.x >= s.y \/ s.x = r)
    BY <1>14 DEF Turned
  <2> QED
    BY <2>1
<1>16. G!Eighth(r) = s.points
  BY <1>1, <1>14
<1>17. /\ s.x \in Nat /\ s.y \in 0..r
       /\ \A p \in s.points : OnRing(r, p)
       /\ \A v \in 0..s.x : \E p \in s.points : p[1] = v
       /\ \A v \in s.y..r : \E p \in s.points : p[2] = v
  BY <1>14, Zenon DEF Turned
<1>18. PICK x \in Nat, y \in 0..r : x = s.x /\ y = s.y
  BY <1>17
<1>19. /\ x >= y
       /\ \A p \in G!Eighth(r) : OnRing(r, p)
       /\ \A v \in 0..x : \E p \in G!Eighth(r) : p[1] = v
       /\ \A v \in y..r : \E p \in G!Eighth(r) : p[2] = v
  BY <1>15, <1>16, <1>17, <1>18
<1> QED
  BY <1>19, Zenon
-----------------------------------------------------------------------------
(* How a circle looks, filled or not.                                       *)
IsCircle(points, x0, y0, r, filled) ==
  /\ points \subseteq G!Screen
  /\ \A p \in G!Screen :
       LET d == (p[1] - x0) * (p[1] - x0) + (p[2] - y0) * (p[2] - y0) - r * r
       IN  IF G!Abs(d) > r THEN (p \in points) = (filled /\ d < 0) ELSE TRUE

(* DrawCircle: only points near the ring.                                   *)
LEMMA CircleDrawn ==
  ASSUME NEW x0 \in Nat, NEW y0 \in Nat, NEW r \in Nat
  PROVE  IsCircle(G!DrawCircle(x0, y0, r), x0, y0, r, FALSE)
<1> DEFINE ring == G!Mirrored(x0, y0, G!Eighth(r))
<1>1. ASSUME NEW p \in ring
      PROVE  LET d == (p[1] - x0) * (p[1] - x0) + (p[2] - y0) * (p[2] - y0) - r * r
             IN  d \in Int /\ G!Abs(d) <= r
  <2>1. PICK sx \in {-1, 1}, sy \in {-1, 1}, q \in G!Eighth(r) :
          p \in {<<x0 + sx * q[1], y0 + sy * q[2]>>, <<x0 + sx * q[2], y0 + sy * q[1]>>}
    BY DEF G!Mirrored
  <2>2. OnRing(r, q)
    BY EighthIs
  <2>3. PICK u \in Nat, v \in Nat : u = q[1] /\ v = q[2]
    BY <2>2 DEF OnRing
  <2>4. -r <= OffBy(r, u, v) /\ OffBy(r, u, v) <= r
    BY <2>2, <2>3 DEF OnRing
  <2>5. /\ (sx * u) * (sx * u) = u * u /\ (sy * v) * (sy * v) = v * v
        /\ (sx * v) * (sx * v) = v * v /\ (sy * u) * (sy * u) = u * u
        /\ sx * u \in Int /\ sy * v \in Int /\ sx * v \in Int /\ sy * u \in Int
        /\ u * u \in Int /\ v * v \in Int /\ r * r \in Int
    OBVIOUS
  <2>6. CASE p = <<x0 + sx * u, y0 + sy * v>>
    <3>1. p[1] - x0 = sx * u /\ p[2] - y0 = sy * v
      BY <2>5, <2>6
    <3>2. (p[1] - x0) * (p[1] - x0) = u * u /\ (p[2] - y0) * (p[2] - y0) = v * v
      BY <2>5, <3>1
    <3> QED
      BY <2>4, <2>5, <3>2 DEF OffBy, G!Abs
  <2>7. CASE p = <<x0 + sx * v, y0 + sy * u>>
    <3>1. p[1] - x0 = sx * v /\ p[2] - y0 = sy * u
      BY <2>5, <2>7
    <3>2. (p[1] - x0) * (p[1] - x0) = v * v /\ (p[2] - y0) * (p[2] - y0) = u * u
      BY <2>5, <3>1
    <3> QED
      BY <2>4, <2>5, <3>2 DEF OffBy, G!Abs
  <2> QED
    BY <2>1, <2>3, <2>6, <2>7
<1>2. G!DrawCircle(x0, y0, r) = ring \cap G!Screen
  BY DEF G!DrawCircle, G!DrawPixels
<1> HIDE DEF ring
<1>3. ASSUME NEW p \in G!Screen,
             NEW d, d = (p[1] - x0) * (p[1] - x0) + (p[2] - y0) * (p[2] - y0) - r * r, G!Abs(d) > r
      PROVE  p \notin ring
  <2> SUFFICES ASSUME p \in ring PROVE FALSE
    OBVIOUS
  <2>1. d \in Int /\ G!Abs(d) <= r
    BY <1>1, <1>3
  <2> QED
    BY <1>3, <2>1 DEF G!Abs
<1> QED
  BY <1>2, <1>3 DEF IsCircle

(* The size of the panel, and a coordinate of 16 bits.                      *)
LEMMA PanelSize ==
  /\ SSD1306_WIDTH \in Nat /\ SSD1306_HEIGHT \in Nat /\ G!Unsigned16 \in Nat
  /\ 2 * SSD1306_WIDTH <= G!Unsigned16 /\ SSD1306_WIDTH + SSD1306_HEIGHT <= G!Unsigned16
<1>1. G!Unsigned16 \in Nat /\ G!Unsigned16 > 510
  BY DEF G!Unsigned16
<1> QED
  BY <1>1, DrawingConstants

LEMMA In16Bits ==
  ASSUME NEW a \in Nat, a < G!Unsigned16
  PROVE  G!U16(a) = a
BY PanelSize DEF G!U16

(* A row of a filled circle, its end left of the panel as in the code.      *)
AcrossOf(x0, y, half) == G!DrawLine(G!U16(x0 - half), G!U16(y), x0 + half, G!U16(y))

LEMMA AcrossIs ==
  ASSUME NEW x0 \in 0..SSD1306_WIDTH - 1, NEW half \in 0..x0, NEW y \in Nat, y < G!Unsigned16
  PROVE  AcrossOf(x0, y, half)
           = {p \in G!Screen : /\ p[2] = G!Least(y, SSD1306_HEIGHT - 1)
                               /\ x0 - half <= p[1] /\ p[1] <= x0 + half}
<1>1. SSD1306_WIDTH \in Nat /\ 2 * SSD1306_WIDTH <= G!Unsigned16 /\ G!Unsigned16 \in Nat
  BY PanelSize
<1>2. PICK l \in Nat, h \in Nat : l = x0 - half /\ h = x0 + half /\ l <= h /\ l < G!Unsigned16 /\ l <= SSD1306_WIDTH - 1
  <2>1. x0 - half \in Nat /\ x0 + half \in Nat
    BY <1>1
  <2> QED
    BY <1>1, <2>1
<1>3. G!U16(l) = l /\ G!U16(y) = y
  BY <1>2, In16Bits
<1>4. AcrossOf(x0, y, half) = G!DrawLine(l, y, h, y)
  BY <1>2, <1>3 DEF AcrossOf
<1>5. G!Least(l, SSD1306_WIDTH - 1) = l
  BY <1>2 DEF G!Least
<1>7. G!DrawLine(l, y, h, y)
        = {p \in G!Screen : /\ p[2] = G!Least(y, SSD1306_HEIGHT - 1)
                            /\ G!Least(l, SSD1306_WIDTH - 1) <= p[1] /\ p[1] <= h}
  BY <1>2, RowDrawn
<1>8. AcrossOf(x0, y, half)
        = {p \in G!Screen : p[2] = G!Least(y, SSD1306_HEIGHT - 1) /\ l <= p[1] /\ p[1] <= h}
  BY <1>4, <1>5, <1>7, Zenon
<1> QED
  BY <1>2, <1>8, Zenon

(* A point near the ring is no further away than the radius in a column or  *)
(* in a row.                                                                *)
LEMMA RingWithin ==
  ASSUME NEW r \in Nat, NEW u \in Nat, NEW v \in Nat, OffBy(r, u, v) <= r
  PROVE  u <= r /\ v <= r
<1>1. u * u \in Nat /\ v * v \in Nat /\ r * r \in Nat
  OBVIOUS
<1>2. (r + 1) * (r + 1) = r * r + 2 * r + 1
  OBVIOUS
<1>3. u * u < (r + 1) * (r + 1) /\ v * v < (r + 1) * (r + 1)
  BY <1>1, <1>2 DEF OffBy
<1>4. u < r + 1 /\ v < r + 1
  <2>1. r + 1 \in Nat
    OBVIOUS
  <2> QED
    BY <1>3, <2>1, SquareLess
<1> QED
  BY <1>4

(* DrawFilledCircle by its parts.                                           *)
LEMMA FilledCircleIs ==
  ASSUME NEW x0, NEW y0, NEW r
  PROVE  G!DrawFilledCircle(x0, y0, r)
           = G!DrawPixels({<<x0, y0 + r>>, <<x0, y0 - r>>, <<x0 + r, y0>>, <<x0 - r, y0>>})
               \cup AcrossOf(x0, y0, r)
               \cup UNION {AcrossOf(x0, y0 + p[2], p[1]) \cup AcrossOf(x0, y0 - p[2], p[1])
                             \cup AcrossOf(x0, y0 + p[1], p[2]) \cup AcrossOf(x0, y0 - p[1], p[2]) :
                           p \in G!Eighth(r) \ {<<0, r>>}}
BY DEF G!DrawFilledCircle, AcrossOf

(* No row of a filled circle leaves the ring, also where it is cut.         *)
LEMMA RowInRing ==
  ASSUME NEW x0 \in 0..SSD1306_WIDTH - 1, NEW y0 \in 0..SSD1306_HEIGHT - 1, NEW r \in 0..x0, r <= y0,
         NEW u \in Nat, NEW v \in Nat, OffBy(r, u, v) <= r,
         NEW y \in {y0 + v, y0 - v}, NEW p \in AcrossOf(x0, y, u)
  PROVE  p \in G!Screen /\ OffBy(r, p[1] - x0, p[2] - y0) <= r
<1>1. /\ u <= r /\ v <= r /\ r \in Nat /\ x0 \in Nat /\ y0 \in Nat
      /\ SSD1306_HEIGHT \in Nat /\ SSD1306_WIDTH \in Nat
      /\ G!Unsigned16 \in Nat /\ SSD1306_WIDTH + SSD1306_HEIGHT <= G!Unsigned16
  <2>1. /\ SSD1306_HEIGHT \in Nat /\ SSD1306_WIDTH \in Nat
        /\ G!Unsigned16 \in Nat /\ SSD1306_WIDTH + SSD1306_HEIGHT <= G!Unsigned16
    BY PanelSize
  <2>2. r \in Nat /\ x0 \in Nat /\ y0 \in Nat
    BY <2>1
  <2> QED
    BY <2>1, <2>2, RingWithin
<1>2. y \in Nat /\ y < G!Unsigned16 /\ u \in 0..x0
  <2>1. CASE y = y0 + v
    BY <1>1, <2>1
  <2>2. CASE y = y0 - v
    BY <1>1, <2>2
  <2> QED
    BY <2>1, <2>2
<1>3. /\ p \in G!Screen /\ p[2] = G!Least(y, SSD1306_HEIGHT - 1)
      /\ x0 - u <= p[1] /\ p[1] <= x0 + u
  BY <1>2, AcrossIs
<1>4. p[1] \in Int /\ p[2] \in Int
  BY <1>3, OfPanel
<1>5. PICK a \in -u..u, b \in -v..v : a = p[1] - x0 /\ b = p[2] - y0
  <2>1. p[1] - x0 \in -u..u
    BY <1>1, <1>3, <1>4
  <2>2. p[2] - y0 \in -v..v
    BY <1>1, <1>3, <1>4 DEF G!Least
  <2> QED
    BY <2>1, <2>2
<1>6. a * a \in Nat /\ a * a <= u * u /\ b * b \in Nat /\ b * b <= v * v
  BY SquareWithin
<1>7. u * u \in Int /\ v * v \in Int /\ r * r \in Int
  BY <1>1
<1>8. OffBy(r, a, b) <= r
  BY <1>1, <1>6, <1>7 DEF OffBy
<1> QED
  BY <1>3, <1>5, <1>8

(* A point on the panel in a row of a filled circle.                        *)
LEMMA RowCovers ==
  ASSUME NEW x0 \in 0..SSD1306_WIDTH - 1, NEW half \in 0..x0, NEW p \in G!Screen,
         x0 - half <= p[1], p[1] <= x0 + half
  PROVE  p \in AcrossOf(x0, p[2], half)
<1>1. p[2] \in Nat /\ p[2] \in 0..SSD1306_HEIGHT - 1
  BY OfPanel
<1>2. p[2] < G!Unsigned16
  <2>1. x0 >= 0 /\ SSD1306_WIDTH \in Nat /\ SSD1306_HEIGHT \in Nat /\ G!Unsigned16 \in Nat
        /\ SSD1306_WIDTH + SSD1306_HEIGHT <= G!Unsigned16
    BY PanelSize
  <2> QED
    BY <1>1, <2>1
<1>3. G!Least(p[2], SSD1306_HEIGHT - 1) = p[2]
  <2>1. SSD1306_HEIGHT \in Nat
    BY PanelSize
  <2> QED
    BY <1>1, <2>1 DEF G!Least
<1>4. AcrossOf(x0, p[2], half)
        = {z \in G!Screen : /\ z[2] = G!Least(p[2], SSD1306_HEIGHT - 1)
                            /\ x0 - half <= z[1] /\ z[1] <= x0 + half}
  BY <1>1, <1>2, AcrossIs
<1> QED
  BY <1>3, <1>4

(* What is well inside a circle is in one of its rows: in a row that a      *)
(* column of the eighth names, or in one of its own rows.                   *)
LEMMA InsideCovered ==
  ASSUME NEW r \in Nat, NEW u \in Nat, NEW v \in Nat, OffBy(r, u, v) < -r
  PROVE  /\ u <= r
         /\ \/ v = 0
            \/ \E q \in G!Eighth(r) \ {<<0, r>>} :
                 /\ OnRing(r, q)
                 /\ (q[1] = v /\ u <= q[2]) \/ (q[2] = v /\ u <= q[1])
<1>1. u * u \in Nat /\ v * v \in Nat /\ r * r \in Nat
  OBVIOUS
<1>2. u * u + v * v < r * r - r
  BY <1>1 DEF OffBy
<1>3. u < r /\ v < r
  <2>1. u * u < r * r /\ v * v < r * r
    BY <1>1, <1>2
  <2> QED
    BY <2>1, SquareLess
<1>4. PICK x \in Nat, y \in 0..r :
        /\ x >= y
        /\ \A q \in G!Eighth(r) : OnRing(r, q)
        /\ \A w \in 0..x : \E q \in G!Eighth(r) : q[1] = w
        /\ \A w \in y..r : \E q \in G!Eighth(r) : q[2] = w
  BY EighthIs, Zenon
<1>5. CASE v \in 1..x
  <2>1. v \in 0..x
    BY <1>5
  <2>2. PICK q \in G!Eighth(r) : q[1] = v
    BY <1>4, <2>1
  <2>3. OnRing(r, q)
    BY <1>4
  <2>4. PICK b \in Nat : b = q[2] /\ -r <= OffBy(r, v, b)
    BY <2>2, <2>3 DEF OnRing
  <2>5. u * u < b * b
    <3>1. b * b \in Nat
      OBVIOUS
    <3>2. -r <= v * v + b * b - r * r
      BY <2>4 DEF OffBy
    <3> QED
      BY <1>1, <1>2, <3>1, <3>2
  <2>6. u < b
    BY <2>5, SquareLess
  <2>7. q # <<0, r>>
    BY <1>5, <2>2
  <2> QED
    BY <1>3, <2>2, <2>3, <2>4, <2>6, <2>7
<1>6. CASE v > x
  <2>1. v \in y..r
    BY <1>3, <1>4, <1>6
  <2>2. PICK q \in G!Eighth(r) : q[2] = v
    BY <1>4, <2>1
  <2>3. OnRing(r, q)
    BY <1>4
  <2>4. PICK a \in Nat : a = q[1] /\ -r <= OffBy(r, a, v)
    BY <2>2, <2>3 DEF OnRing
  <2>5. u * u < a * a
    <3>1. a * a \in Nat
      OBVIOUS
    <3>2. -r <= a * a + v * v - r * r
      BY <2>4 DEF OffBy
    <3> QED
      BY <1>1, <1>2, <3>1, <3>2
  <2>6. u < a
    BY <2>5, SquareLess
  <2>7. q # <<0, r>>
    BY <1>3, <2>2
  <2> QED
    BY <1>3, <2>2, <2>3, <2>4, <2>6, <2>7
<1> QED
  BY <1>3, <1>5, <1>6

(* DrawFilledCircle: all that is well inside, and nothing well outside,     *)
(* also where the circle reaches over the right or the lower edge.          *)
LEMMA FilledCircleDrawn ==
  ASSUME NEW x0 \in 0..SSD1306_WIDTH - 1, NEW y0 \in 0..SSD1306_HEIGHT - 1, NEW r \in 0..x0, r <= y0
  PROVE  IsCircle(G!DrawFilledCircle(x0, y0, r), x0, y0, r, TRUE)
<1>1. r \in Nat /\ x0 \in Nat /\ y0 \in Nat /\ r * r \in Nat
  <2>1. SSD1306_WIDTH \in Nat /\ SSD1306_HEIGHT \in Nat
    BY PanelSize
  <2> QED
    BY <2>1
<1> DEFINE four == {<<x0, y0 + r>>, <<x0, y0 - r>>, <<x0 + r, y0>>, <<x0 - r, y0>>}
           Strips(q) == AcrossOf(x0, y0 + q[2], q[1]) \cup AcrossOf(x0, y0 - q[2], q[1])
                        \cup AcrossOf(x0, y0 + q[1], q[2]) \cup AcrossOf(x0, y0 - q[1], q[2])
           points == G!DrawFilledCircle(x0, y0, r)
<1>2. points = (four \cap G!Screen) \cup AcrossOf(x0, y0, r)
                 \cup UNION {Strips(q) : q \in G!Eighth(r) \ {<<0, r>>}}
  BY FilledCircleIs DEF G!DrawPixels
<1>3. ASSUME NEW p \in points PROVE p \in G!Screen /\ OffBy(r, p[1] - x0, p[2] - y0) <= r
  <2>1. CASE p \in four \cap G!Screen
    <3>1. 0 * 0 = 0 /\ r * r = (-r) * (-r)
      BY <1>1
    <3>2. OffBy(r, 0, r) = 0 /\ OffBy(r, 0, -r) = 0 /\ OffBy(r, r, 0) = 0 /\ OffBy(r, -r, 0) = 0
      BY <1>1, <3>1 DEF OffBy
    <3>3. /\ x0 - x0 = 0 /\ y0 - y0 = 0 /\ x0 + r - x0 = r /\ y0 + r - y0 = r
          /\ x0 - r - x0 = -r /\ y0 - r - y0 = -r
      BY <1>1
    <3>4. OffBy(r, p[1] - x0, p[2] - y0) = 0
      <4>1. CASE p = <<x0, y0 + r>>
        BY <3>2, <3>3, <4>1
      <4>2. CASE p = <<x0, y0 - r>>
        BY <3>2, <3>3, <4>2
      <4>3. CASE p = <<x0 + r, y0>>
        BY <3>2, <3>3, <4>3
      <4>4. CASE p = <<x0 - r, y0>>
        BY <3>2, <3>3, <4>4
      <4> QED
        BY <2>1, <4>1, <4>2, <4>3, <4>4
    <3> QED
      BY <1>1, <2>1, <3>4
  <2>2. CASE p \in AcrossOf(x0, y0, r)
    <3>1. 0 \in Nat /\ OffBy(r, r, 0) <= r /\ y0 = y0 + 0
      BY <1>1 DEF OffBy
    <3> QED
      BY <1>1, <2>2, <3>1, RowInRing
  <2>3. CASE p \in UNION {Strips(q) : q \in G!Eighth(r) \ {<<0, r>>}}
    <3>1. PICK q \in G!Eighth(r) : p \in Strips(q)
      BY <2>3
    <3>2. OnRing(r, q)
      BY <1>1, EighthIs
    <3>3. PICK u \in Nat, v \in Nat : u = q[1] /\ v = q[2]
      BY <3>2 DEF OnRing
    <3>4. OffBy(r, u, v) <= r /\ OffBy(r, v, u) <= r
      <4>1. OffBy(r, u, v) <= r
        BY <3>2, <3>3 DEF OnRing
      <4>2. u * u \in Int /\ v * v \in Int
        OBVIOUS
      <4> QED
        BY <1>1, <4>1, <4>2 DEF OffBy
    <3>5. \/ p \in AcrossOf(x0, y0 + v, u) \/ p \in AcrossOf(x0, y0 - v, u)
          \/ p \in AcrossOf(x0, y0 + u, v) \/ p \in AcrossOf(x0, y0 - u, v)
      BY <3>1, <3>3
    <3>6. ASSUME NEW a \in Nat, NEW b \in Nat, OffBy(r, a, b) <= r, NEW y \in {y0 + b, y0 - b}, p \in AcrossOf(x0, y, a)
          PROVE  p \in G!Screen /\ OffBy(r, p[1] - x0, p[2] - y0) <= r
      BY <3>6, RowInRing
    <3> QED
      BY <3>4, <3>5, <3>6
  <2> QED
    BY <1>2, <2>1, <2>2, <2>3
<1>4. ASSUME NEW p \in G!Screen, OffBy(r, p[1] - x0, p[2] - y0) < -r PROVE p \in points
  <2>1. p[1] \in Nat /\ p[2] \in Nat
    BY OfPanel
  <2>2. PICK u \in Nat, v \in Nat : u = G!Abs(p[1] - x0) /\ v = G!Abs(p[2] - y0)
    BY <1>1, <2>1 DEF G!Abs
  <2>3. /\ x0 - u <= p[1] /\ p[1] <= x0 + u
        /\ p[2] = y0 + v \/ p[2] = y0 - v
    BY <1>1, <2>1, <2>2 DEF G!Abs
  <2>4. OffBy(r, u, v) = OffBy(r, p[1] - x0, p[2] - y0)
    <3>1. PICK a \in Int, b \in Int : a = p[1] - x0 /\ b = p[2] - y0
      BY <1>1, <2>1
    <3>2. u * u = a * a /\ v * v = b * b
      <4>1. (u = a \/ u = -a) /\ (v = b \/ v = -b)
        BY <2>2, <3>1 DEF G!Abs
      <4> QED
        BY <4>1
    <3> QED
      BY <3>1, <3>2 DEF OffBy
  <2>5. /\ u <= r
        /\ \/ v = 0
           \/ \E q \in G!Eighth(r) \ {<<0, r>>} :
                /\ OnRing(r, q)
                /\ (q[1] = v /\ u <= q[2]) \/ (q[2] = v /\ u <= q[1])
    BY <1>1, <1>4, <2>4, InsideCovered
  <2>6. ASSUME NEW half \in Nat, u <= half, half <= r PROVE p \in AcrossOf(x0, p[2], half)
    <3>1. half \in 0..x0 /\ x0 - half <= p[1] /\ p[1] <= x0 + half
      BY <1>1, <2>1, <2>3, <2>6
    <3> QED
      BY <3>1, RowCovers
  <2>7. CASE v = 0
    <3>1. p[2] = y0
      BY <1>1, <2>3, <2>7
    <3>2. p \in AcrossOf(x0, y0, r)
      BY <1>1, <2>5, <2>6, <3>1
    <3> QED
      BY <1>2, <3>2
  <2>8. CASE \E q \in G!Eighth(r) \ {<<0, r>>} :
               /\ OnRing(r, q)
               /\ (q[1] = v /\ u <= q[2]) \/ (q[2] = v /\ u <= q[1])
    <3>1. PICK q \in G!Eighth(r) \ {<<0, r>>} :
            /\ OnRing(r, q)
            /\ (q[1] = v /\ u <= q[2]) \/ (q[2] = v /\ u <= q[1])
      BY <2>8
    <3>2. PICK a \in Nat, b \in Nat : a = q[1] /\ b = q[2] /\ a <= r /\ b <= r
      <4>1. PICK a \in Nat, b \in Nat : a = q[1] /\ b = q[2] /\ OffBy(r, a, b) <= r
        BY <3>1 DEF OnRing
      <4> QED
        BY <1>1, <4>1, RingWithin
    <3>3. CASE a = v /\ u <= b
      <4>1. p \in AcrossOf(x0, p[2], b)
        BY <2>6, <3>2, <3>3
      <4>2. p \in AcrossOf(x0, y0 + q[1], q[2]) \/ p \in AcrossOf(x0, y0 - q[1], q[2])
        BY <2>3, <3>2, <3>3, <4>1
      <4> QED
        BY <1>2, <4>2
    <3>4. CASE b = v /\ u <= a
      <4>1. p \in AcrossOf(x0, p[2], a)
        BY <2>6, <3>2, <3>4
      <4>2. p \in AcrossOf(x0, y0 + q[2], q[1]) \/ p \in AcrossOf(x0, y0 - q[2], q[1])
        BY <2>3, <3>2, <3>4, <4>1
      <4> QED
        BY <1>2, <4>2
    <3> QED
      BY <3>1, <3>2, <3>3, <3>4
  <2> QED
    BY <2>5, <2>7, <2>8
<1> HIDE DEF points
<1>5. ASSUME NEW p \in G!Screen,
             NEW d, d = (p[1] - x0) * (p[1] - x0) + (p[2] - y0) * (p[2] - y0) - r * r, G!Abs(d) > r
      PROVE  (p \in points) = (TRUE /\ d < 0)
  <2>1. p[1] \in Nat /\ p[2] \in Nat
    BY OfPanel
  <2>2. d \in Int
    <3>1. PICK a \in Int, b \in Int : a = p[1] - x0 /\ b = p[2] - y0
      BY <1>1, <2>1
    <3> QED
      BY <1>1, <1>5, <3>1
  <2>3. d = OffBy(r, p[1] - x0, p[2] - y0)
    BY <1>5 DEF OffBy
  <2>4. CASE d < 0
    <3>1. d < -r
      BY <1>1, <1>5, <2>2, <2>4 DEF G!Abs
    <3> QED
      BY <1>4, <2>3, <2>4, <3>1
  <2>5. CASE ~(d < 0)
    <3>1. ~(d <= r)
      BY <1>1, <1>5, <2>2, <2>5 DEF G!Abs
    <3> QED
      BY <1>3, <2>3, <2>5, <3>1
  <2> QED
    BY <2>4, <2>5
<1>6. points \subseteq G!Screen
  BY <1>3
<1>7. IsCircle(points, x0, y0, r, TRUE)
  BY <1>5, <1>6, Zenon DEF IsCircle
<1> QED
  BY <1>7 DEF points
-----------------------------------------------------------------------------
(* Division by its rest.                                                    *)
LEMMA DivIs ==
  ASSUME NEW s \in Nat, s > 0, NEW d \in Nat, NEW e \in 0..s - 1
  PROVE  (d * s + e) \div s = d /\ (d * s + e) % s = e
<1>1. d * s + e \in Nat
  OBVIOUS
<1> QED
  BY <1>1

LEMMA DivThere ==
  ASSUME NEW s \in Nat, s > 0, NEW n \in Nat
  PROVE  n \div s \in Nat /\ n % s \in 0..s - 1 /\ n = (n \div s) * s + (n % s)
OBVIOUS

(* A number is below a product if its share is below the factor.            *)
LEMMA DivBelow ==
  ASSUME NEW s \in Nat, s > 0, NEW n \in Nat, NEW k \in Nat
  PROVE  n < k * s <=> n \div s < k
<1>1. PICK d \in Nat, e \in 0..s - 1 : d = n \div s /\ n = d * s + e
  BY DivThere
<1>2. CASE d < k
  <2>1. (d + 1) * s <= k * s
    BY <1>2, ProductsOrdered
  <2>2. (d + 1) * s = d * s + s /\ k * s \in Int /\ d * s \in Int
    OBVIOUS
  <2> QED
    BY <1>1, <1>2, <2>1, <2>2
<1>3. CASE k <= d
  <2>1. k * s <= d * s /\ k * s \in Int /\ d * s \in Int
    BY <1>3, ProductsOrdered
  <2> QED
    BY <1>1, <1>3, <2>1
<1> QED
  BY <1>2, <1>3

(* The dots of a block that a point is of.                                  *)
LEMMA BlockIs ==
  ASSUME NEW x \in Nat, NEW y \in Nat, NEW scale \in Nat, scale > 0,
         NEW dots \in SUBSET (Nat \X Nat), NEW p \in Pixels
  PROVE  p \in G!Block(x, y, dots, scale)
           <=> x <= p[1] /\ y <= p[2] /\ <<(p[1] - x) \div scale, (p[2] - y) \div scale>> \in dots
<1>1. p = <<p[1], p[2]>> /\ p[1] \in Int /\ p[2] \in Int
  BY DEF Pixels
<1>2. ASSUME p \in G!Block(x, y, dots, scale)
      PROVE  x <= p[1] /\ y <= p[2] /\ <<(p[1] - x) \div scale, (p[2] - y) \div scale>> \in dots
  <2>1. PICK dot \in dots, sx \in 0..scale - 1, sy \in 0..scale - 1 :
          p = <<x + dot[1] * scale + sx, y + dot[2] * scale + sy>>
    BY <1>2 DEF G!Block
  <2>2. PICK u \in Nat, v \in Nat : dot = <<u, v>> /\ u = dot[1] /\ v = dot[2]
    OBVIOUS
  <2>3. p[1] = x + u * scale + sx /\ p[2] = y + v * scale + sy /\ u * scale \in Nat /\ v * scale \in Nat
    BY <2>1, <2>2
  <2>4. p[1] - x = u * scale + sx /\ p[2] - y = v * scale + sy
    BY <2>3
  <2>5. (p[1] - x) \div scale = u /\ (p[2] - y) \div scale = v
    BY <2>4, DivIs
  <2> QED
    BY <2>2, <2>3, <2>5
<1>3. ASSUME x <= p[1], y <= p[2], <<(p[1] - x) \div scale, (p[2] - y) \div scale>> \in dots
      PROVE  p \in G!Block(x, y, dots, scale)
  <2>1. PICK a \in Nat, b \in Nat : a = p[1] - x /\ b = p[2] - y
    BY <1>1, <1>3
  <2>2. PICK u \in Nat, sx \in 0..scale - 1 : u = a \div scale /\ a = u * scale + sx
    BY DivThere
  <2>3. PICK v \in Nat, sy \in 0..scale - 1 : v = b \div scale /\ b = v * scale + sy
    BY DivThere
  <2>4. p = <<x + u * scale + sx, y + v * scale + sy>>
    <3>1. p[1] = x + u * scale + sx /\ p[2] = y + v * scale + sy
      <4>1. u * scale \in Nat /\ v * scale \in Nat
        OBVIOUS
      <4> QED
        BY <1>1, <2>1, <2>2, <2>3, <4>1
    <3> QED
      BY <1>1, <3>1
  <2>5. PICK dot \in dots : dot = <<u, v>> /\ dot[1] = u /\ dot[2] = v
    BY <1>3, <2>1, <2>2, <2>3
  <2>6. p = <<x + dot[1] * scale + sx, y + dot[2] * scale + sy>>
    BY <2>4, <2>5
  <2> QED
    BY <2>6 DEF G!Block
<1> QED
  BY <1>2, <1>3

(* A text after its first k characters: how a point looks.                  *)
Spellers == [x : Nat, picture : SUBSET G!Screen]
PutsOn(str, y, scale, i, s) ==
  IF s.x >= SSD1306_WIDTH \/ y >= SSD1306_HEIGHT THEN s ELSE G!PutcScaled(s, str[i], y, scale)
Spelled(str, x0, y, scale, k, s) ==
  /\ s.x <= x0 + k * (FontWidth * scale)
  /\ s.x < SSD1306_WIDTH /\ y < SSD1306_HEIGHT => s.x = x0 + k * (FontWidth * scale)
  /\ \A p \in G!Screen :
       (p \in s.picture) =
         IF 0 <= p[1] - x0 /\ 0 <= p[2] - y /\ p[1] - x0 < k * (FontWidth * scale) /\ p[2] - y < FontHeight * scale
           THEN <<((p[1] - x0) % (FontWidth * scale)) \div scale, (p[2] - y) \div scale>>
                  \in Font[str[((p[1] - x0) \div (FontWidth * scale)) + 1]]
           ELSE TRUE

(* The size of a character.                                                 *)
LEMMA FontSize ==
  ASSUME NEW scale \in Nat, scale > 0
  PROVE  /\ FontWidth \in Nat /\ FontWidth > 0 /\ FontHeight \in Nat /\ FontHeight > 0
         /\ FontWidth * scale \in Nat /\ FontWidth * scale > 0
         /\ FontHeight * scale \in Nat /\ FontHeight * scale > 0
<1>1. FontWidth \in Nat /\ FontWidth > 0 /\ FontHeight \in Nat /\ FontHeight > 0
  BY DrawingConstants, Zenon
<1>2. FontWidth * scale \in Nat /\ FontHeight * scale \in Nat
  BY <1>1
<1>3. 1 * scale <= FontWidth * scale /\ 1 * scale <= FontHeight * scale
  BY <1>1, ProductsOrdered
<1> QED
  BY <1>1, <1>2, <1>3

(* A dot of the cell of a character.                                        *)
LEMMA CellIs ==
  ASSUME NEW scale \in Nat, scale > 0, NEW a \in Nat, NEW b \in Nat
  PROVE  <<a \div scale, b \div scale>> \in G!Cell <=> a < FontWidth * scale /\ b < FontHeight * scale
<1>1. FontWidth \in Nat /\ FontHeight \in Nat
  BY FontSize
<1>2. a \div scale \in Nat /\ b \div scale \in Nat
  BY DivThere
<1>3. (a < FontWidth * scale <=> a \div scale < FontWidth) /\ (b < FontHeight * scale <=> b \div scale < FontHeight)
  BY <1>1, DivBelow
<1>4. <<a \div scale, b \div scale>> \in G!Cell
        <=> a \div scale \in 0..FontWidth - 1 /\ b \div scale \in 0..FontHeight - 1
  BY DEF G!Cell
<1> QED
  BY <1>1, <1>2, <1>3, <1>4

(* Writing a character, where it begins on the panel.                       *)
LEMMA PutcSpells ==
  ASSUME NEW str, NEW n \in Nat, str \in [1..n -> DOMAIN Font], NEW x0 \in Nat, NEW y \in Nat,
         NEW scale \in Nat, scale > 0, NEW i \in 1..n, NEW s \in Spellers,
         Spelled(str, x0, y, scale, i - 1, s), s.x < SSD1306_WIDTH, y < SSD1306_HEIGHT
  PROVE  G!PutcScaled(s, str[i], y, scale) \in Spellers /\ Spelled(str, x0, y, scale, i, G!PutcScaled(s, str[i], y, scale))
<1> DEFINE t == G!PutcScaled(s, str[i], y, scale)
<1>1. PICK w \in Nat, h \in Nat : w = FontWidth * scale /\ h = FontHeight * scale /\ w > 0 /\ h > 0
  BY FontSize
<1>2. PICK k \in Nat : k = i - 1 /\ k + 1 = i
  OBVIOUS
<1>3. s.x \in Nat /\ s.picture \subseteq G!Screen
  BY DEF Spellers
<1>4. k * w \in Nat /\ (k + 1) * w = k * w + w /\ s.x = x0 + k * w
  <2>1. s.x = x0 + (i - 1) * (FontWidth * scale)
    BY DEF Spelled
  <2> QED
    BY <1>1, <1>2, <2>1
<1>5. str[i] \in DOMAIN Font /\ Font[str[i]] \subseteq G!Cell
  <2>1. str[i] \in DOMAIN Font
    OBVIOUS
  <2> QED
    BY <2>1, DrawingConstants, Zenon DEF G!Cell
<1>6. G!Cell \in SUBSET (Nat \X Nat) /\ Font[str[i]] \in SUBSET (Nat \X Nat)
  <2>1. FontWidth \in Nat /\ FontHeight \in Nat
    BY FontSize
  <2>2. 0..FontWidth - 1 \subseteq Nat /\ 0..FontHeight - 1 \subseteq Nat
    BY <2>1
  <2>3. G!Cell \subseteq Nat \X Nat
    BY <2>2 DEF G!Cell
  <2> QED
    BY <1>5, <2>3
<1>7. /\ t.x = s.x + w
      /\ t.picture = (s.picture \ G!Block(s.x, y, G!Cell, scale))
                       \cup (G!Block(s.x, y, Font[str[i]], scale) \cap G!Screen)
  BY <1>1 DEF G!PutcScaled, G!DrawPixels
<1>8. t \in Spellers
  <2>1. t = [x |-> t.x, picture |-> t.picture]
    BY DEF G!PutcScaled
  <2> HIDE DEF t
  <2>2. t.x \in Nat /\ t.picture \subseteq G!Screen
    BY <1>3, <1>7
  <2> QED
    BY <2>1, <2>2 DEF Spellers
<1> HIDE DEF t
<1>9. ASSUME NEW p \in G!Screen
      PROVE  (p \in t.picture) =
               IF 0 <= p[1] - x0 /\ 0 <= p[2] - y /\ p[1] - x0 < (k + 1) * w /\ p[2] - y < h
                 THEN <<((p[1] - x0) % w) \div scale, (p[2] - y) \div scale>> \in Font[str[((p[1] - x0) \div w) + 1]]
                 ELSE TRUE
  <2>1. p \in Pixels /\ p[1] \in Nat /\ p[2] \in Nat
    BY OfPanel
  <2>2. PICK a \in Int, b \in Int : a = p[1] - x0 /\ b = p[2] - y
    BY <2>1
  <2>3. p[1] - s.x = a - k * w /\ (s.x <= p[1] <=> k * w <= a) /\ (y <= p[2] <=> 0 <= b)
    <3>1. PICK u \in Nat, v \in Nat, l \in Nat : u = p[1] /\ v = p[2] /\ l = s.x
      BY <1>3, <2>1
    <3>2. a = u - x0 /\ b = v - y
      BY <2>2, <3>1
    <3>3. PICK kw \in Nat : kw = k * w /\ l = x0 + kw
      BY <1>4, <3>1
    <3>4. u - l = a - kw /\ (l <= u <=> kw <= a) /\ (y <= v <=> 0 <= b)
      BY <3>2, <3>3
    <3> QED
      BY <3>1, <3>3, <3>4
  <2> DEFINE dot == <<(a % w) \div scale, b \div scale>>
             glyph == Font[str[(a \div w) + 1]]
  <2>4. (p \in s.picture) = IF 0 <= a /\ 0 <= b /\ a < k * w /\ b < h THEN dot \in glyph ELSE TRUE
    BY <1>1, <1>2, <2>2, Zenon DEF Spelled
  <2>5. SUFFICES (p \in t.picture) = IF 0 <= a /\ 0 <= b /\ a < (k + 1) * w /\ b < h THEN dot \in glyph ELSE TRUE
    BY <2>2, Zenon
  <2>6. CASE k * w <= a /\ a < (k + 1) * w /\ 0 <= b /\ b < h
    <3>1. PICK e \in 0..w - 1 : e = a - k * w
      BY <1>4, <2>6
    <3>2. a = k * w + e /\ b \in Nat /\ 0 <= a
      BY <1>4, <2>6, <3>1
    <3>3. a \div w = k /\ a % w = e
      BY <1>1, <3>2, DivIs
    <3>4. dot = <<e \div scale, b \div scale>> /\ glyph = Font[str[i]]
      BY <1>2, <3>3
    <3>5. <<e \div scale, b \div scale>> \in G!Cell
      <4>1. e \in Nat /\ e < w
        BY <1>1
      <4> QED
        BY <1>1, <2>6, <3>2, <4>1, CellIs
    <3>6. p[1] - s.x = e /\ p[2] - y = b /\ s.x <= p[1] /\ y <= p[2]
      BY <2>2, <2>3, <2>6, <3>1
    <3>7. p \in G!Block(s.x, y, G!Cell, scale)
      BY <1>3, <1>6, <2>1, <3>5, <3>6, BlockIs
    <3>8. p \in G!Block(s.x, y, Font[str[i]], scale) <=> <<e \div scale, b \div scale>> \in Font[str[i]]
      BY <1>3, <1>6, <2>1, <3>6, BlockIs
    <3>9. p \in t.picture <=> <<e \div scale, b \div scale>> \in Font[str[i]]
      BY <1>7, <3>7, <3>8
    <3> HIDE DEF dot, glyph
    <3>10. p \in t.picture <=> dot \in glyph
      BY <3>4, <3>9
    <3> QED
      BY <2>6, <3>2, <3>10
  <2>7. CASE ~(k * w <= a /\ a < (k + 1) * w /\ 0 <= b /\ b < h)
    <3>1. p \notin G!Block(s.x, y, G!Cell, scale)
      <4> SUFFICES ASSUME p \in G!Block(s.x, y, G!Cell, scale) PROVE FALSE
        OBVIOUS
      <4>1. s.x <= p[1] /\ y <= p[2] /\ <<(p[1] - s.x) \div scale, (p[2] - y) \div scale>> \in G!Cell
        BY <1>3, <1>6, <2>1, BlockIs
      <4>2. PICK c \in Nat, d \in Nat : c = p[1] - s.x /\ d = p[2] - y /\ c = a - k * w /\ d = b
        <5>1. k * w <= a /\ 0 <= b
          BY <2>3, <4>1
        <5>2. a - k * w \in Nat /\ b \in Nat
          BY <1>4, <5>1
        <5> QED
          BY <2>2, <2>3, <5>2
      <4>3. <<c \div scale, d \div scale>> \in G!Cell
        BY <4>1, <4>2
      <4>4. c < w /\ d < h
        BY <1>1, <4>3, CellIs
      <4> QED
        BY <1>4, <2>7, <4>2, <4>4
    <3>2. p \notin G!Block(s.x, y, Font[str[i]], scale)
      <4>1. p \in G!Block(s.x, y, Font[str[i]], scale) => p \in G!Block(s.x, y, G!Cell, scale)
        BY <1>5 DEF G!Block
      <4> QED
        BY <3>1, <4>1
    <3>3. p \in t.picture <=> p \in s.picture
      BY <1>7, <3>1, <3>2
    <3>4. (0 <= a /\ 0 <= b /\ a < (k + 1) * w /\ b < h) <=> (0 <= a /\ 0 <= b /\ a < k * w /\ b < h)
      <4>1. PICK l \in Nat, u \in Nat : l = k * w /\ u = (k + 1) * w /\ u = l + w
        BY <1>4
      <4>2. ~(l <= a /\ a < u /\ 0 <= b /\ b < h)
        BY <2>7, <4>1, Zenon
      <4>3. (0 <= a /\ 0 <= b /\ a < u /\ b < h) <=> (0 <= a /\ 0 <= b /\ a < l /\ b < h)
        BY <4>1, <4>2
      <4> QED
        BY <4>1, <4>3, Zenon
    <3>5. CASE 0 <= a /\ 0 <= b /\ a < k * w /\ b < h
      <4>1. p \in s.picture <=> dot \in glyph
        BY <2>4, <3>5
      <4>2. p \in t.picture <=> dot \in glyph
        BY <3>3, <4>1
      <4>3. 0 <= a /\ 0 <= b /\ a < (k + 1) * w /\ b < h
        BY <3>4, <3>5, Zenon
      <4> HIDE DEF dot, glyph
      <4>4. (p \in t.picture) = (dot \in glyph)
        BY <4>2
      <4> QED
        BY <4>3, <4>4, Zenon
    <3>6. CASE ~(0 <= a /\ 0 <= b /\ a < k * w /\ b < h)
      BY <2>4, <3>3, <3>4, <3>6
    <3> QED
      BY <3>5, <3>6
  <2> QED
    BY <2>6, <2>7
<1>10. t.x = x0 + i * (FontWidth * scale)
  BY <1>1, <1>2, <1>4, <1>7
<1>11. t.x <= x0 + i * (FontWidth * scale)
  <2>1. t.x \in Nat
    BY <1>8 DEF Spellers
  <2> QED
    BY <1>10, <2>1
<1>12. Spelled(str, x0, y, scale, i, t)
  BY <1>1, <1>2, <1>9, <1>10, <1>11, Zenon DEF Spelled
<1> QED
  BY <1>8, <1>12 DEF t

(* A character that would begin off the panel is not missed.                *)
LEMMA PastPanel ==
  ASSUME NEW str, NEW x0 \in Nat, NEW y \in Nat, NEW scale \in Nat, scale > 0, NEW i \in Nat, i > 0,
         NEW s \in Spellers, Spelled(str, x0, y, scale, i - 1, s), s.x >= SSD1306_WIDTH \/ y >= SSD1306_HEIGHT
  PROVE  Spelled(str, x0, y, scale, i, s)
<1>1. PICK w \in Nat, h \in Nat : w = FontWidth * scale /\ h = FontHeight * scale /\ w > 0 /\ h > 0
  BY FontSize
<1>2. PICK k \in Nat : k = i - 1 /\ k + 1 = i
  OBVIOUS
<1>3. k * w \in Nat /\ (k + 1) * w = k * w + w
  OBVIOUS
<1>4. PICK l \in Nat : l = s.x
  BY DEF Spellers
<1>5. l <= x0 + k * w
  BY <1>1, <1>2, <1>4 DEF Spelled
<1>6. SSD1306_WIDTH \in Nat /\ SSD1306_HEIGHT \in Nat
  BY DrawingConstants, Zenon
<1>7. ASSUME NEW p \in G!Screen
      PROVE  (0 <= p[1] - x0 /\ 0 <= p[2] - y /\ p[1] - x0 < (k + 1) * w /\ p[2] - y < h)
               <=> (0 <= p[1] - x0 /\ 0 <= p[2] - y /\ p[1] - x0 < k * w /\ p[2] - y < h)
  <2>1. PICK u \in 0..SSD1306_WIDTH - 1, v \in 0..SSD1306_HEIGHT - 1 : u = p[1] /\ v = p[2]
    BY DEF G!Screen
  <2>2. (0 <= u - x0 /\ 0 <= v - y /\ u - x0 < (k + 1) * w /\ v - y < h)
          <=> (0 <= u - x0 /\ 0 <= v - y /\ u - x0 < k * w /\ v - y < h)
    BY <1>3, <1>4, <1>5, <1>6, <2>1
  <2> QED
    BY <2>1, <2>2
<1>8. s.x <= x0 + i * (FontWidth * scale)
  BY <1>1, <1>2, <1>3, <1>4, <1>5
<1>9. ~(s.x < SSD1306_WIDTH /\ y < SSD1306_HEIGHT)
  BY <1>4, <1>6
<1>10. ASSUME NEW p \in G!Screen
       PROVE  (p \in s.picture) =
                IF 0 <= p[1] - x0 /\ 0 <= p[2] - y /\ p[1] - x0 < i * (FontWidth * scale) /\ p[2] - y < FontHeight * scale
                  THEN <<((p[1] - x0) % (FontWidth * scale)) \div scale, (p[2] - y) \div scale>>
                         \in Font[str[((p[1] - x0) \div (FontWidth * scale)) + 1]]
                  ELSE TRUE
  <2>1. (p \in s.picture) =
          IF 0 <= p[1] - x0 /\ 0 <= p[2] - y /\ p[1] - x0 < k * (FontWidth * scale) /\ p[2] - y < FontHeight * scale
            THEN <<((p[1] - x0) % (FontWidth * scale)) \div scale, (p[2] - y) \div scale>>
                   \in Font[str[((p[1] - x0) \div (FontWidth * scale)) + 1]]
            ELSE TRUE
    BY <1>2, Zenon DEF Spelled
  <2> QED
    BY <1>1, <1>2, <1>7, <2>1, Zenon
<1> QED
  BY <1>8, <1>9, <1>10, Zenon DEF Spelled

(* PutsScaled: the text as far as it fits on the panel, over what is there. *)
LEMMA TextDrawn ==
  ASSUME NEW str \in Seq(DOMAIN Font), NEW x0 \in Nat, NEW y \in Nat, NEW scale \in Nat, scale > 0
  PROVE  /\ G!PutsScaled(G!Screen, str, x0, y, scale) \subseteq G!Screen
         /\ G!IsText(G!PutsScaled(G!Screen, str, x0, y, scale), <<x0, y>>, str, scale)
<1>1. PICK n \in Nat : n = Len(str) /\ str \in [1..n -> DOMAIN Font]
  OBVIOUS
<1> DEFINE start == [x |-> x0, picture |-> G!Screen]
           F == [i \in 1..n |-> [s \in Spellers |-> PutsOn(str, y, scale, i, s)]]
           IsMade(m) == m = [i \in 0..n |-> IF i = 0 THEN start ELSE PutsOn(str, y, scale, i, m[i - 1])]
           w == CHOOSE made : IsMade(made)
<1>2. G!PutsScaled(G!Screen, str, x0, y, scale) = w[n].picture
  BY <1>1, Zenon DEF G!PutsScaled, G!Rounds, PutsOn, G!Len, Len
<1>3. start \in Spellers
  BY DEF Spellers
<1>4. Spelled(str, x0, y, scale, 0, start)
  <2>1. PICK v \in Nat : v = FontWidth * scale
    BY FontSize
  <2>2. 0 * v = 0
    OBVIOUS
  <2>3. ASSUME NEW p \in G!Screen PROVE ~(0 <= p[1] - x0 /\ p[1] - x0 < 0 * v)
    <3>1. PICK a \in Int : a = p[1] - x0
      BY OfPanel
    <3> QED
      BY <2>2, <3>1
  <2>4. start.x <= x0 + 0 * v /\ start.x = x0 + 0 * v
    BY <2>2
  <2>5. \A p \in G!Screen : p \in start.picture
    OBVIOUS
  <2> HIDE DEF start
  <2> QED
    BY <2>1, <2>3, <2>4, <2>5, Zenon DEF Spelled
<1> HIDE DEF start
<1>5. ASSUME NEW i \in 1..n, NEW s \in Spellers, Spelled(str, x0, y, scale, i - 1, s)
      PROVE  Spelled(str, x0, y, scale, i, PutsOn(str, y, scale, i, s))
  <2>1. CASE s.x >= SSD1306_WIDTH \/ y >= SSD1306_HEIGHT
    BY <1>5, <2>1, PastPanel DEF PutsOn
  <2>2. CASE ~(s.x >= SSD1306_WIDTH \/ y >= SSD1306_HEIGHT)
    <3>1. SSD1306_WIDTH \in Nat /\ SSD1306_HEIGHT \in Nat
      BY DrawingConstants, Zenon
    <3>2. s.x \in Nat
      BY DEF Spellers
    <3>3. s.x < SSD1306_WIDTH /\ y < SSD1306_HEIGHT
      BY <2>2, <3>1, <3>2
    <3>4. Spelled(str, x0, y, scale, i, G!PutcScaled(s, str[i], y, scale))
      BY <1>1, <1>5, <3>3, PutcSpells
    <3> QED
      BY <2>2, <3>4 DEF PutsOn
  <2> QED
    BY <2>1, <2>2
<1>6. ASSUME NEW i \in 1..n, NEW s \in Spellers PROVE PutsOn(str, y, scale, i, s) \in Spellers
  <2> DEFINE t == G!PutcScaled(s, str[i], y, scale)
  <2>1. s.x \in Nat /\ s.picture \subseteq G!Screen /\ FontWidth * scale \in Nat
    BY FontSize DEF Spellers
  <2>2. t.x = s.x + FontWidth * scale /\ t.picture \subseteq G!Screen
    BY <2>1 DEF G!PutcScaled, G!DrawPixels
  <2>3. t = [x |-> t.x, picture |-> t.picture]
    BY DEF G!PutcScaled
  <2> HIDE DEF t
  <2>4. t \in Spellers
    BY <2>1, <2>2, <2>3 DEF Spellers
  <2> QED
    BY <2>4 DEF PutsOn, t
<1>7. F \in [1..n -> [Spellers -> Spellers]]
  BY <1>6
<1>8. \A i \in 1..n, s \in Spellers : F[i][s] = PutsOn(str, y, scale, i, s)
  OBVIOUS
<1> HIDE DEF F
<1>9. PICK m \in [0..n -> Spellers] : IsRun(m, F, start, n)
  BY <1>3, <1>7, Made
<1>10. ASSUME NEW i \in 0..n PROVE m[i] = IF i = 0 THEN start ELSE PutsOn(str, y, scale, i, m[i - 1])
  <2> SUFFICES ASSUME i # 0 PROVE m[i] = PutsOn(str, y, scale, i, m[i - 1])
    BY <1>9 DEF IsRun
  <2>1. i \in 1..n /\ i - 1 \in 0..n
    OBVIOUS
  <2>2. m[i - 1] \in Spellers
    BY <2>1
  <2> QED
    BY <1>8, <1>9, <2>1, <2>2 DEF IsRun
<1>11. IsMade(m)
  <2>1. m = [i \in 0..n |-> m[i]]
    OBVIOUS
  <2> QED
    BY <1>10, <2>1, Zenon
<1>12. IsMade(w)
  BY <1>11, Zenon
<1> HIDE DEF w
<1>13. /\ w = [i \in 0..n |-> w[i]]
       /\ \A i \in 0..n : w[i] = IF i = 0 THEN start ELSE PutsOn(str, y, scale, i, w[i - 1])
  <2> DEFINE e == [i \in 0..n |-> IF i = 0 THEN start ELSE PutsOn(str, y, scale, i, w[i - 1])]
  <2>1. w = e
    BY <1>12
  <2>2. e = [i \in 0..n |-> e[i]] /\ \A i \in 0..n : e[i] = IF i = 0 THEN start ELSE PutsOn(str, y, scale, i, w[i - 1])
    OBVIOUS
  <2> QED
    BY <2>1, <2>2
<1>14. w[0] = start /\ \A i \in 1..n : w[i] = PutsOn(str, y, scale, i, w[i - 1])
  <2>1. 0 \in 0..n /\ \A i \in 1..n : i \in 0..n /\ i # 0
    OBVIOUS
  <2> QED
    BY <1>13, <2>1
<1>15. \A i \in 1..n : w[i - 1] \in Spellers => w[i] = F[i][w[i - 1]]
  BY <1>8, <1>14
<1>16. w \in [0..n -> Spellers]
  BY <1>3, <1>7, <1>13, <1>14, <1>15, RunIs
<1>17. \A i \in 0..n : Spelled(str, x0, y, scale, i, w[i])
  <2> DEFINE good == {i \in 0..n : Spelled(str, x0, y, scale, i, w[i])}
  <2>1. 0 \in good
    BY <1>4, <1>14
  <2>2. ASSUME NEW i \in 0..n - 1, i \in good PROVE i + 1 \in good
    <3>1. PICK j \in 1..n : j = i + 1 /\ j - 1 = i /\ i \in 0..n /\ j \in 0..n
      OBVIOUS
    <3>2. w[i] \in Spellers /\ Spelled(str, x0, y, scale, j - 1, w[i]) /\ w[j] = PutsOn(str, y, scale, j, w[i])
      BY <1>14, <1>16, <2>2, <3>1
    <3>3. Spelled(str, x0, y, scale, j, w[j])
      BY <1>5, <3>2
    <3> QED
      BY <3>1, <3>3
  <2> HIDE DEF good
  <2>3. \A i \in 0..n : i \in good
    BY <2>1, <2>2, UpTo
  <2> QED
    BY <2>3 DEF good
<1>18. PICK s \in Spellers : s = w[n] /\ Spelled(str, x0, y, scale, n, s)
  <2>1. n \in 0..n
    OBVIOUS
  <2> QED
    BY <1>16, <1>17, <2>1
<1>19. s.picture \subseteq G!Screen
  BY DEF Spellers
<1>20. PICK c \in Nat, h \in Nat : c = FontWidth * scale /\ h = FontHeight * scale /\ c > 0
  BY FontSize
<1>21. ASSUME NEW p \in G!Screen
       PROVE  (p \in s.picture) =
                IF 0 <= p[1] - x0 /\ 0 <= p[2] - y /\ ((p[1] - x0) \div c) + 1 <= n /\ p[2] - y < h
                  THEN <<((p[1] - x0) % c) \div scale, (p[2] - y) \div scale>> \in Font[str[((p[1] - x0) \div c) + 1]]
                  ELSE TRUE
  <2>1. PICK a \in Int : a = p[1] - x0
    BY OfPanel
  <2>2. 0 <= a => (a < n * c <=> (a \div c) + 1 <= n)
    <3> SUFFICES ASSUME a \in Nat PROVE a < n * c <=> (a \div c) + 1 <= n
      OBVIOUS
    <3>1. a \div c \in Nat
      BY <1>20, DivThere
    <3>2. a < n * c <=> a \div c < n
      BY <1>20, DivBelow
    <3> QED
      BY <3>1, <3>2
  <2>3. (p \in s.picture) =
          IF 0 <= a /\ 0 <= p[2] - y /\ a < n * c /\ p[2] - y < h
            THEN <<(a % c) \div scale, (p[2] - y) \div scale>> \in Font[str[(a \div c) + 1]]
            ELSE TRUE
    BY <1>18, <1>20, <2>1, Zenon DEF Spelled
  <2> QED
    BY <2>1, <2>2, <2>3, Zenon
<1>22. <<x0, y>>[1] = x0 /\ <<x0, y>>[2] = y
  OBVIOUS
<1>23. G!Len(str) = n
  BY <1>1, Zenon DEF G!Len, Len
<1>24. G!IsText(s.picture, <<x0, y>>, str, scale)
  BY <1>20, <1>21, <1>22, <1>23, Zenon DEF G!IsText
<1> QED
  BY <1>2, <1>18, <1>19, <1>24
-----------------------------------------------------------------------------
(* disp_volume_bar: a louder volume has all of the bar of a softer one.     *)
LEMMA VolumeDrawn ==
  ASSUME NEW vol \in 0..255
  PROVE  /\ G!disp_volume_bar(1, vol) \subseteq G!Screen
         /\ vol < 255 => G!disp_volume_bar(1, vol) \subseteq G!disp_volume_bar(1, vol + 1)
<1>1. PICK w \in Nat : w = SSD1306_WIDTH /\ w > 0
  BY DrawingConstants, Zenon
<1> DEFINE bar(v) == ((w - 2) * v) \div 255
           frame == G!DrawRectangle(0, 1, w - 1, 6)
           filled(v) == G!DrawFilledRectangle(1, 1 + 1, bar(v), 4)
<1>2. \A v \in 0..255 : G!disp_volume_bar(1, v) = frame \cup filled(v)
  BY <1>1, Zenon DEF G!disp_volume_bar
<1>3. frame \subseteq G!Screen
  <2> DEFINE box == G!Box(<<0, 1>>, <<w - 1, 6>>)
  <2>1. box \subseteq G!Screen
    BY DEF G!Box
  <2>2. w - 1 \in Nat
    BY <1>1
  <2>3. frame = {p \in box : \E d \in {<<1, 0>>, <<-1, 0>>, <<0, 1>>, <<0, -1>>} :
                               <<p[1] + d[1], p[2] + d[2]>> \notin box}
    BY <2>2, RectangleDrawn
  <2> HIDE DEF box, frame
  <2> QED
    BY <2>1, <2>3
<1>4. ASSUME w = 1, NEW v \in 0..255 PROVE filled(v) = {}
  <2>1. 1 >= SSD1306_WIDTH
    BY <1>1, <1>4
  <2> QED
    BY <2>1, Zenon DEF G!DrawFilledRectangle
<1>5. ASSUME w # 1, NEW v \in 0..255
      PROVE  bar(v) \in Nat /\ filled(v) = G!Box(<<1, 1 + 1>>, <<bar(v), 4>>)
  <2>1. PICK l \in Nat : l = w - 2
    BY <1>1, <1>5
  <2>2. l * v \in Nat
    OBVIOUS
  <2>3. bar(v) \in Nat
    BY <2>1, <2>2
  <2> QED
    BY <2>3, FilledRectangleDrawn
<1> HIDE DEF bar, frame, filled
<1>6. ASSUME NEW v \in 0..255 PROVE filled(v) \subseteq G!Screen
  BY <1>4, <1>5 DEF G!Box
<1>7. ASSUME vol < 255, w # 1 PROVE bar(vol) <= bar(vol + 1)
  <2>1. PICK l \in Nat : l = w - 2
    BY <1>1, <1>7
  <2>2. PICK a \in Nat, b \in Nat : a = l * vol /\ b = l * (vol + 1) /\ a <= b
    OBVIOUS
  <2>3. a \div 255 <= b \div 255
    BY <2>2
  <2> QED
    BY <2>1, <2>2, <2>3 DEF bar
<1>8. ASSUME vol < 255 PROVE filled(vol) \subseteq filled(vol + 1)
  <2>1. vol + 1 \in 0..255
    BY <1>8
  <2>2. CASE w = 1
    BY <1>4, <2>2
  <2>3. CASE w # 1
    <3>1. PICK a \in Nat, b \in Nat : a = bar(vol) /\ b = bar(vol + 1) /\ a <= b
      BY <1>5, <1>7, <1>8, <2>1, <2>3
    <3>2. filled(vol) = G!Box(<<1, 1 + 1>>, <<a, 4>>) /\ filled(vol + 1) = G!Box(<<1, 1 + 1>>, <<b, 4>>)
      BY <1>5, <2>1, <2>3, <3>1
    <3>3. ASSUME NEW p \in G!Screen, p[1] <= 1 + a PROVE p[1] <= 1 + b
      BY <3>1, <3>3, OfPanel
    <3>4. G!Box(<<1, 1 + 1>>, <<a, 4>>) \subseteq G!Box(<<1, 1 + 1>>, <<b, 4>>)
      BY <3>3 DEF G!Box
    <3> QED
      BY <3>2, <3>4
  <2> QED
    BY <2>2, <2>3
<1>9. ASSUME vol < 255 PROVE G!disp_volume_bar(1, vol) \subseteq G!disp_volume_bar(1, vol + 1)
  <2>1. vol + 1 \in 0..255
    BY <1>9
  <2> QED
    BY <1>2, <1>8, <1>9, <2>1
<1> QED
  BY <1>2, <1>3, <1>6, <1>9
-----------------------------------------------------------------------------
(* Each primitive, drawn.                                                   *)
LEMMA LineLooks ==
  ASSUME G!Line
  PROVE  G!LooksAsMeant'
<1>1. PICK a \in G!Xs \X G!Ys, b \in G!Xs \X G!Ys : G!Draws("line", <<a, b>>, G!DrawLine(a[1], a[2], b[1], b[2]))
  BY DEF G!Line
<1>2. lit' = G!DrawLine(a[1], a[2], b[1], b[2]) /\ drawn' = [op |-> "line", at |-> <<a, b>>]
  BY <1>1 DEF G!Draws
<1>3. a[1] \in Nat /\ a[2] \in Nat /\ b[1] \in Nat /\ b[2] \in Nat
  BY DrawingConstants DEF G!Xs, G!Ys
<1>4. /\ G!IsLine(lit', G!Clip(a[1], a[2]), G!Clip(b[1], b[2]))
      /\ lit' \subseteq G!Screen
  BY <1>2, <1>3, LineDrawn
<1>5. drawn'.op = "line" /\ drawn'.at = <<a, b>>
  BY <1>2
<1> QED
  BY <1>4, <1>5 DEF G!LooksAsMeant

LEMMA RectangleLooks ==
  ASSUME G!Rectangle
  PROVE  G!LooksAsMeant'
<1>1. PICK a \in G!Xs \X G!Ys, b \in G!Xs \X G!Ys :
        \/ G!Draws("rectangle", <<a, b>>, G!DrawRectangle(a[1], a[2], b[1], b[2]))
        \/ G!Draws("filled rectangle", <<a, b>>, G!DrawFilledRectangle(a[1], a[2], b[1], b[2]))
  BY DEF G!Rectangle
<1>2. a[1] \in Nat /\ a[2] \in Nat /\ b[1] \in Nat /\ b[2] \in Nat /\ a = <<a[1], a[2]>> /\ b = <<b[1], b[2]>>
  BY DrawingConstants DEF G!Xs, G!Ys
<1> DEFINE box == G!Box(a, b)
<1>3. box \subseteq G!Screen
  BY DEF G!Box
<1>4. CASE G!Draws("rectangle", <<a, b>>, G!DrawRectangle(a[1], a[2], b[1], b[2]))
  <2>1. lit' = G!DrawRectangle(a[1], a[2], b[1], b[2]) /\ drawn'.op = "rectangle" /\ drawn'.at = <<a, b>>
    BY <1>4 DEF G!Draws
  <2>2. G!DrawRectangle(a[1], a[2], b[1], b[2])
          = {p \in box : \E d \in {<<1, 0>>, <<-1, 0>>, <<0, 1>>, <<0, -1>>} :
                           <<p[1] + d[1], p[2] + d[2]>> \notin box}
    BY <1>2, RectangleDrawn
  <2> HIDE DEF box
  <2>3. lit' = {p \in box : \E d \in {<<1, 0>>, <<-1, 0>>, <<0, 1>>, <<0, -1>>} :
                              <<p[1] + d[1], p[2] + d[2]>> \notin box}
    BY <2>1, <2>2, Zenon
  <2>4. lit' \subseteq G!Screen
    BY <1>3, <2>3
  <2> QED
    BY <2>1, <2>3, <2>4 DEF G!LooksAsMeant, box
<1>5. CASE G!Draws("filled rectangle", <<a, b>>, G!DrawFilledRectangle(a[1], a[2], b[1], b[2]))
  <2>1. lit' = G!DrawFilledRectangle(a[1], a[2], b[1], b[2]) /\ drawn'.op = "filled rectangle" /\ drawn'.at = <<a, b>>
    BY <1>5 DEF G!Draws
  <2>2. G!DrawFilledRectangle(a[1], a[2], b[1], b[2]) = box
    BY <1>2, FilledRectangleDrawn
  <2> HIDE DEF box
  <2>3. lit' = box
    BY <2>1, <2>2, Zenon
  <2>4. lit' = G!Box(<<a, b>>[1], <<a, b>>[2])
    BY <2>3 DEF box
  <2>5. lit' \subseteq G!Screen
    BY <1>3, <2>3
  <2> QED
    BY <2>1, <2>4, <2>5, Zenon DEF G!LooksAsMeant
<1> QED
  BY <1>1, <1>4, <1>5

(* The corners of a triangle by their number.                               *)
LEMMA CornerNumber ==
  ASSUME NEW at, NEW z, NEW i \in 1..2, Inside(at[1], at[2], at[3], z)
  PROVE  \E k, l \in 1..3 : at[k][i] <= z[i] /\ z[i] <= at[l][i]
<1>1. PICK u \in {at[1], at[2], at[3]}, v \in {at[1], at[2], at[3]} : u[i] <= z[i] /\ z[i] <= v[i]
  BY Zenon DEF Inside
<1>2. 1 \in 1..3 /\ 2 \in 1..3 /\ 3 \in 1..3
  OBVIOUS
<1>3. PICK k \in 1..3 : u = at[k]
  BY <1>2, Zenon
<1>4. PICK l \in 1..3 : v = at[l]
  BY <1>2, Zenon
<1> QED
  BY <1>1, <1>3, <1>4, Zenon

LEMMA TriangleLooks ==
  ASSUME G!Triangle
  PROVE  G!LooksAsMeant'
<1>1. PICK p \in Corners, q \in Corners, r \in Corners :
        \/ G!Draws("triangle", <<p, q, r>>, G!DrawTriangle(p, q, r))
        \/ G!Draws("filled triangle", <<p, q, r>>, G!DrawFilledTriangle(p, q, r))
  BY DEF G!Triangle
<1>2. p \in G!Screen /\ q \in G!Screen /\ r \in G!Screen
  BY DrawingConstants
<1>3. PICK op \in {"triangle", "filled triangle"} :
        drawn' = [op |-> op, at |-> <<p, q, r>>] /\ IsTriangle(lit', p, q, r)
  BY <1>1, <1>2, TriangleDrawn, FilledTriangleDrawn DEF G!Draws
<1>4. drawn'.op \in {"triangle", "filled triangle"} /\ drawn'.at = <<p, q, r>>
  BY <1>3
<1>5. ASSUME NEW z \in lit', NEW i \in 1..2
      PROVE  \E k, l \in 1..3 : <<p, q, r>>[k][i] <= z[i] /\ z[i] <= <<p, q, r>>[l][i]
  <2> DEFINE at == <<p, q, r>>
  <2>1. at[1] = p /\ at[2] = q /\ at[3] = r
    OBVIOUS
  <2> HIDE DEF at
  <2>2. Inside(at[1], at[2], at[3], z)
    BY <1>3, <2>1, Zenon DEF IsTriangle
  <2>3. \E k, l \in 1..3 : at[k][i] <= z[i] /\ z[i] <= at[l][i]
    BY <2>2, CornerNumber, Zenon
  <2> QED
    BY <2>3 DEF at
<1>6. lit' \subseteq G!Screen /\ {<<p, q, r>>[1], <<p, q, r>>[2], <<p, q, r>>[3]} \subseteq lit'
  BY <1>3 DEF IsTriangle
<1> QED
  BY <1>4, <1>5, <1>6 DEF G!LooksAsMeant

LEMMA CircleLooks ==
  ASSUME G!Circle
  PROVE  G!LooksAsMeant'
<1>1. PICK c \in Circles :
        \/ G!Draws("circle", c, G!DrawCircle(c[1], c[2], c[3]))
        \/ G!Draws("filled circle", c, G!DrawFilledCircle(c[1], c[2], c[3]))
  BY DEF G!Circle
<1>2. /\ c[1] \in 0..SSD1306_WIDTH - 1 /\ c[2] \in 0..SSD1306_HEIGHT - 1
      /\ c[3] \in 0..c[1] /\ c[3] <= c[2] /\ {c[1], c[2], c[3]} \subseteq Nat
  <2>1. PICK r \in Nat : r = c[3]
    BY DrawingConstants, Zenon
  <2>2. c[1] \in r..SSD1306_WIDTH - 1 /\ c[2] \in r..SSD1306_HEIGHT - 1
    BY <2>1, DrawingConstants, Zenon
  <2> QED
    BY <2>1, <2>2, PanelSize
<1> DEFINE Looks(filled) == IsCircle(lit', c[1], c[2], c[3], filled)
<1>3. CASE G!Draws("circle", c, G!DrawCircle(c[1], c[2], c[3]))
  <2>1. lit' = G!DrawCircle(c[1], c[2], c[3]) /\ drawn'.op = "circle" /\ drawn'.at = c
    BY <1>3 DEF G!Draws
  <2>2. IsCircle(lit', c[1], c[2], c[3], FALSE)
    BY <1>2, <2>1, CircleDrawn
  <2>3. "circle" # "filled circle"
    OBVIOUS
  <2> QED
    BY <2>1, <2>2, <2>3 DEF G!LooksAsMeant, IsCircle
<1>4. CASE G!Draws("filled circle", c, G!DrawFilledCircle(c[1], c[2], c[3]))
  <2>1. lit' = G!DrawFilledCircle(c[1], c[2], c[3]) /\ drawn'.op = "filled circle" /\ drawn'.at = c
    BY <1>4 DEF G!Draws
  <2>2. IsCircle(lit', c[1], c[2], c[3], TRUE)
    BY <1>2, <2>1, FilledCircleDrawn
  <2> QED
    BY <2>1, <2>2 DEF G!LooksAsMeant, IsCircle
<1> QED
  BY <1>1, <1>3, <1>4

LEMMA TextLooks ==
  ASSUME G!Text
  PROVE  G!LooksAsMeant'
<1>1. PICK a \in G!Xs \X G!Ys, str \in Strings, scale \in Scales :
        G!Draws("text", <<a, str, scale>>, G!PutsScaled(G!Screen, str, a[1], a[2], scale))
  BY DEF G!Text
<1>2. a[1] \in Nat /\ a[2] \in Nat /\ a = <<a[1], a[2]>>
  BY DrawingConstants DEF G!Xs, G!Ys
<1>3. str \in Seq(DOMAIN Font) /\ scale \in Nat /\ scale > 0
  <2>1. scale \in Nat \ {0}
    BY DrawingConstants
  <2> QED
    BY <2>1, DrawingConstants
<1>4. lit' = G!PutsScaled(G!Screen, str, a[1], a[2], scale) /\ drawn'.op = "text" /\ drawn'.at = <<a, str, scale>>
  BY <1>1 DEF G!Draws
<1>5. lit' \subseteq G!Screen /\ G!IsText(lit', a, str, scale)
  BY <1>2, <1>3, <1>4, TextDrawn
<1> QED
  BY <1>4, <1>5 DEF G!LooksAsMeant

LEMMA VolumeLooks ==
  ASSUME G!Volume
  PROVE  G!LooksAsMeant'
<1>1. PICK vol \in 0..255 : G!Draws("volume", <<1, vol>>, G!disp_volume_bar(1, vol))
  BY DEF G!Volume
<1>2. lit' = G!disp_volume_bar(1, vol) /\ drawn'.op = "volume" /\ drawn'.at = <<1, vol>>
  BY <1>1 DEF G!Draws
<1>3. lit' \subseteq G!Screen /\ (vol < 255 => lit' \subseteq G!disp_volume_bar(1, vol + 1))
  BY <1>2, VolumeDrawn
<1> QED
  BY <1>2, <1>3 DEF G!LooksAsMeant

LEMMA BlankLooks == lit = {} /\ drawn = G!Blank => G!LooksAsMeant
<1> SUFFICES ASSUME lit = {}, drawn = G!Blank PROVE G!LooksAsMeant
  OBVIOUS
<1>1. drawn.op = "none"
  BY DEF G!Blank
<1> QED
  BY <1>1 DEF G!LooksAsMeant

LEMMA FillLooks ==
  ASSUME G!Fill
  PROVE  G!LooksAsMeant'
<1>1. lit' = {} /\ drawn'.op = "none"
  BY DEF G!Fill, G!Blank
<1> QED
  BY <1>1 DEF G!LooksAsMeant

LEMMA DrawingSteps ==
  ASSUME G!Next
  PROVE  G!LooksAsMeant'
BY LineLooks, RectangleLooks, TriangleLooks, CircleLooks, TextLooks, VolumeLooks, FillLooks, Zenon DEF G!Next
-----------------------------------------------------------------------------
(* LooksAsMeant: a line, a rectangle, a triangle, a circle, a text and the  *)
(* bar of the volume look as they are meant to, wherever they are drawn and *)
(* however large the panel is (ssd1306.c).                                  *)
THEOREM DrawingCorrect == Spec => []LooksAsMeant
<1>1. Init => LooksAsMeant
  <2> SUFFICES ASSUME Init, active = "drawing" PROVE G!LooksAsMeant
    BY Zenon DEF LooksAsMeant
  <2>1. lit = {} /\ drawn = G!Blank
    BY DEF Init, G!Init
  <2> QED
    BY <2>1, BlankLooks
<1>2. LooksAsMeant /\ [Next]_vars => LooksAsMeant'
  <2> SUFFICES ASSUME LooksAsMeant, [Next]_vars, active' = "drawing" PROVE G!LooksAsMeant'
    BY Zenon DEF LooksAsMeant
  <2>1. CASE UNCHANGED vars
    <3>1. active = "drawing" /\ lit' = lit /\ drawn' = drawn
      BY <2>1 DEF vars, drawingVars
    <3>2. G!LooksAsMeant
      BY <3>1 DEF LooksAsMeant
    <3> QED
      BY <3>1, <3>2, Zenon DEF G!LooksAsMeant
  <2>2. CASE active = "drawing" /\ G!Next
    BY <2>2, DrawingSteps, Zenon
  <2>3. CASE active # "drawing" /\ UNCHANGED active
    BY <2>3
  <2>4. Next => (active = "drawing" /\ G!Next) \/ (active # "drawing" /\ UNCHANGED active)
    BY DEF Next
  <2> QED
    BY <2>1, <2>2, <2>3, <2>4
<1> QED
  BY <1>1, <1>2, PTL DEF Spec
=============================================================================
