--------------------------------- MODULE Ota ---------------------------------
(***************************************************************************)
(* The firmware update, ota.c: upgrade_task downloads an image into the    *)
(* slot that is not running, and upgrade_check, a timer's callback, gives  *)
(* up when that takes too long.                                            *)
(*                                                                         *)
(* The flash is a row of cells, from the first one of the target slot on:  *)
(* SlotSectors sectors of the slot, one that out_of_range lets an erase    *)
(* reach as well, and one of what must stay.  Byte k of the image has the  *)
(* value k.  A checksum is taken to tell an image from everything else.    *)
(***************************************************************************)
EXTENDS Integers, Sequences, SequencesExt

CONSTANTS Word,                \* bytes the flash takes at once: 4
          Sector,              \* SPI_FLASH_SEC_SIZE
          SlotSectors,         \* fw_bin_sec_num
          Lengths,             \* possible lengths of the image
          SegLen,              \* UPGRADE_DATA_SEG_LEN
          UPGRADE_RETRY_TIMES,
          MaxErrors            \* bound: flash errors

OtaAssumption ==
  /\ {Word, Sector, SlotSectors, SegLen, UPGRADE_RETRY_TIMES} \subseteq Nat \ {0}
  /\ Lengths \subseteq Nat /\ MaxErrors \in Nat
  /\ Sector % Word = 0 /\ SegLen <= Sector
  /\ \A n \in Lengths : n > Sector

VARIABLES flash,        \* cell -> value
          image,        \* length of the image the server has
          pc,           \* where upgrade_task is
          retry_count, totallength, sumlength, flash_erased, giveup,
          upgrade,      \* the write state, or NoUpgrade
          flag,         \* system_upgrade_flag
          upgrade_flag, \* server->upgrade_flag
          armed,        \* upgrade_timer
          sent,         \* bytes of the body the server has sent here
          result,       \* what check_cb was told: "none", "ok", "failed"
          clean,        \* history: has this download begun with nothing saved?
          errors        \* history: has a block of this download been dropped? flash errors in all

vars == <<flash, image, pc, retry_count, totallength, sumlength, flash_erased, giveup, upgrade,
          flag, upgrade_flag, armed, sent, result, clean, errors>>

Erased == 0
Old == -1      \* what the slot held before
Junk == -2     \* written over something
Foreign == -3  \* sent by the server after the image
Kept == -4     \* not of this slot

NoUpgrade == [addr |-> -1, save |-> << >>, earse |-> -1]

KeptCells == {c \in DOMAIN flash : c >= (SlotSectors + 1) * Sector}

Body(from, n) == [i \in 1..n |-> IF from + i <= image THEN from + i ELSE Foreign]

SlotHolds(n) == \A k \in 1..n : flash[k - 1] = k

Init ==
  /\ flash = [c \in 0..(SlotSectors + 2) * Sector - 1 |->
                 IF c < (SlotSectors + 1) * Sector THEN Old ELSE Kept]
  /\ image \in Lengths
  /\ pc = "try" /\ retry_count = 1
  /\ totallength = 0 /\ sumlength = 0 /\ flash_erased = FALSE /\ giveup = FALSE
  /\ upgrade = NoUpgrade /\ flag = "idle" /\ upgrade_flag = TRUE /\ armed = TRUE
  /\ sent = 0 /\ result = "none"
  /\ clean = TRUE /\ errors = [now |-> FALSE, all |-> 0]

server == <<image, flag, upgrade_flag, armed, result>>
lengths == <<totallength, sumlength>>

-----------------------------------------------------------------------------
(* After the timeout the buffer and the server's data are freed: the next
   time upgrade_task looks at them the chip may do anything; here it stops. *)
Fault ==
  /\ giveup /\ result # "none"
  /\ pc \in {"request", "read", "check", "write", "erase", "crc"}
  /\ pc' = "fault"
  /\ UNCHANGED <<flash, server, retry_count, lengths, flash_erased, giveup, upgrade, sent,
                 clean, errors>>

Owns == result = "none"

(* The head of the loop, and what follows a try that has failed.           *)
Again(erased) ==
  /\ flash_erased' = erased
  /\ totallength' = 0 /\ sumlength' = 0
  /\ retry_count' = retry_count + 1
  /\ pc' = IF retry_count < UPGRADE_RETRY_TIMES THEN "try" ELSE "crc"

GiveUp ==
  /\ pc = "try" /\ giveup
  /\ pc' = "crc"
  /\ UNCHANGED <<flash, server, retry_count, lengths, flash_erased, giveup, upgrade, sent, clean,
                 errors>>

(* No socket, no connection, or the request cannot be sent: "continue".    *)
ConnectFails ==
  /\ pc \in {"try", "request"} /\ ~giveup /\ Owns
  /\ Again(flash_erased)
  /\ UNCHANGED <<flash, server, giveup, upgrade, sent, clean, errors>>

(* system_upgrade_init: the structure is allocated only once, and what it has
   saved is not touched.                                                   *)
system_upgrade_init ==
  upgrade' = [addr |-> 0, earse |-> 0,
              save |-> IF upgrade = NoUpgrade THEN << >> ELSE upgrade.save]

ConnectSucceeds ==
  /\ pc = "try" /\ ~giveup
  /\ system_upgrade_init
  /\ flag' = "start"
  /\ pc' = "request"
  /\ UNCHANGED <<flash, image, upgrade_flag, armed, result, retry_count, lengths, flash_erased,
                 giveup, sent, clean, errors>>

RequestSent ==
  /\ pc = "request" /\ Owns
  /\ pc' = "read" /\ sent' = 0
  /\ clean' = (upgrade.save = << >>)
  /\ errors' = [errors EXCEPT !.now = FALSE]
  /\ UNCHANGED <<flash, server, retry_count, lengths, flash_erased, giveup, upgrade>>

(* read returns 0 or fails.                                                *)
ReadFails ==
  /\ pc = "read" /\ Owns
  /\ Again(FALSE)
  /\ UNCHANGED <<flash, server, giveup, upgrade, sent, clean, errors>>

(* A first block without a header that can be used.                        *)
NoHeader ==
  /\ pc = "read" /\ Owns /\ totallength = 0
  /\ Again(FALSE)
  /\ UNCHANGED <<flash, server, giveup, upgrade, sent, clean, errors>>

(* The first header: only its length is used, and the sectors are erased.  *)
LearnLength ==
  /\ pc = "read" /\ Owns /\ ~flash_erased
  /\ sumlength' = image
  /\ pc' = "erase"
  /\ UNCHANGED <<flash, server, retry_count, totallength, flash_erased, giveup, upgrade, sent,
                 clean, errors>>

(* What an erase may not touch: one sector of grace.                       *)
out_of_range(sec) == sec > SlotSectors

(* The sectors of n bytes.                                                 *)
SectorsOf(n) == n \div Sector + (IF n % Sector = 0 THEN 0 ELSE 1)

EraseSector ==
  /\ pc = "erase" /\ Owns
  /\ upgrade.earse # SectorsOf(sumlength) /\ ~out_of_range(upgrade.earse)
  /\ flash' = [c \in DOMAIN flash |-> IF c \div Sector = upgrade.earse THEN Erased ELSE flash[c]]
  /\ upgrade' = [upgrade EXCEPT !.earse = @ + 1]
  /\ UNCHANGED <<server, pc, retry_count, lengths, flash_erased, giveup, sent, clean, errors>>

(* All are erased, or the next one is none of the slot's: the connection is
   made again, for the image itself.                                       *)
EraseEnds ==
  /\ pc = "erase" /\ Owns
  /\ upgrade.earse = SectorsOf(sumlength) \/ out_of_range(upgrade.earse)
  /\ Again(TRUE)
  /\ UNCHANGED <<flash, server, giveup, upgrade, sent, clean, errors>>

Overwritten(old, new) == IF old = Erased THEN new ELSE Junk

(* system_upgrade of a block: whole words are programmed behind the last
   ones, the rest is saved.  A block that does not fit, or that the flash
   refuses, is dropped, and the result is not looked at.                   *)
system_upgrade(data) ==
  LET buffer == upgrade.save \o data
      extra == Len(buffer) % Word
      len == Len(buffer) - extra
      fits == upgrade.addr + len < SlotSectors * Sector
  IN  \E written \in BOOLEAN :
        /\ written => fits
        /\ fits /\ ~written => errors.all < MaxErrors
        /\ upgrade' = [upgrade EXCEPT !.save = SubSeq(buffer, len + 1, Len(buffer)),
                                      !.addr = IF written THEN @ + len ELSE @]
        /\ flash' = IF written
                    THEN [c \in DOMAIN flash |->
                            IF c \in upgrade.addr..upgrade.addr + len - 1
                            THEN Overwritten(flash[c], buffer[c - upgrade.addr + 1])
                            ELSE flash[c]]
                    ELSE flash
        /\ errors' = IF written THEN errors
                     ELSE [now |-> TRUE, all |-> errors.all + (IF fits THEN 1 ELSE 0)]

(* upgrade_data_load with the sectors erased: the first block, with the header,
   and the following ones.  What exceeds the length is stripped.           *)
LoadData ==
  /\ pc = "read" /\ Owns /\ flash_erased
  /\ \E n \in 1..SegLen :
        /\ sent + n <= image + 1
        /\ sent' = sent + n
        /\ totallength' = totallength + n
        /\ sumlength' = image
        /\ LET length == IF totallength + n > image THEN image - totallength ELSE n
           IN  IF length = 0 THEN UNCHANGED <<flash, upgrade, errors>>
               ELSE system_upgrade(Body(sent, length))
  /\ pc' = "check"
  /\ UNCHANGED <<server, retry_count, flash_erased, giveup, clean>>

(* wsUpgrade tells the web sockets, and sleeps.  Then: is it all?          *)
DownloadGoesOn ==
  /\ pc = "check" /\ Owns /\ totallength < sumlength
  /\ pc' = "read"
  /\ UNCHANGED <<flash, server, retry_count, lengths, flash_erased, giveup, upgrade, sent, clean,
                 errors>>

DownloadEnds ==
  /\ pc = "check" /\ totallength >= sumlength
  /\ pc' = "crc"
  /\ UNCHANGED <<flash, server, retry_count, lengths, flash_erased, giveup, upgrade, sent, clean,
                 errors>>

(* Mutant: an image too short to have a checksum is not refused.            *)
ShortIsGood == sumlength < Word \/ SlotHolds(sumlength)

(* upgrade_crc_check: an image that is too short fails at once; a failed read
   or allocation is a failure too.                                         *)
upgrade_crc_check == sumlength >= Word /\ SlotHolds(sumlength)

(* finish: the timer is stopped, the image judged, the callback called.  A
   success at the last try counts as a failure.                            *)
Finish ==
  /\ pc = "crc" /\ Owns
  /\ armed' = FALSE
  /\ \E checked \in BOOLEAN :
       LET good == checked /\ upgrade_crc_check /\ retry_count # UPGRADE_RETRY_TIMES
       IN  /\ checked \/ sumlength >= Word
           /\ upgrade_flag' = good
           /\ flag' = IF good THEN "finish" ELSE "idle"
           /\ result' = IF good THEN "ok" ELSE "failed"
  /\ totallength' = 0 /\ sumlength' = 0 /\ flash_erased' = FALSE
  /\ upgrade' = NoUpgrade
  /\ pc' = "done"
  /\ UNCHANGED <<flash, image, retry_count, giveup, sent, clean, errors>>

(* Mutant: the timeout does not call back.                                  *)
CheckSilently ==
  /\ armed /\ pc # "done"
  /\ armed' = FALSE /\ giveup' = TRUE
  /\ totallength' = 0 /\ sumlength' = 0 /\ flash_erased' = FALSE
  /\ upgrade_flag' = FALSE /\ flag' = "idle" /\ upgrade' = NoUpgrade
  /\ UNCHANGED <<flash, image, pc, retry_count, sent, result, clean, errors>>

(* upgrade_check: the time is over.                                        *)
upgrade_check ==
  /\ armed /\ pc # "done"
  /\ armed' = FALSE /\ giveup' = TRUE
  /\ totallength' = 0 /\ sumlength' = 0 /\ flash_erased' = FALSE
  /\ upgrade_flag' = FALSE /\ flag' = "idle" /\ upgrade' = NoUpgrade
  /\ result' = "failed"
  /\ UNCHANGED <<flash, image, pc, retry_count, sent, clean, errors>>

Task ==
  \/ GiveUp \/ ConnectFails \/ ConnectSucceeds \/ RequestSent \/ ReadFails \/ NoHeader
  \/ LearnLength \/ EraseSector \/ EraseEnds \/ LoadData \/ DownloadGoesOn \/ DownloadEnds
  \/ Finish \/ Fault

Next == Task \/ upgrade_check

Spec == Init /\ [][Next]_vars

(* The timer runs; upgrade_task does, but nothing ends a read that waits.  *)
Fairness == WF_vars(upgrade_check) /\ WF_vars(pc # "read" /\ Task)

FairSpec == Spec /\ Fairness

-----------------------------------------------------------------------------
(* Types.                                                                  *)
TypeOK ==
  /\ flash \in [0..(SlotSectors + 2) * Sector - 1 -> -4..image]
  /\ pc \in {"try", "request", "read", "erase", "check", "crc", "done", "fault"}
  /\ retry_count \in 1..UPGRADE_RETRY_TIMES + 1
  /\ totallength \in 0..image + 1 /\ sumlength \in {0, image}
  /\ flash_erased \in BOOLEAN /\ giveup \in BOOLEAN /\ upgrade_flag \in BOOLEAN
  /\ armed \in BOOLEAN /\ clean \in BOOLEAN
  /\ upgrade.addr \in -1..SlotSectors * Sector /\ Len(upgrade.save) < Word
  /\ flag \in {"idle", "start", "finish"} /\ result \in {"none", "ok", "failed"}

(* The new image is announced, and started, only if the slot holds all of it:
   neither a broken-off try, nor a lost block, nor a timeout makes the radio
   boot something else (upgrade_task, finish).                             *)
OnlyWholeImageBoots == flag = "finish" \/ result = "ok" => SlotHolds(image)

(* What is not of the slot stays, whatever length the server announces
   (out_of_range, and the check in system_upgrade).                        *)
OthersKept == \A c \in KeptCells : flash[c] = Kept

(* Bytes come in blocks of any size and are programmed in words: what is in
   the slot and what is saved is what has been received, in order, if nothing
   was left over from a try before and the flash has taken everything.     *)
WrittenInOrder ==
  pc \in {"read", "check"} /\ Owns /\ flash_erased /\ clean /\ ~errors.now
    => LET n == IF totallength > image THEN image ELSE totallength
       IN  /\ upgrade.addr + Len(upgrade.save) = n
           /\ SlotHolds(upgrade.addr)
           /\ \A i \in 1..Len(upgrade.save) : upgrade.save[i] = upgrade.addr + i

(* "select the slot that is not running and reset the write state": a download
   that the flash has taken in full leaves the image in the slot, also if
   tries before it broke off.                                              *)
RetryStartsClean ==
  pc = "crc" /\ Owns /\ sumlength = image /\ totallength >= sumlength /\ ~errors.now
    => SlotHolds(image)
=============================================================================
