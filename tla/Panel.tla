-------------------------------- MODULE Panel -------------------------------
(***************************************************************************)
(* The driver of the display (ssd1306.c): a picture in memory, a copy of   *)
(* what the panel shows, and transfers of what differs.  A transfer may    *)
(* break off at any byte, the panel may be away, and one that comes back   *)
(* has forgotten everything.  One task calls the driver.                   *)
(***************************************************************************)
EXTENDS Integers, Sequences

CONSTANTS
  SSD1306_PAGES, SSD1306_WIDTH,
  Pictures,               \* pictures that are drawn, the first one black
  Contrasts, Rotations,
  SSD1306_RETRY_UPDATES,
  MaxFaults, MaxAway

Pages == 0..SSD1306_PAGES - 1
Columns == 0..SSD1306_WIDTH - 1
Black == [p \in Pages |-> [c \in Columns |-> 0]]

(* What a panel shows that was just switched on.                            *)
Unknown == -1

PanelAssumption ==
  /\ {SSD1306_PAGES, SSD1306_WIDTH, SSD1306_RETRY_UPDATES} \subseteq Nat \ {0}
  /\ Pictures \subseteq [Pages -> [Columns -> Nat]]

VARIABLES
  Buffer, Shadow, ForcePages, Online, Backoff, Initialized, Contrast, Rotation,
  pc,       \* "init" | "page" | "send" | "data" | "idle"
  part,     \* transfer of SSD1306_SendInit that is next
  page,     \* page that SSD1306_UpdateScreen is at
  panel,    \* the panel: its memory, its settings and its cursor
  plugged, whole, unseen, faults, away

(* whole: the panel took every transfer of the last SSD1306_SendInit.        *)
(* unseen: it has been away since that began, and no transfer met it away.  *)
vars == <<Buffer, Shadow, ForcePages, Online, Backoff, Initialized, Contrast,
          Rotation, pc, part, page, panel, plugged, whole, unseen, faults, away>>

SwitchedOn ==
  [ram |-> [p \in Pages |-> [c \in Columns |-> Unknown]], contrast |-> Unknown,
   rotation |-> Unknown, on |-> FALSE, page |-> 0, column |-> 0]

(* What the panel has for a setting when k items of a transfer arrived, the *)
(* i-th of which sets it.                                                   *)
Arrived(k, i, new, old) == IF k >= i THEN new ELSE old

(* SSD1306_I2C_Write: all n items of the transfer arrive, or a part of      *)
(* them; after[k] is the panel that has got k.                              *)
I2C_Write(n, after, ok) ==
  \/ /\ ok /\ plugged
     /\ panel' = after[n]
     /\ UNCHANGED faults
  \/ /\ ~ok /\ plugged /\ faults < MaxFaults
     /\ \E k \in 0..n - 1 : panel' = after[k]
     /\ faults' = faults + 1
  \/ ~ok /\ ~plugged /\ UNCHANGED <<panel, faults>>

Failed ==
  Online' = FALSE /\ Backoff' = SSD1306_RETRY_UPDATES

WriteCommands(n, after, ok) ==
  /\ I2C_Write(n, after, ok)
  /\ IF ok THEN Online' = TRUE /\ UNCHANGED Backoff ELSE Failed
-----------------------------------------------------------------------------
(* The transfers of SSD1306_SendInit, and how many items each has.          *)
InitSizes == <<4, 1, 1>>
InitParts == <<
  [k \in 0..4 |-> [panel EXCEPT !.on = Arrived(k, 1, FALSE, @), !.page = Arrived(k, 2, 0, @),
                                !.column = Arrived(k, 3, 0, @), !.contrast = Arrived(k, 4, Contrast, @)]],
  [k \in 0..1 |-> [panel EXCEPT !.rotation = Arrived(k, 1, Rotation, @)]],
  [k \in 0..1 |-> [panel EXCEPT !.on = Arrived(k, 1, TRUE, @)]] >>

NextPage ==
  IF page = SSD1306_PAGES - 1
    THEN pc' = "idle" /\ page' = 0 /\ Initialized' = TRUE
    ELSE pc' = "page" /\ page' = page + 1 /\ UNCHANGED Initialized

(* Mutant: the copy of what the panel shows outlives a panel that was away. *)
SendInitTrusting ==
  /\ pc = "init"
  /\ \E ok \in BOOLEAN :
       /\ WriteCommands(InitSizes[part], InitParts[part], ok)
       /\ whole' = (ok /\ (part = 1 \/ whole)) /\ unseen' = (part # 1 /\ unseen)
  /\ part' = IF part < 3 THEN part + 1 ELSE 1
  /\ IF part < 3
       THEN UNCHANGED <<pc, page, ForcePages, Initialized, Buffer>>
     ELSE IF ~Initialized \/ Online'
       THEN /\ pc' = IF Initialized THEN "send" ELSE "page"
            /\ Buffer' = IF Initialized THEN Buffer ELSE Black
            /\ UNCHANGED <<page, Initialized, ForcePages>>
       ELSE NextPage /\ UNCHANGED <<ForcePages, Buffer>>
  /\ UNCHANGED <<Shadow, Contrast, Rotation, plugged, away>>

(* SSD1306_SendInit, from SSD1306_Init or because the panel was away: its   *)
(* three transfers, after which every page is to be sent.                   *)
SendInit ==
  /\ pc = "init"
  /\ \E ok \in BOOLEAN :
       /\ WriteCommands(InitSizes[part], InitParts[part], ok)
       /\ whole' = (ok /\ (part = 1 \/ whole)) /\ unseen' = (part # 1 /\ unseen)
  /\ part' = IF part < 3 THEN part + 1 ELSE 1
  /\ IF part < 3
       THEN UNCHANGED <<pc, page, ForcePages, Initialized, Buffer>>
     ELSE IF ~Initialized \/ Online'
       THEN /\ pc' = IF Initialized THEN "send" ELSE "page"
            /\ Buffer' = IF Initialized THEN Buffer ELSE Black
            /\ ForcePages' = Pages
            /\ UNCHANGED <<page, Initialized>>
       ELSE NextPage /\ UNCHANGED <<ForcePages, Buffer>>
  /\ UNCHANGED <<Shadow, Contrast, Rotation, plugged, away>>

(* SSD1306_UpdatePage, its start: a panel that does not answer is left      *)
(* alone for some updates, then brought up again.                           *)
UpdatePage ==
  /\ pc = "page"
  /\ IF Online
       THEN pc' = "send" /\ UNCHANGED <<page, Initialized, Backoff>>
       ELSE /\ Backoff' = IF page = 0 /\ Backoff > 0 THEN Backoff - 1 ELSE Backoff
            /\ IF Backoff' > 0
                 THEN NextPage
                 ELSE pc' = "init" /\ UNCHANGED <<page, Initialized>>
  /\ UNCHANGED <<Buffer, Shadow, ForcePages, Online, Contrast, Rotation, part,
                 panel, plugged, whole, unseen, faults, away>>

(* The columns of a page that are sent: from the first to the last that     *)
(* differs, or all of them.                                                 *)
Changed(p) ==
  IF p \in ForcePages THEN Columns
  ELSE LET differ == {c \in Columns : Buffer[p][c] # Shadow[p][c]}
       IN  {c \in Columns : (\E d \in differ : d <= c) /\ (\E d \in differ : c <= d)}

First(cs) == CHOOSE c \in cs : \A d \in cs : c <= d
Last(cs) == CHOOSE c \in cs : \A d \in cs : d <= c

(* The page, and the column at which the data begins.                       *)
Addressed(first) ==
  [k \in 0..2 |-> [panel EXCEPT !.page = Arrived(k, 1, page, @), !.column = Arrived(k, 2, first, @)]]

SendAddress ==
  /\ pc = "send"
  /\ IF Changed(page) = {}
       THEN NextPage /\ UNCHANGED <<Online, Backoff, panel, faults>>
       ELSE \E ok \in BOOLEAN :
              /\ I2C_Write(2, Addressed(First(Changed(page))), ok)
              /\ IF ok THEN pc' = "data" /\ UNCHANGED <<page, Initialized, Online, Backoff>>
                       ELSE Failed /\ NextPage
  /\ UNCHANGED <<Buffer, Shadow, ForcePages, Contrast, Rotation, part, plugged,
                 whole, unseen, away>>

(* The panel writes where its cursor is, and moves it to the next column.   *)
Written(n, first) ==
  [k \in 0..n |->
     [panel EXCEPT !.ram[panel.page] =
                      [c \in Columns |-> LET i == (c - panel.column) % SSD1306_WIDTH
                                         IN  IF i < k THEN Buffer[page][first + i] ELSE @[c]],
                   !.column = (@ + k) % SSD1306_WIDTH]]

Copied(p) == [c \in Columns |-> IF c \in Changed(p) THEN Buffer[p][c] ELSE Shadow[p][c]]

SendData ==
  /\ pc = "data"
  /\ \E ok \in BOOLEAN :
       /\ LET first == First(Changed(page))
              n == Last(Changed(page)) - first + 1
          IN  I2C_Write(n, Written(n, first), ok)
       /\ IF ok
            THEN /\ Shadow' = [Shadow EXCEPT ![page] = Copied(page)]
                 /\ ForcePages' = ForcePages \ {page}
                 /\ UNCHANGED <<Online, Backoff>>
            ELSE Failed /\ UNCHANGED <<Shadow, ForcePages>>
  /\ NextPage
  /\ UNCHANGED <<Buffer, Contrast, Rotation, part, plugged, whole, unseen, away>>

UpdateScreen ==
  /\ pc = "idle"
  /\ pc' = "page"
  /\ UNCHANGED <<Buffer, Shadow, ForcePages, Online, Backoff, Initialized,
                 Contrast, Rotation, part, page, panel, plugged, whole, unseen, faults, away>>

Draw(picture) ==
  /\ pc = "idle"
  /\ Buffer' = picture
  /\ UNCHANGED <<Shadow, ForcePages, Online, Backoff, Initialized, Contrast,
                 Rotation, pc, part, page, panel, plugged, whole, unseen, faults, away>>

Brighter(contrast) == [k \in 0..1 |-> [panel EXCEPT !.contrast = Arrived(k, 1, contrast, @)]]

SetContrast(contrast) ==
  /\ pc = "idle" /\ contrast # Contrast
  /\ Contrast' = contrast
  /\ IF Online
       THEN \E ok \in BOOLEAN : WriteCommands(1, Brighter(contrast), ok)
       ELSE UNCHANGED <<panel, faults, Online, Backoff>>
  /\ UNCHANGED <<Buffer, Shadow, ForcePages, Initialized, Rotation, pc, part,
                 page, plugged, whole, unseen, away>>

(* The panel loses its supply, and comes back with nothing in it: after a    *)
(* transfer has failed, or before any has, and then the driver goes on.     *)
Vanish ==
  /\ plugged /\ away < MaxAway
  /\ plugged' = FALSE /\ away' = away + 1 /\ panel' = SwitchedOn
  /\ UNCHANGED <<Buffer, Shadow, ForcePages, Online, Backoff, Initialized,
                 Contrast, Rotation, pc, part, page, whole, unseen, faults>>
ComeBack ==
  /\ ~plugged
  /\ plugged' = TRUE /\ unseen' = (unseen \/ Online)
  /\ UNCHANGED <<Buffer, Shadow, ForcePages, Online, Backoff, Initialized,
                 Contrast, Rotation, pc, part, page, panel, whole, faults, away>>

(* displayInit: rotation and contrast are only remembered before the panel  *)
(* is started.                                                              *)
Init ==
  /\ Buffer = Black /\ Shadow = Black
  /\ ForcePages = Pages /\ Online = TRUE /\ Backoff = 0 /\ Initialized = FALSE
  /\ Contrast \in Contrasts /\ Rotation \in Rotations
  /\ pc = "init" /\ part = 1 /\ page = 0
  /\ panel = SwitchedOn /\ plugged \in BOOLEAN
  /\ whole = FALSE /\ unseen = FALSE /\ faults = 0 /\ away = 0

Task ==
  \/ SendInit \/ UpdatePage \/ SendAddress \/ SendData \/ UpdateScreen
Next ==
  \/ Task \/ Vanish \/ ComeBack
  \/ \E picture \in Pictures : Draw(picture)
  \/ \E contrast \in Contrasts : SetContrast(contrast)

(* The task updates the screen again and again, and a panel comes back.     *)
Spec == Init /\ [][Next]_vars /\ WF_vars(Task) /\ WF_vars(ComeBack)
-----------------------------------------------------------------------------
TypeOK ==
  /\ Buffer \in [Pages -> [Columns -> Nat]] /\ Shadow \in [Pages -> [Columns -> Nat]]
  /\ ForcePages \subseteq Pages /\ Online \in BOOLEAN
  /\ Backoff \in 0..SSD1306_RETRY_UPDATES
  /\ page \in Pages /\ part \in 1..3

(* A page that is not marked to be sent is on the panel as the copy has it, *)
(* after whatever broke off, and a panel that was started is as bright and  *)
(* as rotated as was asked last, also while it was away.  That a panel has  *)
(* been away, the driver can only know from a transfer that failed.         *)
PanelAsKnown ==
  pc = "idle" /\ Online /\ plugged /\ ~unseen =>
    /\ \A p \in Pages \ ForcePages : panel.ram[p] = Shadow[p]
    /\ whole => /\ panel.on /\ panel.contrast = Contrast
                /\ panel.rotation = Rotation
=============================================================================
