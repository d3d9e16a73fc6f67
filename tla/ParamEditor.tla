----------------------------- MODULE ParamEditor ----------------------------
(***************************************************************************)
(* The parameter editor (k230_param_server.py): ParamStore serves and      *)
(* replaces the parameter files, one request at a time; the page holds a   *)
(* snapshot, draws a card for each parameter of the open tab and sends one *)
(* PATCH for each change of a card, several cards at once.                 *)
(*                                                                         *)
(* One group of parameters.  Requests are handled in any order, answers    *)
(* arrive in any order or not at all, writes fail, the server restarts     *)
(* with another schema, and another page edits the same file.              *)
(***************************************************************************)
EXTENDS Naturals, FiniteSets

CONSTANTS
  Numbers, Toggles, Sliders,  \* the parameters, by the control their card has
  MaxValue,      \* a value is in 0 .. MaxValue, its limits
  MaxRequests,   \* requests of a behaviour: a bound of the model
  MaxFaults      \* writes that fail, answers that get lost and restarts: the same

Keys == Numbers \cup Toggles \cup Sliders
Values == 0 .. MaxValue
Default == 0            \* params.defaults
Blank == MaxValue + 1   \* a number that is not one

ASSUME EditorAssumption ==
  /\ IsFiniteSet(Keys)
  /\ Numbers \cap Toggles = {} /\ Sliders \cap (Numbers \cup Toggles) = {}
  /\ "all" \notin Keys
  /\ MaxValue \in Nat /\ MaxRequests \in Nat /\ MaxFaults \in Nat

VARIABLES
  file,      \* the parameter file: key -> value
  requests,  \* those under way, with the document read or answered; seen is history, and
             \* stale, whether the page held an old snapshot when the request was made
  sent, faults, \* requests and faults so far
  page,      \* the snapshot, how many writes it has seen, and the tab
  cards,     \* the cards of the open tab
  written,   \* history: number of writes, and the value last written of each key
  doubt      \* history: the page was drawn from, or went back to, an old snapshot,
             \* or somebody else changed the file

editorVars == <<file, requests, sent, faults, page, cards, written, doubt>>

Card(value) == [value |-> value, status |-> ""]
Drawn(params) == [k \in DOMAIN params |-> Card(params[k])]
AllDefault == [k \in Keys |-> Default]

EditorInit ==
  /\ file = AllDefault
  /\ requests = {} /\ sent = 0 /\ faults = 0
  /\ page = [params |-> AllDefault, seen |-> 0, open |-> TRUE]
  /\ cards = Drawn(AllDefault)
  /\ written = [count |-> 0, value |-> AllDefault]
  /\ doubt = FALSE

Replace(r, s) == requests' = (requests \ {r}) \cup {s}

(* What becomes of a request. *)
Working(r) == [r EXCEPT !.stage = "working", !.params = file]
Answered(r, params, seen) == [r EXCEPT !.stage = "answered", !.params = params, !.seen = seen]
Refused(r) == [r EXCEPT !.stage = "refused"]

Old(seen) == seen # written.count

-----------------------------------------------------------------------------
(* ParamStore: a request holds the lock from the read of the document on. *)

Holds(r) == r.stage = "working"
LockIsFree == \A r \in requests : ~Holds(r)

(* update(), up to the write; a key that the file has not is refused. *)
ReadDocument ==
  \E r \in requests :
    /\ r.stage = "sent" /\ r.key # "all" /\ LockIsFree
    /\ Replace(r, IF r.key \in DOMAIN file THEN Working(r) ELSE Refused(r))
    /\ UNCHANGED <<file, sent, faults, page, cards, written, doubt>>

(* _atomic_write(): the whole document, or nothing of it. *)
WriteDocument ==
  \E r \in requests :
    /\ Holds(r)
    /\ \/ LET document == [r.params EXCEPT ![r.key] = r.value]
          IN  /\ file' = document
              /\ Replace(r, Answered(r, document, written.count + 1))
              /\ written' = [count |-> written.count + 1,
                             value |-> [written.value EXCEPT ![r.key] = r.value]]
              /\ UNCHANGED <<faults, doubt>>
       \/ /\ faults < MaxFaults /\ faults' = faults + 1
          /\ Replace(r, Refused(r))
          /\ UNCHANGED <<file, written, doubt>>
    /\ UNCHANGED <<sent, page, cards>>

(* The same for another page, on another phone: the lock makes it one step. *)
OtherUpdate ==
  \E k \in DOMAIN file, value \in Values :
    /\ LockIsFree /\ sent < MaxRequests /\ sent' = sent + 1
    /\ file' = [file EXCEPT ![k] = value]
    /\ written' = [count |-> written.count + 1, value |-> [written.value EXCEPT ![k] = value]]
    /\ doubt' = TRUE
    /\ UNCHANGED <<requests, faults, page, cards>>

(* snapshot() *)
ReadAll ==
  \E r \in requests :
    /\ r.stage = "sent" /\ r.key = "all" /\ LockIsFree
    /\ Replace(r, Answered(r, file, written.count))
    /\ UNCHANGED <<file, sent, faults, page, cards, written, doubt>>

(* A new server: _sync_runtime_schema() adds what the defaults have and    *)
(* the file has not, and removes what they have no more.                   *)
Synced(document, schema) ==
  [k \in schema |-> IF k \in DOMAIN document THEN document[k] ELSE Default]

RestartServer ==
  \E schema \in SUBSET Keys \ {{}} :
    /\ faults < MaxFaults /\ faults' = faults + 1
    /\ file' = Synced(file, schema)
    /\ requests' = {IF r.stage = "answered" THEN r ELSE Refused(r) : r \in requests}
    /\ written' = IF schema = DOMAIN file THEN written
                  ELSE [count |-> written.count + 1,
                        value |-> [k \in Keys |-> IF k \in DOMAIN file' \ DOMAIN file THEN Default
                                                  ELSE written.value[k]]]
    /\ doubt' = (doubt \/ schema # DOMAIN file)
    /\ UNCHANGED <<sent, page, cards>>

-----------------------------------------------------------------------------
(* The page *)

Request(key, value, back, card) ==
  [id |-> sent, key |-> key, value |-> value, back |-> back, card |-> card, stage |-> "sent",
   params |-> <<>>, seen |-> 0, stale |-> Old(page.seen)]

Send(request) ==
  /\ sent < MaxRequests /\ sent' = sent + 1
  /\ requests' = requests \cup {request}

(* The card of a request is gone when the cards are drawn again. *)
Detached(rs) == {IF r.card = "here" THEN [r EXCEPT !.card = "gone"] ELSE r : r \in rs}

InSnapshot(k) == IF k \in DOMAIN page.params THEN page.params[k] ELSE Blank

(* A change of a card's control up to the await of applyValue(): the card  *)
(* is disabled; a toggle moves only when the change is applied.            *)
ChangeCard ==
  \E k \in DOMAIN cards, value \in Values :
    /\ cards[k].status # "busy"
    /\ k \in Toggles => value # cards[k].value
    /\ cards' = [cards EXCEPT ![k] =
         [value |-> IF k \in Toggles THEN @.value ELSE value, status |-> "busy"]]
    /\ Send(Request(k, value, CASE k \in Toggles -> cards[k].value
                                [] k \in Sliders -> InSnapshot(k)
                                [] OTHER -> Blank, "here"))
    /\ UNCHANGED <<file, faults, page, written, doubt>>

(* The rest of applyValue(): the snapshot takes the document that came     *)
(* with the answer.                                                        *)
Applied ==
  \E r \in requests :
    /\ r.stage = "answered" /\ r.key # "all"
    /\ requests' = requests \ {r}
    /\ page' = [page EXCEPT !.params = r.params, !.seen = r.seen]
    /\ cards' = IF r.card = "here"
                THEN [cards EXCEPT ![r.key] = [value |-> r.params[r.key], status |-> "saved"]]
                ELSE cards
    /\ UNCHANGED <<file, sent, faults, written, doubt>>

(* The error of applyValue(): a number goes back to the snapshot as it is, *)
(* a slider to the snapshot as it was, and a toggle has not moved.         *)
WentBack(r) == IF r.key \in Numbers THEN InSnapshot(r.key) ELSE r.back
WentBackToOld(r) ==
  \/ r.key \in Numbers /\ Old(page.seen)
  \/ r.key \in Sliders /\ r.stale

NotApplied ==
  \E r \in requests :
    /\ r.key # "all"
    /\ \/ r.stage = "refused" /\ UNCHANGED faults /\ doubt' = (doubt \/ WentBackToOld(r))
       \/ r.stage = "answered" /\ faults < MaxFaults /\ faults' = faults + 1 /\ doubt' = TRUE
    /\ requests' = requests \ {r}
    /\ cards' = IF r.card = "here"
                THEN [cards EXCEPT ![r.key] = [value |-> WentBack(r), status |-> "failed"]]
                ELSE cards
    /\ UNCHANGED <<file, sent, page, written>>

(* loadParams() *)
Load ==
  /\ Send(Request("all", 0, 0, "gone"))
  /\ UNCHANGED <<file, faults, page, cards, written, doubt>>

Loaded ==
  \E r \in requests :
    /\ r.stage = "answered" /\ r.key = "all"
    /\ page' = [page EXCEPT !.params = r.params, !.seen = r.seen]
    /\ cards' = IF page.open THEN Drawn(r.params) ELSE cards
    /\ requests' = IF page.open THEN Detached(requests \ {r}) ELSE requests \ {r}
    /\ doubt' = IF requests = {r} /\ page.open THEN Old(r.seen)
                ELSE doubt \/ Old(r.seen) \/ requests # {r}
    /\ UNCHANGED <<file, sent, faults, written>>

LoadFails ==
  \E r \in requests :
    /\ r.stage = "refused" /\ r.key = "all"
    /\ requests' = requests \ {r}
    /\ UNCHANGED <<file, sent, faults, page, cards, written, doubt>>

(* Another tab, and this one again: render() draws from the snapshot. *)
ChangeTab ==
  /\ page' = [page EXCEPT !.open = ~@]
  /\ cards' = IF page.open THEN <<>> ELSE Drawn(page.params)
  /\ requests' = Detached(requests)
  /\ doubt' = (doubt \/ (~page.open /\ (Old(page.seen) \/ requests # {})))
  /\ UNCHANGED <<file, sent, faults, written>>

EditorNext ==
  \/ ReadDocument \/ WriteDocument \/ OtherUpdate \/ ReadAll \/ RestartServer
  \/ ChangeCard \/ Applied \/ NotApplied \/ Load \/ Loaded \/ LoadFails \/ ChangeTab

EditorSpec == EditorInit /\ [][EditorNext]_editorVars

-----------------------------------------------------------------------------
(* Properties *)

(* However requests, pages, failures and schemas are mixed, every parameter *)
(* of the file has the value that was last written of it: no update undoes *)
(* another one, and neither does a restart.                                *)
NoChangeIsUndone == \A k \in DOMAIN file : file[k] = written.value[k]

(* When nothing is under way, the cards show the file, in whatever order   *)
(* the answers came: unless they were drawn from a snapshot that an older  *)
(* answer had replaced, an answer got lost, or somebody else wrote.        *)
PageShowsFile ==
  requests = {} /\ ~doubt => \A k \in DOMAIN cards : k \in DOMAIN file /\ cards[k].value = file[k]

EditorIsRight == NoChangeIsUndone /\ PageShowsFile

-----------------------------------------------------------------------------
(* What keeps these *)

IsDocument(d) == DOMAIN d \subseteq Keys /\ d \in [DOMAIN d -> Values]

RequestTypeOK(r) ==
  /\ r = [id |-> r.id, key |-> r.key, value |-> r.value, back |-> r.back, card |-> r.card,
          stage |-> r.stage, params |-> r.params, seen |-> r.seen, stale |-> r.stale]
  /\ r.key \in Keys \cup {"all"} /\ r.value \in Values /\ r.back \in Values \cup {Blank}
  /\ r.card \in {"here", "gone"} /\ r.stage \in {"sent", "working", "answered", "refused"}

EditorTypeOK ==
  /\ IsDocument(file)
  /\ page = [params |-> page.params, seen |-> page.seen, open |-> page.open]
  /\ IsDocument(page.params) /\ page.seen \in Nat /\ page.open \in BOOLEAN
  /\ DOMAIN cards \subseteq Keys
  /\ cards \in [DOMAIN cards -> [value : Values \cup {Blank}, status : {"", "busy", "saved", "failed"}]]
  /\ written \in [count : Nat, value : [Keys -> Values]]
  /\ doubt \in BOOLEAN
  /\ \A r \in requests : RequestTypeOK(r)

(* The lock: one request works at a time, on the file as it is.            *)
LockIsKept ==
  \A r \in requests : Holds(r) =>
    /\ r.key \in DOMAIN file /\ r.params = file
    /\ \A s \in requests : Holds(s) => r = s

(* A document that has seen every write is the file.                       *)
IsSeen(params, seen) ==
  seen \in 0 .. written.count /\ (~Old(seen) => params = file)

SnapshotsAreSeen ==
  /\ IsSeen(page.params, page.seen)
  /\ \A r \in requests : r.stage = "answered" =>
       /\ IsDocument(r.params) /\ IsSeen(r.params, r.seen)
       /\ r.key # "all" => r.key \in DOMAIN r.params

(* A request of a page that is not in doubt is of a card that waits for it *)
(* alone, and will leave it with the value of the file.                    *)
WaitsFor(r) ==
  /\ r.card = "here"
  /\ r.key \in DOMAIN cards /\ cards[r.key].status = "busy"
  /\ \A s \in requests : s.key = r.key => s = r
  /\ IF r.stage = "answered" THEN r.params[r.key] = file[r.key]
     ELSE r.key \in Toggles \/ (r.key \in Sliders /\ ~r.stale) => r.back = file[r.key]

CardsAreTrue ==
  /\ ~page.open => cards = <<>> /\ \A r \in requests : r.card = "gone"
  /\ page.open /\ ~doubt =>
       /\ DOMAIN cards \subseteq DOMAIN file
       /\ \A r \in requests : r.key # "all" => WaitsFor(r)
       /\ \A k \in DOMAIN cards : (\A r \in requests : r.key # k) => cards[k].value = file[k]

EditorInv == EditorTypeOK /\ NoChangeIsUndone /\ LockIsKept /\ SnapshotsAreSeen /\ CardsAreTrue
=============================================================================
