--------------------------- MODULE BookWebProofs ---------------------------
(***************************************************************************)
(* The parts of Book Smartz on the web that keep their own state: the      *)
(* private profile, the catalog and the diagnostics, for any readers,      *)
(* texts, works, limits and bounds.                                        *)
(*                                                                         *)
(* Profile: a save id is minted by one page, for one reader and one        *)
(* revision, and every page and every row that names it agrees with that   *)
(* page.  A row that has an outcome keeps it, and the text a request       *)
(* applies is the one its row was prepared with.  So an outcome once told  *)
(* stays true, saves are applied one after the other, and every text on a  *)
(* page was typed by the reader of that page.                              *)
(*                                                                         *)
(* Catalog: whoever admits holds the advisory lock, so that what it counts *)
(* is what was admitted in the window, and a request goes to the provider  *)
(* with a permit of its own.  What a lookup has read of a work stays in    *)
(* the cache or in the answer for as long as the work is not evicted.      *)
(*                                                                         *)
(* Diagnostics: the counters add up at every step, and the first barrier   *)
(* is the last of the queue, so that nothing accepted is behind it.        *)
(***************************************************************************)
EXTENDS BookWeb, TLAPS, FiniteSetTheorems

-----------------------------------------------------------------------------
(* The inductive invariant, its parts over the values they relate.         *)

Account == Readers \cup {NoReader}
Text == [by : Account, text : Texts \cup {"none", "", "imported"}]
AnOffer == [id : Nat, revision : Nat]
AForm == [session : 0 .. MaxLogins, reader : Readers, offer : AnOffer, checking : AnOffer,
          recovery : Nat, text : Text]
Terminal == {"saved", "conflict", "failed"}
ARow == [owner : Account, revision : Nat, text : Text,
         outcome : Terminal \cup {"pending", "none"}, acknowledged : BOOLEAN]
ADraft == [present : BOOLEAN, session : 0 .. MaxLogins, text : Text, checking : AnOffer]
ATask == [pc : {"idle", "save", "check", "discard", "apply", "acknowledge"}, page : Nat,
          text : Text, command : {"none", "save", "check", "discard"}]

TypeOK ==
    /\ profiles \in [Readers -> [text : Text, revision : Nat, imported : BOOLEAN]]
    /\ submissions \in [1 .. MaxPages -> ARow]
    /\ pages \in Seq(AForm) /\ Len(pages) <= MaxPages
    /\ drafts \in [1 .. MaxPages -> ADraft]
    /\ sessions \in [0 .. MaxLogins -> Account]
    /\ cookie \in 0 .. MaxLogins
    /\ logins \in Seq([open : BOOLEAN, draft : 0 .. MaxPages]) /\ Len(logins) <= MaxLogins
    /\ tasks \in [Slots -> ATask]

\* A text its reader may be shown.
Own(text, r) == text.by \in {r, NoReader}

\* A save id with its revision, as the page that introduced it has it.
Minted(ps, offer, r) ==
    offer.id \in 1 .. Len(ps) /\ ps[offer.id].offer = offer /\ ps[offer.id].reader = r

PageSound(ps, form) ==
    /\ Minted(ps, form.offer, form.reader)
    /\ form.checking # NoOffer => Minted(ps, form.checking, form.reader)
    /\ form.text # NoText /\ Own(form.text, form.reader)

\* A save: who, on which revision, what; without a text it was only closed.
RowSound(ps, id, row) ==
    IF row.outcome = "none" THEN row = NoRow
    ELSE /\ Minted(ps, Offer(id, row.revision), row.owner)
         /\ Own(row.text, row.owner)
         /\ row.text = NoText => row.outcome = "failed" /\ row.acknowledged

DraftSound(ps, n, draft) ==
    /\ Own(draft.text, ps[n].reader)
    /\ draft.checking # NoOffer => Minted(ps, draft.checking, ps[n].reader)

TargetOf(ps, t) ==
    IF t.command = "check" THEN Or(ps[t.page].checking, ps[t.page].offer) ELSE ps[t.page].offer

TaskSound(ps, rows, t) ==
    t.pc # "idle" =>
        /\ t.page \in 1 .. Len(ps)
        /\ t.text # NoText /\ Own(t.text, ps[t.page].reader)
        /\ t.pc \in {"save", "apply"} => t.command = "save"
        /\ t.pc = "apply" => rows[ps[t.page].offer.id].outcome # "none"
                             /\ rows[ps[t.page].offer.id].text = t.text
        /\ t.pc = "acknowledge" => rows[TargetOf(ps, t).id].outcome \in Terminal

PagesSound == \A n \in 1 .. Len(pages) : PageSound(pages, pages[n])
RowsSound == \A id \in 1 .. MaxPages : RowSound(pages, id, submissions[id])
DraftsSound == \A n \in 1 .. Len(pages) : DraftSound(pages, n, drafts[n])
TasksSound == \A s \in Slots : TaskSound(pages, submissions, tasks[s])

\* What was told was final.
ToldSound ==
    \A t \in told : /\ t.id \in 1 .. MaxPages
                    /\ t.outcome \in Terminal
                    /\ submissions[t.id].outcome = t.outcome

\* A profile that was ever saved takes no name from a sign-in.
ProfilesSound ==
    \A r \in Readers : /\ Own(profiles[r].text, r) /\ profiles[r].text # NoText
                       /\ profiles[r].revision > 0 => profiles[r].imported

IInv == /\ TypeOK /\ PagesSound /\ RowsSound /\ DraftsSound /\ TasksSound
        /\ ToldSound /\ ProfilesSound /\ SavesAreSerial

-----------------------------------------------------------------------------
(* The constants of the types.                                             *)

LEMMA TextTypes ==
  /\ NoText \in Text /\ Blank \in Text /\ Blank # NoText
  /\ \A r \in Readers : Imported(r) \in Text /\ Imported(r) # NoText /\ Imported(r).by = r
  /\ NoText.by = NoReader /\ Blank.by = NoReader
  BY ReadersAssumption DEF Text, Account, NoText, Blank, Imported, NoReader

LEMMA ConstantTypes ==
  /\ NoOffer \in AnOffer /\ NoOffer.id = 0
  /\ NoRow \in ARow /\ NoRow.outcome = "none" /\ NoRow.acknowledged
  /\ NoDraft \in ADraft /\ NoDraft.text = NoText /\ NoDraft.checking = NoOffer
  /\ Idle \in ATask /\ Idle.pc = "idle"
<1>1. NoOffer \in AnOffer /\ NoOffer.id = 0
  BY DEF NoOffer, Offer, AnOffer
<1>2. NoRow \in ARow /\ NoRow.outcome = "none" /\ NoRow.acknowledged
  BY TextTypes DEF NoRow, ARow, Account
<1>3. NoDraft \in ADraft /\ NoDraft.text = NoText /\ NoDraft.checking = NoOffer
  BY <1>1, TextTypes, BoundsAssumption DEF NoDraft, ADraft
<1>4. Idle \in ATask /\ Idle.pc = "idle"
  BY TextTypes DEF Idle, ATask
<1> QED
  BY <1>1, <1>2, <1>3, <1>4

LEMMA OfferTypes ==
  ASSUME NEW id \in Nat, NEW revision \in Nat
  PROVE  /\ Offer(id, revision) \in AnOffer
         /\ Offer(id, revision).id = id /\ Offer(id, revision).revision = revision
  BY DEF Offer, AnOffer

-----------------------------------------------------------------------------
(* Pages are only added.                                                   *)

Longer(ps, qs) == Len(ps) <= Len(qs) /\ \A n \in 1 .. Len(ps) : qs[n] = ps[n]

LEMMA LongerKeeps ==
  ASSUME NEW ps \in Seq(AForm), NEW qs \in Seq(AForm), Longer(ps, qs)
  PROVE  /\ \A offer, r : Minted(ps, offer, r) => Minted(qs, offer, r)
         /\ \A form : PageSound(ps, form) => PageSound(qs, form)
         /\ \A id, row : RowSound(ps, id, row) => RowSound(qs, id, row)
         /\ \A n \in 1 .. Len(ps) : \A draft : DraftSound(ps, n, draft) => DraftSound(qs, n, draft)
         /\ \A rows, t : TaskSound(ps, rows, t) => TaskSound(qs, rows, t)
<1>1. Len(ps) \in Nat /\ Len(qs) \in Nat /\ 1 .. Len(ps) \subseteq 1 .. Len(qs)
  BY DEF Longer
<1>2. \A offer, r : Minted(ps, offer, r) => Minted(qs, offer, r)
  BY <1>1 DEF Longer, Minted
<1>3. \A form : PageSound(ps, form) => PageSound(qs, form)
  BY <1>2 DEF PageSound
<1>4. \A id, row : RowSound(ps, id, row) => RowSound(qs, id, row)
  BY <1>2 DEF RowSound
<1>5. \A n \in 1 .. Len(ps) : \A draft : DraftSound(ps, n, draft) => DraftSound(qs, n, draft)
  BY <1>2 DEF DraftSound, Longer
<1>6. ASSUME NEW rows, NEW t, TaskSound(ps, rows, t) PROVE TaskSound(qs, rows, t)
  <2>1. CASE t.pc = "idle"
    BY <2>1 DEF TaskSound
  <2>2. CASE t.pc # "idle"
    <3>1. t.page \in 1 .. Len(ps) /\ qs[t.page] = ps[t.page]
      BY <1>6, <2>2 DEF TaskSound, Longer
    <3>2. TargetOf(qs, t) = TargetOf(ps, t)
      BY <3>1 DEF TargetOf
    <3> QED
      BY <1>1, <1>6, <2>2, <3>1, <3>2 DEF TaskSound
  <2> QED
    BY <2>1, <2>2
<1> QED
  BY <1>2, <1>3, <1>4, <1>5, <1>6

LEMMA LongerSame ==
  ASSUME NEW ps \in Seq(AForm) PROVE Longer(ps, ps)
  BY DEF Longer

LEMMA LongerAppend ==
  ASSUME NEW ps \in Seq(AForm), NEW form \in AForm
  PROVE  /\ Append(ps, form) \in Seq(AForm) /\ Len(Append(ps, form)) = Len(ps) + 1
         /\ Append(ps, form)[Len(ps) + 1] = form
         /\ Longer(ps, Append(ps, form))
  BY DEF Longer

\* A form that can be shown: its save id is new, or one of its reader's.
Ready(form) ==
    /\ form \in AForm
    /\ form.offer.id = New \/ Minted(pages, form.offer, form.reader)
    /\ form.checking # NoOffer => Minted(pages, form.checking, form.reader)
    /\ form.text # NoText /\ Own(form.text, form.reader)

RowsOfDraftsSound(rows) ==
    /\ rows \in [1 .. MaxPages -> ADraft]
    /\ \A n \in 1 .. Len(pages) : DraftSound(pages, n, rows[n])

\* The pages and drafts after a step.
PagesKept ==
    /\ pages' \in Seq(AForm) /\ Len(pages)' <= MaxPages
    /\ Longer(pages, pages')
    /\ \A n \in 1 .. Len(pages') : PageSound(pages', pages'[n])
    /\ drafts' \in [1 .. MaxPages -> ADraft]
    /\ \A n \in 1 .. Len(pages') : DraftSound(pages', n, drafts'[n])

LEMMA NotRendered ==
  ASSUME TypeOK, PagesSound, pages' = pages, RowsOfDraftsSound(drafts')
  PROVE  PagesKept
<1>1. pages \in Seq(AForm) /\ Len(pages) <= MaxPages
  BY DEF TypeOK
<1>2. Longer(pages, pages)
  BY <1>1, LongerSame
<1> QED
  BY <1>1, <1>2 DEF PagesKept, PagesSound, RowsOfDraftsSound

LEMMA Rendered ==
  ASSUME TypeOK, PagesSound, NEW session \in 0 .. MaxLogins, NEW form, Ready(form),
         NEW rows, RowsOfDraftsSound(rows), render(session, form, rows)
  PROVE  PagesKept
<1>1. /\ pages \in Seq(AForm) /\ Len(pages) <= MaxPages /\ Len(pages) \in Nat
      /\ rows \in [1 .. MaxPages -> ADraft] /\ MaxPages \in Nat
  BY BoundsAssumption DEF TypeOK, RowsOfDraftsSound
<1>2. CASE ~Shown(session)
  <2>1. pages' = pages /\ drafts' = rows
    BY <1>2 DEF render
  <2> QED
    BY <2>1, NotRendered
<1>3. CASE Shown(session)
  <2> DEFINE new == Append(pages, form)
             k == Len(pages) + 1
             row == [NoDraft EXCEPT !.present = TRUE, !.session = session]
  <2>1. pages' = new /\ drafts' = [rows EXCEPT ![k] = row] /\ Len(pages) < MaxPages
    BY <1>3 DEF render, New, Shown
  <2>2. /\ new \in Seq(AForm) /\ Len(new) = k /\ new[k] = form /\ Longer(pages, new)
    BY <1>1, LongerAppend DEF Ready
  <2>3. row \in ADraft /\ row.text = NoText /\ row.checking = NoOffer
    BY ConstantTypes DEF ADraft
  <2> HIDE DEF new, row
  <2>4. /\ \A offer, r : Minted(pages, offer, r) => Minted(new, offer, r)
        /\ \A f : PageSound(pages, f) => PageSound(new, f)
        /\ \A n \in 1 .. Len(pages) : \A d : DraftSound(pages, n, d) => DraftSound(new, n, d)
    BY <1>1, <2>2, LongerKeeps
  <2>5. /\ k \in 1 .. MaxPages /\ Len(new) <= MaxPages
        /\ \A n \in 1 .. Len(new) : n \in 1 .. Len(pages) \/ n = k
        /\ \A n \in 1 .. Len(pages) : n # k /\ n \in 1 .. MaxPages
        /\ k \in 1 .. Len(new)
    BY <1>1, <2>1, <2>2
  <2>6. PageSound(new, form)
    BY <2>2, <2>4, <2>5 DEF Ready, PageSound, Minted, New
  <2>7. \A n \in 1 .. Len(new) : PageSound(new, new[n])
    BY <2>2, <2>4, <2>5, <2>6 DEF PagesSound, Longer
  <2>8. DraftSound(new, k, row)
    BY <2>3, TextTypes DEF DraftSound, Own
  <2>9. drafts' \in [1 .. MaxPages -> ADraft]
    BY <1>1, <2>1, <2>3
  <2>10. \A n \in 1 .. Len(new) : DraftSound(new, n, drafts'[n])
    <3>1. drafts'[k] = row /\ \A n \in 1 .. Len(pages) : drafts'[n] = rows[n]
      BY <1>1, <2>1, <2>5
    <3>2. \A n \in 1 .. Len(pages) : DraftSound(new, n, rows[n])
      BY <2>4 DEF RowsOfDraftsSound
    <3> QED
      BY <2>5, <2>8, <3>1, <3>2
  <2> QED
    BY <2>1, <2>2, <2>5, <2>7, <2>9, <2>10 DEF PagesKept
<1> QED
  BY <1>2, <1>3

-----------------------------------------------------------------------------
(* Saves only go forward.                                                  *)

\* A save keeps its reader, revision and text, and its outcome once it has one.
Evolves(old, new) ==
    old.outcome # "none" =>
        /\ new.owner = old.owner /\ new.revision = old.revision /\ new.text = old.text
        /\ new.outcome # "none"
        /\ old.outcome \in Terminal => new.outcome = old.outcome

RowsEvolve ==
    /\ submissions' \in [1 .. MaxPages -> ARow]
    /\ \A id \in 1 .. MaxPages : /\ Evolves(submissions[id], submissions'[id])
                                 /\ RowSound(pages, id, submissions'[id])

\* No save is applied.
NoneSaved ==
    \A id \in 1 .. MaxPages : submissions'[id].outcome = "saved" => submissions[id].outcome = "saved"

LEMMA RowsSame ==
  ASSUME TypeOK, RowsSound, submissions' = submissions PROVE RowsEvolve /\ NoneSaved
  BY DEF TypeOK, RowsSound, RowsEvolve, NoneSaved, Evolves

\* One row changes.
LEMMA OneRow ==
  ASSUME TypeOK, RowsSound, NEW id \in 1 .. MaxPages, NEW row \in ARow,
         submissions' = [submissions EXCEPT ![id] = row],
         Evolves(submissions[id], row), RowSound(pages, id, row)
  PROVE  /\ RowsEvolve
         /\ (row.outcome = "saved" => submissions[id].outcome = "saved") => NoneSaved
         /\ submissions'[id] = row
<1>1. submissions' \in [1 .. MaxPages -> ARow] /\ submissions'[id] = row
  BY DEF TypeOK
<1>2. \A k \in 1 .. MaxPages : k # id => submissions'[k] = submissions[k]
  BY DEF TypeOK
<1>3. \A k \in 1 .. MaxPages : Evolves(submissions[k], submissions[k])
  BY DEF Evolves
<1> QED
  BY <1>1, <1>2, <1>3 DEF RowsEvolve, RowsSound, NoneSaved

LEMMA SerialKept ==
  ASSUME TypeOK, SavesAreSerial, RowsEvolve, NoneSaved, profiles' = profiles
  PROVE  SavesAreSerial'
<1>1. /\ DOMAIN submissions = 1 .. MaxPages /\ DOMAIN submissions' = 1 .. MaxPages
  BY DEF TypeOK, RowsEvolve
<1>2. ASSUME NEW id \in 1 .. MaxPages
      PROVE  /\ submissions'[id].outcome = "saved" <=> submissions[id].outcome = "saved"
             /\ submissions[id].outcome = "saved" =>
                   /\ submissions'[id].owner = submissions[id].owner
                   /\ submissions'[id].revision = submissions[id].revision
                   /\ submissions'[id].text = submissions[id].text
  BY DEF RowsEvolve, NoneSaved, Evolves, Terminal
<1>3. ASSUME NEW r \in Readers
      PROVE  /\ SavesOf(r)' = SavesOf(r)
             /\ \A id \in SavesOf(r) : /\ submissions'[id].revision = submissions[id].revision
                                       /\ submissions'[id].text = submissions[id].text
  BY <1>1, <1>2 DEF SavesOf
<1>4. ASSUME NEW r \in Readers
      PROVE  {submissions'[id].revision : id \in SavesOf(r)'}
                = {submissions[id].revision : id \in SavesOf(r)}
  BY <1>3
<1> QED
  BY <1>3, <1>4 DEF SavesAreSerial

\* The tasks and what was told, after rows evolved and a page was shown.
LEMMA TaskKept ==
  ASSUME IInv, RowsEvolve, PagesKept, NEW t \in ATask, TaskSound(pages, submissions, t)
  PROVE  TaskSound(pages', submissions', t)
<1>1. TaskSound(pages, submissions', t)
  <2>1. CASE t.pc = "idle"
    BY <2>1 DEF TaskSound
  <2>2. CASE t.pc # "idle"
    <3> DEFINE form == pages[t.page]
               offer == form.offer
               target == TargetOf(pages, t)
    <3>1. t.page \in 1 .. Len(pages)
      BY <2>2 DEF TaskSound
    <3>2. PageSound(pages, form)
      BY <3>1 DEF IInv, PagesSound
    <3>3. offer.id \in 1 .. Len(pages) /\ target.id \in 1 .. Len(pages)
      BY <3>2 DEF PageSound, Minted, TargetOf, Or
    <3>4. Len(pages) \in Nat /\ Len(pages) <= MaxPages /\ MaxPages \in Nat
      BY BoundsAssumption DEF IInv, TypeOK
    <3>5. offer.id \in 1 .. MaxPages /\ target.id \in 1 .. MaxPages
      BY <3>3, <3>4
    <3>6. /\ Evolves(submissions[offer.id], submissions'[offer.id])
          /\ Evolves(submissions[target.id], submissions'[target.id])
      BY <3>5 DEF RowsEvolve
    <3>7. /\ submissions[offer.id].outcome # "none" =>
               /\ submissions'[offer.id].outcome # "none"
               /\ submissions'[offer.id].text = submissions[offer.id].text
          /\ submissions[target.id].outcome \in Terminal => submissions'[target.id].outcome \in Terminal
      BY <3>6 DEF Evolves, Terminal
    <3> QED
      BY <2>2, <3>7 DEF TaskSound
  <2> QED
    BY <2>1, <2>2
<1> QED
  BY <1>1, LongerKeeps DEF IInv, TypeOK, PagesKept

LEMMA ToldKept ==
  ASSUME IInv, RowsEvolve, NEW t \in told
  PROVE  t.id \in 1 .. MaxPages /\ t.outcome \in Terminal /\ submissions'[t.id].outcome = t.outcome
<1>1. t.id \in 1 .. MaxPages /\ t.outcome \in Terminal /\ submissions[t.id].outcome = t.outcome
  BY DEF IInv, ToldSound
<1>2. Evolves(submissions[t.id], submissions'[t.id])
  BY <1>1 DEF RowsEvolve
<1> QED
  BY <1>1, <1>2 DEF Evolves, Terminal

\* What every step shows.
LEMMA StepInv ==
  ASSUME IInv, RowsEvolve, PagesKept,
         profiles' \in [Readers -> [text : Text, revision : Nat, imported : BOOLEAN]],
         sessions' \in [0 .. MaxLogins -> Account], cookie' \in 0 .. MaxLogins,
         logins' \in Seq([open : BOOLEAN, draft : 0 .. MaxPages]), Len(logins') <= MaxLogins,
         tasks' \in [Slots -> ATask],
         \A s \in Slots : tasks'[s] = tasks[s] \/ TaskSound(pages', submissions', tasks'[s]),
         \A t \in told' : \/ t \in told
                          \/ /\ t.id \in 1 .. MaxPages /\ t.outcome \in Terminal
                             /\ submissions'[t.id].outcome = t.outcome,
         ProfilesSound', SavesAreSerial'
  PROVE  IInv'
<1>1. TypeOK'
  BY DEF TypeOK, PagesKept, RowsEvolve
<1>2. PagesSound' /\ DraftsSound'
  BY DEF PagesKept, PagesSound, DraftsSound
<1>3. RowsSound'
  <2>1. \A id, row : RowSound(pages, id, row) => RowSound(pages', id, row)
    BY LongerKeeps DEF IInv, TypeOK, PagesKept
  <2> QED
    BY <2>1 DEF RowsEvolve, RowsSound
<1>4. TasksSound'
  <2>1. ASSUME NEW s \in Slots PROVE TaskSound(pages', submissions', tasks'[s])
    <3>1. tasks[s] \in ATask /\ TaskSound(pages, submissions, tasks[s])
      BY DEF IInv, TypeOK, TasksSound
    <3> QED
      BY <3>1, TaskKept
  <2> QED
    BY <2>1 DEF TasksSound
<1>5. ToldSound'
  BY ToldKept DEF ToldSound
<1> QED
  BY <1>1, <1>2, <1>3, <1>4, <1>5 DEF IInv

\* A step that leaves profiles and sessions alone and applies no save.
LEMMA QuietInv ==
  ASSUME IInv, RowsEvolve, NoneSaved, PagesKept, UNCHANGED <<profiles, sessions, cookie, logins>>,
         tasks' \in [Slots -> ATask],
         \A s \in Slots : tasks'[s] = tasks[s] \/ TaskSound(pages', submissions', tasks'[s]),
         \A t \in told' : \/ t \in told
                          \/ /\ t.id \in 1 .. MaxPages /\ t.outcome \in Terminal
                             /\ submissions'[t.id].outcome = t.outcome
  PROVE  IInv'
<1>1. SavesAreSerial'
  BY SerialKept DEF IInv
<1>2. ProfilesSound'
  BY DEF IInv, ProfilesSound
<1>3. /\ profiles' \in [Readers -> [text : Text, revision : Nat, imported : BOOLEAN]]
      /\ sessions' \in [0 .. MaxLogins -> Account] /\ cookie' \in 0 .. MaxLogins
      /\ logins' \in Seq([open : BOOLEAN, draft : 0 .. MaxPages]) /\ Len(logins') <= MaxLogins
  BY DEF IInv, TypeOK
<1> QED
  BY <1>1, <1>2, <1>3, StepInv

-----------------------------------------------------------------------------
(* Forms.                                                                  *)

LEMMA PageFacts ==
  ASSUME IInv, NEW n \in 1 .. Len(pages)
  PROVE  /\ pages[n] \in AForm /\ PageSound(pages, pages[n]) /\ n \in 1 .. MaxPages
         /\ pages[n].offer.id \in 1 .. MaxPages
         /\ pages[n].checking # NoOffer => pages[n].checking.id \in 1 .. MaxPages
         /\ drafts[n] \in ADraft /\ DraftSound(pages, n, drafts[n])
<1>1. pages \in Seq(AForm) /\ Len(pages) \in Nat /\ Len(pages) <= MaxPages /\ MaxPages \in Nat
  BY BoundsAssumption DEF IInv, TypeOK
<1>2. pages[n] \in AForm /\ 1 .. Len(pages) \subseteq 1 .. MaxPages
  BY <1>1
<1>3. PageSound(pages, pages[n]) /\ DraftSound(pages, n, drafts[n])
  BY DEF IInv, PagesSound, DraftsSound
<1>4. drafts[n] \in ADraft
  BY <1>2 DEF IInv, TypeOK
<1> QED
  BY <1>2, <1>3, <1>4 DEF PageSound, Minted

LEMMA ProfileFacts ==
  ASSUME IInv, NEW r \in Readers
  PROVE  /\ profiles[r].revision \in Nat /\ profiles[r].text \in Text
         /\ profiles[r].imported \in BOOLEAN
         /\ profiles[r].text # NoText /\ Own(profiles[r].text, r)
<1>1. profiles[r] \in [text : Text, revision : Nat, imported : BOOLEAN]
  BY DEF IInv, TypeOK
<1> QED
  BY <1>1 DEF IInv, ProfilesSound

LEMMA NewTypes ==
  ASSUME IInv PROVE New \in Nat /\ New # 0 /\ pages \in Seq(AForm) /\ Len(pages) \in Nat
  BY DEF IInv, TypeOK, New

LEMMA FormFacts ==
  ASSUME NEW session \in 0 .. MaxLogins, NEW r \in Readers, NEW offer \in AnOffer,
         NEW checking \in AnOffer, NEW recovery \in Nat, NEW text \in Text,
         NEW form, form = Form(session, r, offer, checking, recovery, text)
  PROVE  /\ form \in AForm /\ form.session = session /\ form.reader = r /\ form.offer = offer
         /\ form.checking = checking /\ form.recovery = recovery /\ form.text = text
  BY DEF Form, AForm

LEMMA FreshReady ==
  ASSUME IInv, NEW session \in 0 .. MaxLogins, NEW r \in Readers
  PROVE  Ready(Fresh(session, r))
<1> DEFINE form == Fresh(session, r)
           offer == Offer(New, profiles[r].revision)
           text == profiles[r].text
<1>1. offer \in AnOffer /\ offer.id = New /\ NoOffer \in AnOffer /\ text \in Text
  BY NewTypes, ProfileFacts, OfferTypes, ConstantTypes
<1>2. form = Form(session, r, offer, NoOffer, 0, text)
  BY DEF Fresh
<1> HIDE DEF form, offer, text
<1>3. /\ form \in AForm /\ form.reader = r /\ form.offer = offer
      /\ form.checking = NoOffer /\ form.text = text
  BY <1>1, <1>2, FormFacts
<1>4. text # NoText /\ Own(text, r)
  BY ProfileFacts DEF text
<1> QED
  BY <1>1, <1>3, <1>4 DEF Ready, form

\* The open save of a reader.
LEMMA PendingFacts ==
  ASSUME IInv, NEW r \in Readers, NEW offer, offer = PendingOffer(r)
  PROVE  /\ offer \in AnOffer
         /\ offer # NoOffer => /\ Minted(pages, offer, r) /\ offer.id \in 1 .. MaxPages
                               /\ submissions[offer.id].text \in Text
                               /\ submissions[offer.id].text # NoText
                               /\ Own(submissions[offer.id].text, r)
<1>1. CASE Pending(r) = {}
  BY <1>1, ConstantTypes DEF PendingOffer
<1>2. CASE Pending(r) # {}
  <2> DEFINE id == CHOOSE k \in Pending(r) : TRUE
  <2>1. id \in Pending(r)
    BY <1>2
  <2>2. offer = Offer(id, submissions[id].revision)
    BY <1>2 DEF PendingOffer, OfferOf
  <2> HIDE DEF id
  <2>3. /\ id \in 1 .. MaxPages /\ submissions[id] \in ARow /\ submissions[id].owner = r
        /\ ~submissions[id].acknowledged
    BY <2>1 DEF Pending, IInv, TypeOK
  <2>4. /\ submissions[id].revision \in Nat /\ submissions[id].text \in Text /\ id \in Nat
    BY <2>3, BoundsAssumption DEF ARow
  <2>5. RowSound(pages, id, submissions[id]) /\ submissions[id].outcome # "none"
    BY <2>3, ConstantTypes DEF IInv, RowsSound, RowSound
  <2>6. offer \in AnOffer /\ offer.id = id
    BY <2>2, <2>4, OfferTypes
  <2> QED
    BY <2>2, <2>3, <2>4, <2>5, <2>6 DEF RowSound
<1> QED
  BY <1>1, <1>2

\* A task at work, its page and the save it is about.
LEMMA WorkFacts ==
  ASSUME IInv, NEW s \in Slots, tasks[s].pc # "idle"
  PROVE  /\ tasks[s] \in ATask /\ tasks[s].page \in 1 .. Len(pages)
         /\ PageOf(s) \in AForm /\ PageSound(pages, PageOf(s))
         /\ tasks[s].text \in Text /\ tasks[s].text # NoText
         /\ Own(tasks[s].text, PageOf(s).reader)
         /\ PageOf(s).reader \in Readers /\ PageOf(s).session \in 0 .. MaxLogins
         /\ Target(s) = TargetOf(pages, tasks[s])
         /\ Target(s) \in AnOffer /\ Target(s).id \in 1 .. MaxPages
         /\ Minted(pages, Target(s), PageOf(s).reader)
         /\ RowOf(s) \in ARow /\ RowSound(pages, Target(s).id, RowOf(s))
<1>1. tasks[s] \in ATask /\ TaskSound(pages, submissions, tasks[s])
  BY DEF IInv, TypeOK, TasksSound
<1>2. /\ tasks[s].page \in 1 .. Len(pages) /\ tasks[s].text # NoText
      /\ Own(tasks[s].text, PageOf(s).reader) /\ tasks[s].text \in Text
  BY <1>1 DEF TaskSound, PageOf, ATask
<1>3. PageOf(s) \in AForm /\ PageSound(pages, PageOf(s))
  BY <1>2, PageFacts DEF PageOf
<1>4. /\ PageOf(s).reader \in Readers /\ PageOf(s).session \in 0 .. MaxLogins
      /\ PageOf(s).offer \in AnOffer /\ PageOf(s).checking \in AnOffer
  BY <1>3 DEF AForm
<1>5. Target(s) = TargetOf(pages, tasks[s])
  BY DEF Target, TargetOf, PageOf
<1>6. Target(s) \in AnOffer /\ Minted(pages, Target(s), PageOf(s).reader)
  BY <1>3, <1>4 DEF Target, Or, PageSound
<1>7. Target(s).id \in 1 .. MaxPages
  <2>1. Target(s).id \in 1 .. Len(pages)
    BY <1>6 DEF Minted
  <2> QED
    BY <2>1, BoundsAssumption DEF IInv, TypeOK
<1>8. RowOf(s) \in ARow /\ RowSound(pages, Target(s).id, RowOf(s))
  BY <1>7 DEF RowOf, IInv, TypeOK, RowsSound
<1> QED
  BY <1>1, <1>2, <1>3, <1>4, <1>5, <1>6, <1>7, <1>8

\* What edit answers with: a page of the reader who sent the form.
LEMMA AnswerKeeps ==
  ASSUME IInv, NEW s \in Slots, tasks[s].pc # "idle",
         NEW outcome \in Terminal \cup {"discarded", "unconfirmed", "blocked", "checking"},
         Answer(s, outcome)
  PROVE  /\ PagesKept
         /\ tasks' \in [Slots -> ATask]
         /\ \A z \in Slots : tasks'[z] = tasks[z] \/ tasks'[z].pc = "idle"
<1> DEFINE form == PageOf(s)
           r == form.reader
           text == tasks[s].text
           cleared == IF outcome \in {"saved", "conflict", "discarded"} /\ form.recovery # 0
                      THEN [drafts EXCEPT ![form.recovery] = NoDraft] ELSE drafts
           kept == [form EXCEPT !.text = text]
           failed == [kept EXCEPT !.offer = Offer(New, form.offer.revision), !.checking = NoOffer]
           Shows(f) == render(form.session, f, cleared)
<1>1. /\ form \in AForm /\ PageSound(pages, form) /\ r \in Readers /\ form.session \in 0 .. MaxLogins
      /\ text \in Text /\ text # NoText /\ Own(text, r)
  BY WorkFacts
<1>2. tasks' = [tasks EXCEPT ![s] = Idle]
  BY DEF Answer
<1>3. \/ Shows(Fresh(form.session, r)) \/ Shows(failed)
      \/ Shows([kept EXCEPT !.checking = Target(s)])
      \/ Shows([kept EXCEPT !.checking = PendingOffer(r)])
      \/ Shows(kept)
  <2>1. CASE outcome \in {"saved", "conflict", "discarded"}
    BY <2>1 DEF Answer
  <2>2. CASE outcome = "failed"
    BY <2>2 DEF Answer
  <2>3. CASE outcome = "unconfirmed"
    BY <2>3 DEF Answer
  <2>4. CASE outcome = "blocked"
    BY <2>4 DEF Answer
  <2>5. CASE outcome = "checking"
    BY <2>5 DEF Answer
  <2> QED
    BY <2>1, <2>2, <2>3, <2>4, <2>5 DEF Terminal
<1>4. RowsOfDraftsSound(cleared)
  <2>1. cleared \in [1 .. MaxPages -> ADraft]
        /\ \A n \in 1 .. MaxPages : cleared[n] \in {drafts[n], NoDraft}
    BY ConstantTypes DEF IInv, TypeOK
  <2>2. \A n : DraftSound(pages, n, NoDraft)
    BY ConstantTypes, TextTypes DEF DraftSound, Own
  <2> HIDE DEF cleared
  <2> QED
    BY <2>1, <2>2, PageFacts DEF RowsOfDraftsSound
<1>5. Ready(Fresh(form.session, r))
  BY <1>1, FreshReady
<1>6. kept \in AForm /\ kept.reader = r /\ kept.offer = form.offer /\ kept.checking = form.checking
      /\ kept.text = text
  BY <1>1 DEF AForm
<1>7. Ready(kept)
  BY <1>1, <1>6 DEF Ready, PageSound
<1> HIDE DEF kept, form, r, text
<1>8. Ready(failed)
  <2>1. Offer(New, form.offer.revision) \in AnOffer /\ Offer(New, form.offer.revision).id = New
    BY <1>1, NewTypes, OfferTypes DEF AForm, AnOffer
  <2>2. failed \in AForm /\ failed.reader = r /\ failed.offer = Offer(New, form.offer.revision)
        /\ failed.checking = NoOffer /\ failed.text = text
    BY <1>6, <2>1, ConstantTypes DEF AForm
  <2> QED
    BY <1>1, <2>1, <2>2 DEF Ready
<1>9. ASSUME NEW checking \in AnOffer, checking # NoOffer => Minted(pages, checking, r)
      PROVE  Ready([kept EXCEPT !.checking = checking])
  <2> DEFINE f == [kept EXCEPT !.checking = checking]
  <2>1. f \in AForm /\ f.reader = r /\ f.offer = kept.offer /\ f.checking = checking
        /\ f.text = text
    BY <1>6 DEF AForm
  <2> HIDE DEF f
  <2>2. Ready(f)
    BY <1>6, <1>7, <1>9, <2>1 DEF Ready
  <2> QED
    BY <2>2 DEF f
<1>10. /\ Target(s) \in AnOffer /\ Minted(pages, Target(s), r)
       /\ PendingOffer(r) \in AnOffer
       /\ PendingOffer(r) # NoOffer => Minted(pages, PendingOffer(r), r)
  BY <1>1, WorkFacts, PendingFacts DEF r, form
<1>11. /\ Ready([kept EXCEPT !.checking = Target(s)])
       /\ Ready([kept EXCEPT !.checking = PendingOffer(r)])
  BY <1>9, <1>10
<1>12. ASSUME NEW f, Ready(f), Shows(f) PROVE PagesKept
  <2> HIDE DEF cleared
  <2> QED
    BY <1>1, <1>4, <1>12, Rendered DEF IInv
<1>13. PagesKept
  <2> HIDE DEF Shows, failed
  <2> QED
    BY <1>3, <1>5, <1>7, <1>8, <1>11, <1>12
<1>14. /\ tasks' \in [Slots -> ATask]
       /\ \A z \in Slots : tasks'[z] = tasks[z] \/ tasks'[z].pc = "idle"
  BY <1>2, ConstantTypes DEF IInv, TypeOK
<1> QED
  BY <1>13, <1>14

-----------------------------------------------------------------------------
(* Steps.                                                                  *)

LEMMA DraftsSame ==
  ASSUME IInv PROVE RowsOfDraftsSound(drafts)
  BY DEF IInv, TypeOK, DraftsSound, RowsOfDraftsSound

LEMMA IdleSound ==
  ASSUME NEW ps, NEW rows, NEW t, t.pc = "idle" PROVE TaskSound(ps, rows, t)
  BY DEF TaskSound

\* The reader of the browser's session.
LEMMA SessionReader ==
  ASSUME IInv, sessions[cookie] # NoReader
  PROVE  sessions[cookie] \in Readers /\ cookie \in 0 .. MaxLogins
  BY DEF IInv, TypeOK, Account

LEMMA ShowInv ==
  ASSUME IInv, Show PROVE IInv'
<1> DEFINE r == sessions[cookie]
           open == PendingOffer(r)
           again == Form(cookie, r, open, open, 0, submissions[open.id].text)
           form == IF open = NoOffer THEN Fresh(cookie, r) ELSE again
<1>1. r \in Readers /\ cookie \in 0 .. MaxLogins
  BY SessionReader DEF Show, Shown
<1>2. render(cookie, form, drafts) /\ UNCHANGED <<submissions, profiles, sessions, cookie, logins,
                                                  tasks, told>>
  BY DEF Show
<1>3. Ready(form)
  <2>1. CASE open = NoOffer
    BY <1>1, <2>1, FreshReady
  <2>2. CASE open # NoOffer
    <3>1. /\ open \in AnOffer /\ Minted(pages, open, r) /\ submissions[open.id].text \in Text
          /\ submissions[open.id].text # NoText /\ Own(submissions[open.id].text, r)
      BY <1>1, <2>2, PendingFacts
    <3>2. /\ again \in AForm /\ again.reader = r /\ again.offer = open /\ again.checking = open
          /\ again.text = submissions[open.id].text
      BY <1>1, <3>1 DEF Form, AForm
    <3> HIDE DEF again, open
    <3>3. Ready(again)
      BY <3>1, <3>2 DEF Ready
    <3> QED
      BY <2>2, <3>3
  <2> QED
    BY <2>1, <2>2
<1> HIDE DEF form
<1>4. PagesKept
  BY <1>1, <1>2, <1>3, DraftsSame, Rendered DEF IInv
<1>5. RowsEvolve /\ NoneSaved
  BY <1>2, RowsSame DEF IInv
<1>6. tasks' \in [Slots -> ATask]
  BY <1>2 DEF IInv, TypeOK
<1> QED
  BY <1>2, <1>4, <1>5, <1>6, QuietInv

\* A row for a save that was never prepared: its id is closed.
LEMMA ClosedRow ==
  ASSUME IInv, NEW r \in Readers, NEW offer \in AnOffer, Minted(pages, offer, r),
         NEW row, row = Row(r, offer.revision, NoText, "failed", TRUE)
  PROVE  row \in ARow /\ RowSound(pages, offer.id, row) /\ row.outcome = "failed"
<1>1. /\ row \in ARow /\ row.outcome = "failed" /\ row.owner = r /\ row.text = NoText
      /\ row.revision = offer.revision /\ row.acknowledged
  BY TextTypes DEF Row, ARow, Account, Terminal, AnOffer
<1>2. Offer(offer.id, offer.revision) = offer
  BY DEF Offer, AnOffer
<1> QED
  BY <1>1, <1>2, TextTypes DEF RowSound, Own

LEMMA RestoreInv ==
  ASSUME IInv, NEW n \in 1 .. MaxPages, Restore(n) PROVE IInv'
<1> DEFINE r == sessions[cookie]
           offer == pages[n].offer
           submitted == RequiresCheck(offer)
           checking == Or(drafts[n].checking, IF submitted THEN offer ELSE NoOffer)
           wanted == Or(checking, PendingOffer(r))
           named == IF submitted THEN offer ELSE Offer(New, offer.revision)
           form == Form(cookie, r, named, wanted, n, drafts[n].text)
           closing == Row(pages[n].reader, offer.revision, NoText, "failed", TRUE)
           row == IF submissions[offer.id] = NoRow THEN closing ELSE submissions[offer.id]
<1>1. /\ r \in Readers /\ cookie \in 0 .. MaxLogins /\ n \in 1 .. Len(pages)
      /\ drafts[n].text # NoText /\ pages[n].reader = r
  BY SessionReader DEF Restore, Shown, restorable
<1>2. /\ submissions' = [submissions EXCEPT ![offer.id] = row]
      /\ render(cookie, form, drafts) /\ UNCHANGED <<profiles, sessions, cookie, logins, tasks, told>>
  BY DEF Restore
<1>3. /\ pages[n] \in AForm /\ PageSound(pages, pages[n]) /\ offer.id \in 1 .. MaxPages
      /\ drafts[n] \in ADraft /\ DraftSound(pages, n, drafts[n])
  BY <1>1, PageFacts
<1>4. /\ offer \in AnOffer /\ Minted(pages, offer, r) /\ drafts[n].checking \in AnOffer
      /\ drafts[n].checking # NoOffer => Minted(pages, drafts[n].checking, r)
      /\ drafts[n].text \in Text /\ Own(drafts[n].text, r)
  BY <1>1, <1>3 DEF AForm, ADraft, PageSound, DraftSound
<1>5. Ready(form)
  <2>1. wanted \in AnOffer /\ (wanted # NoOffer => Minted(pages, wanted, r))
    <3>1. /\ PendingOffer(r) \in AnOffer
          /\ PendingOffer(r) # NoOffer => Minted(pages, PendingOffer(r), r)
      BY <1>1, PendingFacts
    <3> QED
      BY <1>4, <3>1, ConstantTypes DEF Or
  <2>2. named \in AnOffer /\ (named.id = New \/ Minted(pages, named, r))
    BY <1>4, NewTypes, OfferTypes DEF AnOffer
  <2> HIDE DEF wanted, named
  <2>3. n \in Nat
    BY BoundsAssumption
  <2>4. /\ form \in AForm /\ form.reader = r /\ form.offer = named /\ form.checking = wanted
        /\ form.text = drafts[n].text
    BY <1>1, <1>4, <2>1, <2>2, <2>3, FormFacts
  <2> HIDE DEF form, r
  <2> QED
    BY <1>1, <1>4, <2>1, <2>2, <2>4 DEF Ready
<1>6. RowsEvolve /\ NoneSaved
  <2>1. closing \in ARow /\ RowSound(pages, offer.id, closing) /\ closing.outcome = "failed"
    BY <1>1, <1>4, ClosedRow
  <2>2. submissions[offer.id] \in ARow /\ RowSound(pages, offer.id, submissions[offer.id])
    BY <1>3 DEF IInv, TypeOK, RowsSound
  <2>3. /\ row \in ARow /\ RowSound(pages, offer.id, row) /\ Evolves(submissions[offer.id], row)
        /\ row.outcome = "saved" => submissions[offer.id].outcome = "saved"
    BY <2>1, <2>2, ConstantTypes DEF Evolves
  <2> HIDE DEF row, offer
  <2> QED
    BY <1>2, <1>3, <2>3, OneRow DEF IInv
<1> HIDE DEF form
<1>7. PagesKept
  BY <1>1, <1>2, <1>5, DraftsSame, Rendered DEF IInv
<1>8. tasks' \in [Slots -> ATask]
  BY <1>2 DEF IInv, TypeOK
<1> QED
  BY <1>2, <1>6, <1>7, <1>8, QuietInv

\* What may be sent with a form is its reader's.
LEMMA TypedOwn ==
  ASSUME IInv, NEW n \in 1 .. Len(pages), NEW text \in Typed(n)
  PROVE  text \in Text /\ text # NoText /\ Own(text, pages[n].reader)
<1>1. /\ pages[n].text \in Text /\ pages[n].text # NoText /\ Own(pages[n].text, pages[n].reader)
      /\ pages[n].reader \in Readers
  BY PageFacts DEF AForm, PageSound
<1>2. CASE text = pages[n].text
  BY <1>1, <1>2
<1>3. CASE text # pages[n].text
  <2>1. PICK x \in Texts : text = [by |-> pages[n].reader, text |-> x]
    BY <1>3 DEF Typed
  <2> QED
    BY <1>1, <2>1, ReadersAssumption DEF Text, Account, NoText, NoReader, Own
<1> QED
  BY <1>2, <1>3

LEMMA EditInv ==
  ASSUME IInv, NEW s \in Slots, NEW n \in 1 .. MaxPages, Edit(s, n) PROVE IInv'
<1>1. n \in 1 .. Len(pages) /\ UNCHANGED <<profiles, submissions, pages, drafts, sessions, cookie,
                                           logins, told>>
  BY DEF Edit
<1>2. PICK text \in Typed(n), command \in {"save", "check", "discard"} :
        tasks' = [tasks EXCEPT ![s] = [pc |-> command, page |-> n, text |-> text,
                                       command |-> command]]
  BY DEF Edit
<1> DEFINE t == [pc |-> command, page |-> n, text |-> text, command |-> command]
<1>3. text \in Text /\ text # NoText /\ Own(text, pages[n].reader)
  BY <1>1, TypedOwn
<1>4. t \in ATask /\ t.pc = command /\ t.page = n /\ t.text = text /\ t.command = command
  BY <1>3, BoundsAssumption DEF ATask
<1> HIDE DEF t
<1>5. TaskSound(pages, submissions, t)
  BY <1>1, <1>3, <1>4 DEF TaskSound
<1>6. tasks' = [tasks EXCEPT ![s] = t]
  BY <1>2 DEF t
<1>7. tasks' \in [Slots -> ATask] /\ \A z \in Slots : tasks'[z] = tasks[z] \/ tasks'[z] = t
  BY <1>4, <1>6 DEF IInv, TypeOK
<1>8. PagesKept /\ RowsEvolve /\ NoneSaved
  BY <1>1, DraftsSame, NotRendered, RowsSame DEF IInv
<1> QED
  BY <1>1, <1>5, <1>7, <1>8, QuietInv

LEMMA ExpiredInv ==
  ASSUME IInv, NEW n \in 1 .. MaxPages, Expired(n) PROVE IInv'
<1>1. n \in 1 .. Len(pages) /\ UNCHANGED <<profiles, submissions, pages, sessions, cookie, logins,
                                           tasks, told>>
  BY DEF Expired
<1>2. PICK text \in Typed(n) :
        drafts' = [drafts EXCEPT ![n].text = text, ![n].checking = pages[n].checking]
  BY DEF Expired
<1>3. text \in Text /\ Own(text, pages[n].reader)
  BY <1>1, TypedOwn
<1>4. /\ pages[n].checking \in AnOffer /\ drafts[n] \in ADraft
      /\ pages[n].checking # NoOffer => Minted(pages, pages[n].checking, pages[n].reader)
  BY <1>1, PageFacts DEF AForm, PageSound
<1> DEFINE d == [drafts[n] EXCEPT !.text = text, !.checking = pages[n].checking]
<1>5. d \in ADraft /\ d.text = text /\ d.checking = pages[n].checking
  BY <1>3, <1>4 DEF ADraft
<1>6. drafts' = [drafts EXCEPT ![n] = d]
  BY <1>2 DEF IInv, TypeOK
<1> HIDE DEF d
<1>7. DraftSound(pages, n, d)
  BY <1>3, <1>4, <1>5 DEF DraftSound
<1>8. /\ drafts' \in [1 .. MaxPages -> ADraft] /\ drafts'[n] = d
      /\ \A k \in 1 .. MaxPages : k # n => drafts'[k] = drafts[k]
  BY <1>5, <1>6 DEF IInv, TypeOK
<1>9. RowsOfDraftsSound(drafts')
  BY <1>7, <1>8, PageFacts DEF RowsOfDraftsSound
<1>10. PagesKept /\ RowsEvolve /\ NoneSaved
  BY <1>1, <1>9, NotRendered, RowsSame DEF IInv
<1>11. tasks' \in [Slots -> ATask]
  BY <1>1 DEF IInv, TypeOK
<1> QED
  BY <1>1, <1>10, <1>11, QuietInv

\* The request of a task is answered.
LEMMA AnswerInv ==
  ASSUME IInv, NEW s \in Slots, tasks[s].pc # "idle",
         NEW outcome \in Terminal \cup {"discarded", "unconfirmed", "blocked", "checking"},
         Answer(s, outcome), RowsEvolve, NoneSaved,
         UNCHANGED <<profiles, sessions, cookie, logins>>,
         \A t \in told' : \/ t \in told
                          \/ /\ t.id \in 1 .. MaxPages /\ t.outcome \in Terminal
                             /\ submissions'[t.id].outcome = t.outcome
  PROVE  IInv'
<1>1. /\ PagesKept /\ tasks' \in [Slots -> ATask]
      /\ \A z \in Slots : tasks'[z] = tasks[z] \/ tasks'[z].pc = "idle"
  BY AnswerKeeps
<1>2. \A z \in Slots : tasks'[z] = tasks[z] \/ TaskSound(pages', submissions', tasks'[z])
  BY <1>1, IdleSound
<1> QED
  BY <1>1, <1>2, QuietInv

\* A task goes on with the same form.
LEMMA GotoFacts ==
  ASSUME IInv, NEW s \in Slots, NEW pc \in {"check", "apply", "acknowledge"}, Goto(s, pc)
  PROVE  /\ tasks' \in [Slots -> ATask] /\ \A z \in Slots : z # s => tasks'[z] = tasks[z]
         /\ tasks'[s].pc = pc /\ tasks'[s].page = tasks[s].page
         /\ tasks'[s].text = tasks[s].text /\ tasks'[s].command = tasks[s].command
  BY DEF Goto, IInv, TypeOK, ATask

LEMMA GotoKeeps ==
  ASSUME IInv, NEW s \in Slots, tasks[s].pc # "idle", NEW pc \in {"check", "apply", "acknowledge"},
         Goto(s, pc), UNCHANGED <<pages, drafts>>,
         pc = "apply" => /\ tasks[s].command = "save"
                         /\ submissions'[Target(s).id].outcome # "none"
                         /\ submissions'[Target(s).id].text = tasks[s].text,
         pc = "acknowledge" => submissions'[Target(s).id].outcome \in Terminal
  PROVE  /\ PagesKept /\ tasks' \in [Slots -> ATask]
         /\ \A z \in Slots : tasks'[z] = tasks[z] \/ TaskSound(pages', submissions', tasks'[z])
<1>1. /\ tasks' \in [Slots -> ATask] /\ \A z \in Slots : z # s => tasks'[z] = tasks[z]
      /\ tasks'[s].pc = pc /\ tasks'[s].page = tasks[s].page
      /\ tasks'[s].text = tasks[s].text /\ tasks'[s].command = tasks[s].command
  BY GotoFacts
<1>2. /\ tasks[s].page \in 1 .. Len(pages) /\ tasks[s].text # NoText
      /\ Own(tasks[s].text, pages[tasks[s].page].reader)
  BY WorkFacts DEF PageOf
<1>3. TargetOf(pages, tasks'[s]) = Target(s)
  BY <1>1, WorkFacts DEF TargetOf
<1>4. tasks[s].command = "save" => Target(s) = pages[tasks[s].page].offer
  BY DEF Target, PageOf
<1>5. TaskSound(pages, submissions', tasks'[s])
  BY <1>1, <1>2, <1>3, <1>4 DEF TaskSound
<1>6. PagesKept
  BY DraftsSame, NotRendered DEF IInv
<1> QED
  BY <1>1, <1>5, <1>6

LEMMA GotoInv ==
  ASSUME IInv, NEW s \in Slots, tasks[s].pc # "idle", NEW pc \in {"check", "apply", "acknowledge"},
         Goto(s, pc), RowsEvolve, NoneSaved,
         UNCHANGED <<profiles, sessions, cookie, logins, pages, drafts, told>>,
         pc = "apply" => /\ tasks[s].command = "save"
                         /\ submissions'[Target(s).id].outcome # "none"
                         /\ submissions'[Target(s).id].text = tasks[s].text,
         pc = "acknowledge" => submissions'[Target(s).id].outcome \in Terminal
  PROVE  IInv'
<1>1. /\ PagesKept /\ tasks' \in [Slots -> ATask]
      /\ \A z \in Slots : tasks'[z] = tasks[z] \/ TaskSound(pages', submissions', tasks'[z])
  BY GotoKeeps
<1> QED
  BY <1>1, QuietInv

LEMMA DiscardInv ==
  ASSUME IInv, NEW s \in Slots, Discard(s) PROVE IInv'
<1> DEFINE outcome == CASE PageOf(s).checking # NoOffer -> "checking"
                   [] PageOf(s).checking = NoOffer /\ Pending(PageOf(s).reader) # {} -> "blocked"
                   [] OTHER -> "discarded"
<1>1. /\ tasks[s].pc # "idle" /\ Answer(s, outcome)
      /\ UNCHANGED <<profiles, submissions, sessions, cookie, logins, told>>
  BY DEF Discard
<1>2. outcome \in {"discarded", "blocked", "checking"}
  OBVIOUS
<1> HIDE DEF outcome
<1>3. RowsEvolve /\ NoneSaved
  BY <1>1, RowsSame DEF IInv
<1> QED
  BY <1>1, <1>2, <1>3, AnswerInv

LEMMA FailsInv ==
  ASSUME IInv, NEW s \in Slots, Fails(s) PROVE IInv'
<1>1. /\ tasks[s].pc # "idle" /\ Answer(s, "unconfirmed")
      /\ UNCHANGED <<profiles, submissions, sessions, cookie, logins, told>>
  BY DEF Fails
<1>2. RowsEvolve /\ NoneSaved
  BY <1>1, RowsSame DEF IInv
<1> QED
  BY <1>1, <1>2, AnswerInv

LEMMA ApplyFailsInv ==
  ASSUME IInv, NEW s \in Slots, ApplyFails(s) PROVE IInv'
<1>1. /\ tasks[s].pc # "idle" /\ Goto(s, "check")
      /\ UNCHANGED <<profiles, submissions, pages, drafts, sessions, cookie, logins, told>>
  BY DEF ApplyFails
<1>2. RowsEvolve /\ NoneSaved
  BY <1>1, RowsSame DEF IInv
<1> QED
  BY <1>1, <1>2, GotoInv

LEMMA PrepareInv ==
  ASSUME IInv, NEW s \in Slots, Prepare(s) PROVE IInv'
<1> DEFINE row == RowOf(s)
           r == PageOf(s).reader
           Same == UNCHANGED submissions
<1>1. /\ tasks[s].pc = "save" /\ UNCHANGED <<profiles, sessions, cookie, logins, told>>
  BY DEF Prepare
<1>2. tasks[s].command = "save"
  BY <1>1 DEF IInv, TasksSound, TaskSound
<1>3. Same => RowsEvolve /\ NoneSaved
  BY RowsSame DEF IInv
<1>4. ASSUME Answer(s, "checking") \/ Answer(s, "blocked"), Same PROVE IInv'
  BY <1>1, <1>3, <1>4, AnswerInv
<1>5. ASSUME tasks' = [tasks EXCEPT ![s] = Idle], UNCHANGED <<submissions, pages, drafts>> PROVE IInv'
  <2>1. /\ tasks' \in [Slots -> ATask]
        /\ \A z \in Slots : tasks'[z] = tasks[z] \/ tasks'[z].pc = "idle"
    BY <1>5, ConstantTypes DEF IInv, TypeOK
  <2>2. PagesKept
    BY <1>5, DraftsSame, NotRendered DEF IInv
  <2> QED
    BY <1>1, <1>3, <1>5, <2>1, <2>2, IdleSound, QuietInv
<1>6. ASSUME row # NoRow, row.text \in {NoText, tasks[s].text},
             Goto(s, IF row.outcome = "pending" THEN "apply" ELSE "acknowledge"),
             UNCHANGED <<submissions, pages, drafts>>
      PROVE  IInv'
  <2>1. row \in ARow /\ RowSound(pages, Target(s).id, row) /\ submissions'[Target(s).id] = row
    BY <1>1, <1>6, WorkFacts DEF RowOf
  <2> HIDE DEF row
  <2>2. row.outcome \in Terminal \cup {"pending"}
    BY <1>6, <2>1 DEF RowSound, ARow
  <2>3. CASE row.outcome = "pending"
    <3>1. row.text = tasks[s].text /\ Goto(s, "apply") /\ row.outcome # "none"
      BY <1>6, <2>1, <2>3 DEF RowSound
    <3> QED
      BY <1>1, <1>2, <1>3, <1>6, <2>1, <3>1, GotoInv
  <2>4. CASE row.outcome # "pending"
    <3>1. row.outcome \in Terminal /\ Goto(s, "acknowledge")
      BY <1>6, <2>2, <2>4
    <3> QED
      BY <1>1, <1>3, <1>6, <2>1, <3>1, GotoInv
  <2> QED
    BY <2>3, <2>4
<1>7. ASSUME row = NoRow,
             submissions' = [submissions EXCEPT ![Target(s).id] =
                                  Row(r, Target(s).revision, tasks[s].text, "pending", FALSE)],
             Goto(s, "apply"), UNCHANGED <<pages, drafts>>
      PROVE  IInv'
  <2> DEFINE new == Row(r, Target(s).revision, tasks[s].text, "pending", FALSE)
  <2>1. /\ Target(s) \in AnOffer /\ Target(s).id \in 1 .. MaxPages /\ Minted(pages, Target(s), r)
        /\ r \in Readers /\ tasks[s].text \in Text /\ tasks[s].text # NoText /\ Own(tasks[s].text, r)
    BY <1>1, WorkFacts
  <2>2. /\ new \in ARow /\ new.owner = r /\ new.revision = Target(s).revision
        /\ new.text = tasks[s].text /\ new.outcome = "pending"
    BY <2>1 DEF Row, ARow, Account, AnOffer
  <2>3. Offer(Target(s).id, Target(s).revision) = Target(s)
    BY <2>1 DEF Offer, AnOffer
  <2>4. submissions' = [submissions EXCEPT ![Target(s).id] = new]
    BY <1>7
  <2> HIDE DEF new
  <2>5. RowSound(pages, Target(s).id, new) /\ Evolves(submissions[Target(s).id], new)
    BY <1>7, <2>1, <2>2, <2>3, ConstantTypes DEF RowSound, Evolves, RowOf
  <2>6. RowsEvolve /\ NoneSaved /\ submissions'[Target(s).id] = new
    BY <2>1, <2>2, <2>4, <2>5, OneRow DEF IInv
  <2> QED
    BY <1>1, <1>2, <1>7, <2>2, <2>6, GotoInv
<1> QED
  <2>1. \/ Answer(s, "checking") /\ Same
        \/ Answer(s, "blocked") /\ Same
        \/ tasks' = [tasks EXCEPT ![s] = Idle] /\ UNCHANGED <<submissions, pages, drafts>>
        \/ /\ row # NoRow /\ row.text \in {NoText, tasks[s].text}
           /\ Goto(s, IF row.outcome = "pending" THEN "apply" ELSE "acknowledge")
           /\ UNCHANGED <<submissions, pages, drafts>>
        \/ /\ row = NoRow
           /\ submissions' = [submissions EXCEPT ![Target(s).id] =
                                  Row(r, Target(s).revision, tasks[s].text, "pending", FALSE)]
           /\ Goto(s, "apply") /\ UNCHANGED <<pages, drafts>>
    BY DEF Prepare
  <2> HIDE DEF row, r, Same
  <2> QED
    BY <1>4, <1>5, <1>6, <1>7, <2>1

LEMMA AcknowledgeInv ==
  ASSUME IInv, NEW s \in Slots, Acknowledge(s) PROVE IInv'
<1> DEFINE id == Target(s).id
           row == submissions[id]
           new == [row EXCEPT !.acknowledged = TRUE]
<1>1. /\ tasks[s].pc = "acknowledge" /\ UNCHANGED <<profiles, sessions, cookie, logins>>
      /\ submissions' = [submissions EXCEPT ![id].acknowledged = TRUE]
      /\ told' = told \cup {[id |-> id, outcome |-> row.outcome]}
      /\ Answer(s, row.outcome)
  BY DEF Acknowledge, Say, RowOf
<1>2. id \in 1 .. MaxPages /\ row \in ARow /\ RowSound(pages, id, row)
  BY <1>1, WorkFacts DEF RowOf
<1>3. row.outcome \in Terminal
  BY <1>1, WorkFacts DEF IInv, TasksSound, TaskSound
<1>4. submissions' = [submissions EXCEPT ![id] = new]
  BY <1>1, <1>2 DEF IInv, TypeOK
<1>5. /\ new \in ARow /\ new.owner = row.owner /\ new.revision = row.revision
      /\ new.text = row.text /\ new.outcome = row.outcome /\ new.acknowledged
  BY <1>2 DEF ARow
<1> HIDE DEF new
<1>6. RowSound(pages, id, new) /\ Evolves(row, new)
  BY <1>2, <1>3, <1>5 DEF RowSound, Evolves, Terminal
<1>7. RowsEvolve /\ NoneSaved /\ submissions'[id] = new
  <2> HIDE DEF id
  <2> QED
    BY <1>2, <1>4, <1>5, <1>6, OneRow DEF IInv
<1>8. \A t \in told' : \/ t \in told
                       \/ /\ t.id \in 1 .. MaxPages /\ t.outcome \in Terminal
                          /\ submissions'[t.id].outcome = t.outcome
  <2> DEFINE e == [id |-> id, outcome |-> row.outcome]
  <2>1. e.id = id /\ e.outcome = row.outcome /\ told' = told \cup {e}
    BY <1>1
  <2> HIDE DEF e, id, row
  <2> QED
    BY <1>2, <1>3, <1>5, <1>7, <2>1
<1> HIDE DEF id, row
<1> QED
  BY <1>1, <1>3, <1>7, <1>8, AnswerInv

LEMMA CheckInv ==
  ASSUME IInv, NEW s \in Slots, Check(s) PROVE IInv'
<1> DEFINE id == Target(s).id
           row == RowOf(s)
<1>1. tasks[s].pc = "check" /\ UNCHANGED <<profiles, sessions, cookie, logins>>
  BY DEF Check
<1>2. /\ id \in 1 .. MaxPages /\ row \in ARow /\ RowSound(pages, id, row) /\ submissions[id] = row
      /\ Target(s) \in AnOffer /\ Minted(pages, Target(s), PageOf(s).reader)
      /\ PageOf(s).reader \in Readers
  BY <1>1, WorkFacts DEF RowOf
<1>3. submissions' = submissions => RowsEvolve /\ NoneSaved
  BY RowsSame DEF IInv
<1>4. ASSUME row # NoRow, row.outcome # "pending", Goto(s, "acknowledge"),
             UNCHANGED <<submissions, pages, drafts, told>>
      PROVE  IInv'
  <2>1. submissions'[id].outcome \in Terminal
    BY <1>2, <1>4 DEF RowSound, ARow
  <2> QED
    BY <1>1, <1>3, <1>4, <2>1, GotoInv
<1>5. ASSUME Answer(s, "blocked"), UNCHANGED <<submissions, told>> PROVE IInv'
  BY <1>1, <1>3, <1>5, AnswerInv
<1>6. ASSUME row # NoRow => row.outcome = "pending",
             submissions' = [submissions EXCEPT ![id] = closed(s)],
             told' = told \cup {[id |-> id, outcome |-> "failed"]}, Answer(s, "failed")
      PROVE  IInv'
  <2> DEFINE new == closed(s)
  <2>1. /\ new \in ARow /\ new.outcome = "failed" /\ RowSound(pages, id, new) /\ Evolves(row, new)
    <3>1. CASE row = NoRow
      <4>1. new = Row(PageOf(s).reader, Target(s).revision, NoText, "failed", TRUE)
        BY <3>1 DEF closed
      <4> QED
        BY <1>2, <3>1, <4>1, ClosedRow, ConstantTypes DEF Evolves
    <3>2. CASE row # NoRow
      <4>1. new = [row EXCEPT !.outcome = "failed", !.acknowledged = TRUE]
        BY <3>2 DEF closed
      <4>2. /\ new \in ARow /\ new.owner = row.owner /\ new.revision = row.revision
            /\ new.text = row.text /\ new.outcome = "failed" /\ new.acknowledged
        BY <1>2, <4>1 DEF ARow, Terminal
      <4> HIDE DEF new, row
      <4> QED
        BY <1>2, <1>6, <3>2, <4>2 DEF RowSound, Evolves, Terminal
    <3> QED
      BY <3>1, <3>2
  <2>2. submissions' = [submissions EXCEPT ![id] = new]
    BY <1>6
  <2> HIDE DEF new, id, row
  <2>3. RowsEvolve /\ NoneSaved /\ submissions'[id] = new
    BY <1>2, <2>1, <2>2, OneRow DEF IInv
  <2>4. \A t \in told' : \/ t \in told
                         \/ /\ t.id \in 1 .. MaxPages /\ t.outcome \in Terminal
                            /\ submissions'[t.id].outcome = t.outcome
    BY <1>2, <1>6, <2>1, <2>3 DEF Terminal
  <2> QED
    BY <1>1, <1>6, <2>3, <2>4, AnswerInv DEF Terminal
<1> QED
  <2>1. \/ /\ row # NoRow /\ row.outcome # "pending" /\ Goto(s, "acknowledge")
           /\ UNCHANGED <<submissions, pages, drafts, told>>
        \/ Answer(s, "blocked") /\ UNCHANGED <<submissions, told>>
        \/ /\ row # NoRow => row.outcome = "pending"
           /\ submissions' = [submissions EXCEPT ![id] = closed(s)]
           /\ told' = told \cup {[id |-> id, outcome |-> "failed"]} /\ Answer(s, "failed")
    BY DEF Check, Say
  <2> HIDE DEF id, row
  <2> QED
    BY <1>4, <1>5, <1>6, <2>1

-----------------------------------------------------------------------------
(* A save is applied.                                                      *)

\* The row of a task is its reader's, on the revision its page showed.
LEMMA RowAgrees ==
  ASSUME IInv, NEW s \in Slots, tasks[s].pc # "idle", RowOf(s).outcome # "none"
  PROVE  RowOf(s).owner = PageOf(s).reader /\ RowOf(s).revision = Target(s).revision
<1>1. /\ Target(s) \in AnOffer /\ Minted(pages, Target(s), PageOf(s).reader)
      /\ Minted(pages, Offer(Target(s).id, RowOf(s).revision), RowOf(s).owner)
      /\ Target(s).id \in Nat /\ RowOf(s).revision \in Nat
  BY WorkFacts DEF RowSound, ARow, AnOffer
<1>2. LET offer == Offer(Target(s).id, RowOf(s).revision)
      IN  offer.id = Target(s).id /\ offer.revision = RowOf(s).revision
  BY <1>1, OfferTypes
<1> QED
  BY <1>1, <1>2 DEF Minted

\* The saves of a reader with one more, on the profile it was made for.
LEMMA SerialApplied ==
  ASSUME IInv, NEW r \in Readers, NEW id \in 1 .. MaxPages, NEW new,
         submissions[id].outcome = "pending", submissions[id].owner = r,
         submissions[id].revision = profiles[r].revision,
         submissions' = [submissions EXCEPT ![id] = new],
         new.owner = r, new.revision = profiles[r].revision, new.outcome = "saved",
         profiles' = [profiles EXCEPT ![r] = [text |-> new.text,
                                              revision |-> profiles[r].revision + 1,
                                              imported |-> TRUE]]
  PROVE  SavesAreSerial'
<1> DEFINE rev == profiles[r].revision
<1>1. /\ DOMAIN submissions = 1 .. MaxPages /\ DOMAIN submissions' = 1 .. MaxPages
      /\ submissions'[id] = new
      /\ \A k \in 1 .. MaxPages : k # id => submissions'[k] = submissions[k]
  BY DEF IInv, TypeOK
<1>2. /\ profiles'[r].text = new.text /\ profiles'[r].revision = rev + 1
      /\ \A q \in Readers : q # r => profiles'[q] = profiles[q]
  BY DEF IInv, TypeOK
<1>3. rev \in Nat
  BY ProfileFacts
<1>4. id \notin SavesOf(r) /\ SavesOf(r)' = SavesOf(r) \cup {id}
  BY <1>1 DEF SavesOf
<1>5. /\ rev = Cardinality(SavesOf(r))
      /\ {submissions[k].revision : k \in SavesOf(r)} = 0 .. (rev - 1)
  BY DEF IInv, SavesAreSerial
<1>6. IsFiniteSet(SavesOf(r))
  <2>1. SavesOf(r) \subseteq 1 .. MaxPages /\ MaxPages \in Int /\ 1 \in Int
    BY <1>1, BoundsAssumption DEF SavesOf
  <2> QED
    BY <2>1, FS_Interval, FS_Subset
<1>7. Cardinality(SavesOf(r)') = rev + 1
  BY <1>4, <1>5, <1>6, FS_AddElement
<1>8. {submissions'[k].revision : k \in SavesOf(r)'} = 0 .. rev
  <2>1. {submissions'[k].revision : k \in SavesOf(r)'}
           = {submissions[k].revision : k \in SavesOf(r)} \cup {rev}
    <3>1. \A k \in SavesOf(r) : submissions'[k].revision = submissions[k].revision
      BY <1>1, <1>4 DEF SavesOf
    <3>2. submissions'[id].revision = rev
      BY <1>1
    <3> HIDE DEF rev
    <3> QED
      BY <1>4, <3>1, <3>2
  <2>2. 0 .. rev = 0 .. (rev - 1) \cup {rev}
    BY <1>3
  <2> HIDE DEF rev
  <2> QED
    BY <1>5, <2>1, <2>2
<1>9. ASSUME NEW k \in SavesOf(r)', submissions'[k].revision = rev PROVE submissions'[k].text = new.text
  <2>1. CASE k = id
    BY <1>1, <2>1
  <2>2. CASE k \in SavesOf(r)
    <3>1. submissions'[k] = submissions[k]
      BY <1>1, <1>4, <2>2 DEF SavesOf
    <3>2. submissions[k].revision \in 0 .. (rev - 1)
      BY <1>5, <2>2
    <3> QED
      BY <1>3, <1>9, <3>1, <3>2
  <2> QED
    BY <1>4, <2>1, <2>2
<1>10. ASSUME NEW q \in Readers, q # r
       PROVE  /\ SavesOf(q)' = SavesOf(q)
              /\ \A k \in SavesOf(q) : submissions'[k] = submissions[k]
  BY <1>1, <1>10 DEF SavesOf
<1>11. ASSUME NEW q \in Readers
       PROVE  /\ profiles'[q].revision = Cardinality(SavesOf(q)')
              /\ {submissions'[k].revision : k \in SavesOf(q)'} = 0 .. (profiles'[q].revision - 1)
              /\ \A k \in SavesOf(q)' : submissions'[k].revision = profiles'[q].revision - 1
                                          => profiles'[q].text = submissions'[k].text
  <2>1. CASE q = r
    <3>1. profiles'[r].revision - 1 = rev
      BY <1>2, <1>3
    <3> QED
      BY <1>2, <1>7, <1>8, <1>9, <2>1, <3>1
  <2>2. CASE q # r
    <3>1. {submissions'[k].revision : k \in SavesOf(q)'} = {submissions[k].revision : k \in SavesOf(q)}
      BY <1>10, <2>2
    <3> QED
      BY <1>2, <1>10, <2>2, <3>1 DEF IInv, SavesAreSerial
  <2> QED
    BY <2>1, <2>2
<1> QED
  BY <1>11 DEF SavesAreSerial

LEMMA ApplyInv ==
  ASSUME IInv, NEW s \in Slots, Apply(s) PROVE IInv'
<1> DEFINE r == PageOf(s).reader
           id == Target(s).id
           row == submissions[id]
           open == row.outcome = "pending"
           conflict == conflicts(r, Target(s))
           outcome == IF open THEN IF conflict THEN "conflict" ELSE "saved" ELSE row.outcome
           new == [row EXCEPT !.outcome = outcome]
           saved == [text |-> tasks[s].text, revision |-> Target(s).revision + 1, imported |-> TRUE]
<1>1. /\ tasks[s].pc = "apply" /\ Goto(s, "acknowledge")
      /\ profiles' = [profiles EXCEPT ![r] = IF open /\ ~conflict THEN saved ELSE @]
      /\ submissions' = [submissions EXCEPT ![id].outcome =
                            IF open THEN IF conflict THEN "conflict" ELSE "saved" ELSE @]
      /\ UNCHANGED <<pages, drafts, sessions, cookie, logins, told>>
  BY DEF Apply, RowOf
<1>2. /\ id \in 1 .. MaxPages /\ row \in ARow /\ RowSound(pages, id, row) /\ row = RowOf(s)
      /\ r \in Readers /\ tasks[s].text \in Text /\ tasks[s].text # NoText /\ Own(tasks[s].text, r)
      /\ Target(s) \in AnOffer
  BY <1>1, WorkFacts DEF RowOf
<1>3. row.outcome # "none" /\ row.text = tasks[s].text
  BY <1>1 DEF IInv, TasksSound, TaskSound, Target, PageOf
<1>4. row.owner = r /\ row.revision = Target(s).revision
  BY <1>1, <1>2, <1>3, RowAgrees
<1>5. outcome \in Terminal /\ (row.outcome \in Terminal => outcome = row.outcome)
  BY <1>2, <1>3 DEF ARow, Terminal
<1>6. submissions' = [submissions EXCEPT ![id] = new]
  BY <1>1, <1>2 DEF IInv, TypeOK
<1>7. /\ new \in ARow /\ new.owner = row.owner /\ new.revision = row.revision
      /\ new.text = row.text /\ new.outcome = outcome /\ new.acknowledged = row.acknowledged
  BY <1>2, <1>5 DEF ARow
<1>8. /\ profiles[r].revision = Target(s).revision <=> ~conflict
      /\ open => row.outcome = "pending"
      /\ ~(open /\ ~conflict) /\ outcome = "saved" => row.outcome = "saved"
      /\ open /\ ~conflict => outcome = "saved"
      /\ row.text = NoText => outcome = row.outcome
  BY <1>2, <1>3 DEF conflicts
<1> HIDE DEF new, outcome, saved
<1>9. RowSound(pages, id, new) /\ Evolves(row, new)
  BY <1>2, <1>3, <1>5, <1>7, <1>8 DEF RowSound, Evolves, Terminal
<1>10. RowsEvolve /\ submissions'[id] = new /\ ((outcome = "saved" => row.outcome = "saved") => NoneSaved)
  <2> HIDE DEF id
  <2> QED
    BY <1>2, <1>6, <1>7, <1>9, OneRow DEF IInv
<1>11. CASE ~(open /\ ~conflict)
  <2>1. profiles' = profiles
    BY <1>1, <1>11 DEF IInv, TypeOK
  <2>2. NoneSaved
    BY <1>8, <1>10, <1>11
  <2> QED
    BY <1>1, <1>5, <1>7, <1>10, <2>1, <2>2, GotoInv
<1>12. CASE open /\ ~conflict
  <2>1. profiles' = [profiles EXCEPT ![r] = saved] /\ row.revision = profiles[r].revision
    BY <1>1, <1>4, <1>8, <1>12
  <2>2. saved = [text |-> new.text, revision |-> profiles[r].revision + 1, imported |-> TRUE]
    BY <1>3, <1>4, <1>7, <2>1 DEF saved
  <2>3. SavesAreSerial'
    <3> HIDE DEF id, r
    <3> QED
      BY <1>2, <1>4, <1>6, <1>7, <1>8, <1>12, <2>1, <2>2, SerialApplied
  <2>4. saved \in [text : Text, revision : Nat, imported : BOOLEAN] /\ saved.text = tasks[s].text
        /\ saved.imported = TRUE
    BY <1>2 DEF saved, AnOffer
  <2> HIDE DEF r
  <2>5. profiles' \in [Readers -> [text : Text, revision : Nat, imported : BOOLEAN]]
        /\ profiles'[r] = saved /\ \A q \in Readers : q # r => profiles'[q] = profiles[q]
    BY <1>2, <2>1, <2>4 DEF IInv, TypeOK
  <2>6. ProfilesSound'
    BY <1>2, <2>4, <2>5 DEF IInv, ProfilesSound
  <2>7. /\ PagesKept /\ tasks' \in [Slots -> ATask]
        /\ \A z \in Slots : tasks'[z] = tasks[z] \/ TaskSound(pages', submissions', tasks'[z])
    BY <1>1, <1>5, <1>7, <1>10, GotoKeeps
  <2>8. /\ sessions' \in [0 .. MaxLogins -> Account] /\ cookie' \in 0 .. MaxLogins
        /\ logins' \in Seq([open : BOOLEAN, draft : 0 .. MaxPages]) /\ Len(logins') <= MaxLogins
        /\ \A t \in told' : t \in told
    BY <1>1 DEF IInv, TypeOK
  <2> QED
    BY <1>10, <2>3, <2>5, <2>6, <2>7, <2>8, StepInv
<1> QED
  BY <1>11, <1>12

-----------------------------------------------------------------------------
(* Sessions.                                                               *)

\* A step that leaves the saves, the pages and the tasks alone.
LEMMA SessionInv ==
  ASSUME IInv, UNCHANGED <<submissions, pages, tasks, told>>, RowsOfDraftsSound(drafts'),
         profiles' \in [Readers -> [text : Text, revision : Nat, imported : BOOLEAN]],
         ProfilesSound', SavesAreSerial',
         sessions' \in [0 .. MaxLogins -> Account], cookie' \in 0 .. MaxLogins,
         logins' \in Seq([open : BOOLEAN, draft : 0 .. MaxPages]), Len(logins') <= MaxLogins
  PROVE  IInv'
<1>1. PagesKept /\ RowsEvolve
  BY NotRendered, RowsSame DEF IInv
<1>2. tasks' \in [Slots -> ATask]
  BY DEF IInv, TypeOK
<1> QED
  BY <1>1, <1>2, StepInv

LEMMA ProfilesSame ==
  ASSUME IInv, UNCHANGED <<submissions, profiles>>
  PROVE  /\ profiles' \in [Readers -> [text : Text, revision : Nat, imported : BOOLEAN]]
         /\ ProfilesSound' /\ SavesAreSerial'
<1>1. SavesAreSerial'
  BY RowsSame, SerialKept DEF IInv
<1> QED
  BY <1>1 DEF IInv, TypeOK, ProfilesSound

LEMMA LoginsTyped ==
  ASSUME IInv
  PROVE  /\ logins \in Seq([open : BOOLEAN, draft : 0 .. MaxPages])
         /\ Len(logins) \in Nat /\ Len(logins) <= MaxLogins /\ MaxLogins \in Nat
  BY BoundsAssumption DEF IInv, TypeOK

\* The newest challenge is used up.
LEMMA Used ==
  ASSUME IInv, Len(logins) > 0, logins' = [logins EXCEPT ![Len(logins)].open = FALSE]
  PROVE  logins' \in Seq([open : BOOLEAN, draft : 0 .. MaxPages]) /\ Len(logins') <= MaxLogins
<1> DEFINE l == Len(logins)
           x == [logins[l] EXCEPT !.open = FALSE]
           L == [open : BOOLEAN, draft : 0 .. MaxPages]
<1>0. logins \in Seq(L) /\ l \in Nat /\ l <= MaxLogins /\ l > 0
  BY LoginsTyped
<1> HIDE DEF L
<1>1. l \in 1 .. Len(logins) /\ DOMAIN logins = 1 .. Len(logins) /\ logins[l] \in L
      /\ logins \in [1 .. Len(logins) -> L]
  BY <1>0
<1>2. x \in L
  BY <1>1 DEF L
<1>3. logins' = [logins EXCEPT ![l] = x]
  BY <1>1
<1> HIDE DEF x
<1>4. logins' \in [1 .. Len(logins) -> L]
  BY <1>1, <1>2, <1>3
<1>5. logins' \in Seq(L) /\ Len(logins') = Len(logins)
  BY <1>0, <1>4
<1> QED
  BY <1>0, <1>5 DEF L

LEMMA LoginInv ==
  ASSUME IInv, NEW n, Login(n) PROVE IInv'
<1> DEFINE x == [open |-> TRUE, draft |-> n]
<1>1. /\ Len(logins) < MaxLogins /\ n \in 0 .. Len(pages) /\ logins' = Append(logins, x)
      /\ UNCHANGED <<profiles, submissions, pages, drafts, sessions, cookie, tasks, told>>
  BY DEF Login
<1>2. x \in [open : BOOLEAN, draft : 0 .. MaxPages]
  BY <1>1, BoundsAssumption DEF IInv, TypeOK
<1> HIDE DEF x
<1>3. logins' \in Seq([open : BOOLEAN, draft : 0 .. MaxPages]) /\ Len(logins') <= MaxLogins
  BY <1>1, <1>2, LoginsTyped
<1>4. sessions' \in [0 .. MaxLogins -> Account] /\ cookie' \in 0 .. MaxLogins
  BY <1>1 DEF IInv, TypeOK
<1> QED
  BY <1>1, <1>3, <1>4, DraftsSame, ProfilesSame, SessionInv

LEMMA CallbackRefusedInv ==
  ASSUME IInv, CallbackRefused PROVE IInv'
<1>1. /\ Len(logins) > 0 /\ logins' = [logins EXCEPT ![Len(logins)].open = FALSE]
      /\ UNCHANGED <<profiles, submissions, pages, drafts, sessions, cookie, tasks, told>>
  BY DEF CallbackRefused
<1>2. sessions' \in [0 .. MaxLogins -> Account] /\ cookie' \in 0 .. MaxLogins
  BY <1>1 DEF IInv, TypeOK
<1> QED
  BY <1>1, <1>2, Used, DraftsSame, ProfilesSame, SessionInv

\* The drafts of a browser after a sign-in or a sign-out.
LEMMA ReturnedSound ==
  ASSUME IInv, NEW session \in 0 .. MaxLogins, NEW rows, DOMAIN rows = 1 .. MaxPages,
         \A i \in 1 .. MaxPages : rows[i] \in {drafts[i], NoDraft, [drafts[i] EXCEPT !.session = session]},
         rows = [i \in 1 .. MaxPages |-> rows[i]]
  PROVE  RowsOfDraftsSound(rows)
<1>1. ASSUME NEW i \in 1 .. MaxPages
      PROVE  /\ rows[i] \in ADraft
             /\ rows[i] = NoDraft \/ (rows[i].text = drafts[i].text /\ rows[i].checking = drafts[i].checking)
  <2>1. drafts[i] \in ADraft
    BY DEF IInv, TypeOK
  <2>2. CASE rows[i] = [drafts[i] EXCEPT !.session = session]
    BY <2>1, <2>2 DEF ADraft
  <2> QED
    BY <2>1, <2>2, ConstantTypes
<1>2. rows \in [1 .. MaxPages -> ADraft]
  BY <1>1
<1>3. \A n : DraftSound(pages, n, NoDraft)
  BY ConstantTypes, TextTypes DEF DraftSound, Own
<1>4. ASSUME NEW n \in 1 .. Len(pages) PROVE DraftSound(pages, n, rows[n])
  <2>1. n \in 1 .. MaxPages /\ DraftSound(pages, n, drafts[n])
    BY PageFacts
  <2> QED
    BY <1>1, <1>3, <2>1 DEF DraftSound
<1> QED
  BY <1>2, <1>4 DEF RowsOfDraftsSound

LEMMA CallbackInv ==
  ASSUME IInv, NEW r \in Readers, Callback(r) PROVE IInv'
<1> DEFINE l == Len(logins)
           imported == import_name(profiles[r], r)
<1>1. /\ l > 0 /\ logins' = [logins EXCEPT ![l].open = FALSE]
      /\ profiles' = [profiles EXCEPT ![r] = imported]
      /\ sessions' = [sessions EXCEPT ![l] = r]
      /\ drafts' = Returned(logins[l].draft, r, l, drafts)
      /\ cookie' = l /\ UNCHANGED <<submissions, pages, tasks, told>>
  BY DEF Callback, IInv, TypeOK
<1>2. l \in 0 .. MaxLogins
  BY LoginsTyped
<1>3. sessions' \in [0 .. MaxLogins -> Account] /\ cookie' \in 0 .. MaxLogins
  BY <1>1, <1>2 DEF IInv, TypeOK, Account
<1>4. RowsOfDraftsSound(drafts')
  <2> DEFINE n == logins[l].draft
             c(i) == CASE n = 0 \/ ~drafts[n].present -> drafts[i]
                       [] n # 0 /\ drafts[n].present /\ pages[n].reader # r ->
                            IF i <= Len(pages) /\ pages[i].reader = pages[n].reader
                            THEN NoDraft ELSE drafts[i]
                       [] OTHER ->
                            IF i <= Len(pages) /\ pages[i].reader = r /\ drafts[i].present
                            THEN [drafts[i] EXCEPT !.session = l] ELSE drafts[i]
  <2>1. DOMAIN drafts = 1 .. MaxPages
    BY DEF IInv, TypeOK
  <2>2. drafts' = [i \in 1 .. MaxPages |-> c(i)]
    BY <1>1, <2>1 DEF Returned
  <2>3. \A i : c(i) \in {drafts[i], NoDraft, [drafts[i] EXCEPT !.session = l]}
    <3>1. CASE n = 0 \/ ~drafts[n].present
      BY <3>1
    <3>2. CASE ~(n = 0 \/ ~drafts[n].present) /\ pages[n].reader # r
      BY <3>2
    <3>3. CASE ~(n = 0 \/ ~drafts[n].present) /\ pages[n].reader = r
      BY <3>3
    <3> QED
      BY <3>1, <3>2, <3>3
  <2> HIDE DEF c, l
  <2>4. /\ DOMAIN drafts' = 1 .. MaxPages /\ drafts' = [i \in 1 .. MaxPages |-> drafts'[i]]
        /\ \A i \in 1 .. MaxPages :
                drafts'[i] \in {drafts[i], NoDraft, [drafts[i] EXCEPT !.session = l]}
    BY <2>2, <2>3
  <2> QED
    BY <1>2, <2>4, ReturnedSound
<1>5. /\ imported \in [text : Text, revision : Nat, imported : BOOLEAN]
      /\ imported.revision = profiles[r].revision /\ imported.imported
      /\ imported.text # NoText /\ Own(imported.text, r)
      /\ profiles[r].imported => imported.text = profiles[r].text
  <2>1. profiles[r] \in [text : Text, revision : Nat, imported : BOOLEAN]
    BY DEF IInv, TypeOK
  <2>2. CASE profiles[r].imported
    BY <2>1, <2>2, ProfileFacts DEF import_name
  <2>3. CASE ~profiles[r].imported
    <3>1. imported = [profiles[r] EXCEPT !.text = Imported(r), !.imported = TRUE]
      BY <2>3 DEF import_name
    <3> QED
      BY <2>1, <2>3, <3>1, TextTypes DEF Own
  <2> QED
    BY <2>2, <2>3
<1> HIDE DEF imported
<1>6. /\ profiles' \in [Readers -> [text : Text, revision : Nat, imported : BOOLEAN]]
      /\ profiles'[r] = imported /\ \A q \in Readers : q # r => profiles'[q] = profiles[q]
  BY <1>1, <1>5 DEF IInv, TypeOK
<1>7. ProfilesSound'
  BY <1>5, <1>6 DEF IInv, ProfilesSound
<1>8. ASSUME NEW q \in Readers
      PROVE  /\ SavesOf(q)' = SavesOf(q) /\ profiles'[q].revision = profiles[q].revision
             /\ profiles[q].imported => profiles'[q].text = profiles[q].text
  BY <1>1, <1>5, <1>6 DEF SavesOf
<1>9. ASSUME NEW q \in Readers, ~profiles[q].imported PROVE SavesOf(q) = {}
  <2>1. profiles[q].revision = 0
    BY <1>9, ProfileFacts DEF IInv, ProfilesSound
  <2>2. {submissions[id].revision : id \in SavesOf(q)} = 0 .. (0 - 1)
    BY <2>1 DEF IInv, SavesAreSerial
  <2>3. 0 .. (0 - 1) = {}
    OBVIOUS
  <2> QED
    BY <2>2, <2>3
<1>10. SavesAreSerial'
  BY <1>1, <1>8, <1>9 DEF IInv, SavesAreSerial
<1>11. logins' \in Seq([open : BOOLEAN, draft : 0 .. MaxPages]) /\ Len(logins') <= MaxLogins
  BY <1>1, Used
<1> QED
  BY <1>1, <1>3, <1>4, <1>6, <1>7, <1>10, <1>11, SessionInv

LEMMA LogoutInv ==
  ASSUME IInv, Logout PROVE IInv'
<1>1. /\ sessions' = [sessions EXCEPT ![cookie] = NoReader] /\ cookie' = 0
      /\ drafts' = [i \in DOMAIN drafts |-> NoDraft]
      /\ UNCHANGED <<profiles, submissions, pages, logins, tasks, told>>
  BY DEF Logout
<1>2. sessions' \in [0 .. MaxLogins -> Account] /\ cookie' \in 0 .. MaxLogins
  BY <1>1, BoundsAssumption DEF IInv, TypeOK, Account
<1>3. RowsOfDraftsSound(drafts')
  <2>1. /\ DOMAIN drafts' = 1 .. MaxPages /\ drafts' = [i \in 1 .. MaxPages |-> drafts'[i]]
        /\ \A i \in 1 .. MaxPages : drafts'[i] = NoDraft
    BY <1>1 DEF IInv, TypeOK
  <2> QED
    BY <1>2, <2>1, ReturnedSound
<1> QED
  BY <1>1, <1>2, <1>3, LoginsTyped, ProfilesSame, SessionInv

LEMMA SessionExpiresInv ==
  ASSUME IInv, SessionExpires PROVE IInv'
<1>1. /\ sessions' = [sessions EXCEPT ![cookie] = NoReader]
      /\ UNCHANGED <<profiles, submissions, pages, drafts, cookie, logins, tasks, told>>
  BY DEF SessionExpires
<1>2. sessions' \in [0 .. MaxLogins -> Account] /\ cookie' \in 0 .. MaxLogins
  BY <1>1 DEF IInv, TypeOK, Account
<1> QED
  BY <1>1, <1>2, DraftsSame, LoginsTyped, ProfilesSame, SessionInv

LEMMA StutterInv ==
  ASSUME IInv, UNCHANGED vars PROVE IInv'
<1>1. sessions' \in [0 .. MaxLogins -> Account] /\ cookie' \in 0 .. MaxLogins
  BY DEF IInv, TypeOK, vars
<1> QED
  BY <1>1, DraftsSame, LoginsTyped, ProfilesSame, SessionInv DEF vars

-----------------------------------------------------------------------------
(* Theorems.                                                               *)

LEMMA InitInv ==
  ASSUME Init PROVE IInv
<1>1. TypeOK
  <2>1. \A r \in Readers : profiles[r] \in [text : Text, revision : Nat, imported : BOOLEAN]
    BY TextTypes DEF Init
  <2>2. pages = << >> /\ logins = << >>
    BY DEF Init
  <2> QED
    BY <2>1, <2>2, ConstantTypes, BoundsAssumption DEF Init, TypeOK, Account
<1>2. PagesSound /\ DraftsSound
  BY DEF Init, PagesSound, DraftsSound
<1>3. RowsSound
  BY ConstantTypes DEF Init, RowsSound, RowSound
<1>4. TasksSound /\ ToldSound
  BY ConstantTypes DEF Init, TasksSound, TaskSound, ToldSound
<1>5. ProfilesSound
  BY TextTypes DEF Init, ProfilesSound, Own
<1>6. SavesAreSerial
  <2>1. \A r : SavesOf(r) = {}
    BY ConstantTypes DEF Init, SavesOf
  <2>2. Cardinality({}) = 0
    BY FS_EmptySet
  <2>3. 0 .. (0 - 1) = {} /\ \A r \in Readers : profiles[r].revision = 0
    BY DEF Init
  <2> QED
    BY <2>1, <2>2, <2>3 DEF SavesAreSerial
<1> QED
  BY <1>1, <1>2, <1>3, <1>4, <1>5, <1>6 DEF IInv

LEMMA NextInv ==
  ASSUME IInv, [Next]_vars PROVE IInv'
<1>1. ASSUME Show PROVE IInv'
  BY <1>1, ShowInv
<1>2. ASSUME NEW n \in 1 .. MaxPages, Restore(n) \/ Expired(n) \/ \E s \in Slots : Edit(s, n)
      PROVE  IInv'
  BY <1>2, RestoreInv, ExpiredInv, EditInv
<1>3. ASSUME NEW s \in Slots, \/ Discard(s) \/ Prepare(s) \/ Apply(s) \/ ApplyFails(s)
                              \/ Acknowledge(s) \/ Check(s) \/ Fails(s)
      PROVE  IInv'
  BY <1>3, DiscardInv, PrepareInv, ApplyInv, ApplyFailsInv, AcknowledgeInv, CheckInv, FailsInv
<1>4. ASSUME NEW n \in 0 .. MaxPages, Login(n) PROVE IInv'
  BY <1>4, LoginInv
<1>5. ASSUME NEW r \in Readers, Callback(r) PROVE IInv'
  BY <1>5, CallbackInv
<1>6. ASSUME CallbackRefused \/ Logout \/ SessionExpires \/ UNCHANGED vars PROVE IInv'
  BY <1>6, CallbackRefusedInv, LogoutInv, SessionExpiresInv, StutterInv
<1> QED
  BY <1>1, <1>2, <1>3, <1>4, <1>5, <1>6 DEF Next

\* The forms, saves, drafts and requests of a browser agree on whose they are,
\* and a save keeps its reader, revision, text and outcome.
THEOREM ProfileInvariant == Spec => []IInv
  BY InitInv, NextInv, PTL DEF Spec

\* A save reported as failed or in conflict is never applied, however late its
\* first request runs, and one reported as saved was (saves.rs check).
THEOREM ToldAlwaysTrue == Spec => []ToldStaysTrue
<1>1. IInv => ToldStaysTrue
  BY DEF IInv, ToldSound, ToldStaysTrue
<1> QED
  BY <1>1, ProfileInvariant, PTL

\* Saves are applied one after the other, each to the profile its page showed:
\* none is lost or applied twice, and no sign-in replaces what was saved (saves.rs
\* save, profile.rs import_name).
THEOREM SavesAlwaysSerial == Spec => []SavesAreSerial
<1>1. IInv => SavesAreSerial
  BY DEF IInv
<1> QED
  BY <1>1, ProfileInvariant, PTL

\* Nobody is shown what another account typed in the browser, whatever accounts
\* sign in and whichever recovery link is followed (recovery.rs).
THEOREM DraftsAlwaysPrivate == Spec => []DraftsStayPrivate
<1>1. IInv => DraftsStayPrivate
  BY DEF IInv, PagesSound, PageSound, Own, DraftsStayPrivate
<1> QED
  BY <1>1, ProfileInvariant, PTL

-----------------------------------------------------------------------------
(* Catalog: the admission that the instances of the deployment share.       *)

\* The catalog counts as this module does.
LEMMA CatalogCounts == \A S : C!Cardinality(S) = Cardinality(S)
BY DEF C!Cardinality, Cardinality

Admission == [reader : Readers, at : Nat]

\* A request, as far as its admission goes.
AskSound(request) ==
    /\ DOMAIN request = DOMAIN C!Idle
    /\ request.at \notin {"idle", "done"} => request.reader \in Readers
    /\ request.at = "admitting" =>
          /\ request.since \in Nat
          /\ gate <= request.since /\ request.since <= now
          /\ Cardinality({row \in C!Recent(request.since) : row.reader = request.reader})
                 < ReaderLimit

\* What is left of the admissions is finite, and holds each one of the last window.
TableSound ==
    /\ now \in Nat /\ gate \in Nat
    /\ admissions \subseteq Admission /\ IsFiniteSet(admissions)
    /\ admitted \in Seq(Admission)
    /\ \A i \in DOMAIN admitted :
          /\ admitted[i].at <= now
          /\ admitted[i].at + GateInterval <= gate
          /\ admitted[i].at > now - Window => admitted[i] \in admissions

Of(reader) == {i \in DOMAIN admitted : admitted[i].reader = reader}
Calling(reader) == {s \in InFlight : requests[s].at = "call" /\ requests[s].reader = reader}

\* A permit is spent or in the hand of a request that goes on to the provider.
PermitsSound ==
    /\ dispatched \in [Readers -> Nat]
    /\ \A reader \in Readers :
          dispatched[reader] + Cardinality(Calling(reader)) <= Cardinality(Of(reader))

Later(i) == {j \in DOMAIN admitted :
                /\ j >= i
                /\ admitted[j].reader = admitted[i].reader
                /\ admitted[j].at < admitted[i].at + Window}

Spaced ==
    \A i, j \in DOMAIN admitted : i < j => admitted[j].at - admitted[i].at >= GateInterval

Limited == \A i \in DOMAIN admitted : Cardinality(Later(i)) <= ReaderLimit

\* The advisory lock admits one request at a time.
OneAdmits ==
    \A s, t \in InFlight : requests[s].at = "admitting" /\ requests[t].at = "admitting" => s = t

AInv ==
    /\ DOMAIN requests = InFlight
    /\ \A s \in InFlight : AskSound(requests[s])
    /\ TableSound /\ PermitsSound /\ OneAdmits /\ Spaced /\ Limited

\* The admissions of a reader are counted by a number.
LEMMA OfFinite ==
    ASSUME TableSound, NEW reader
    PROVE  /\ IsFiniteSet(DOMAIN admitted)
           /\ IsFiniteSet(Of(reader)) /\ Cardinality(Of(reader)) \in Nat
<1>1. DOMAIN admitted = 1 .. Len(admitted) /\ Len(admitted) \in Nat
    BY DEF TableSound
<1>2. IsFiniteSet(1 .. Len(admitted))
    BY <1>1, FS_Interval
<1>3. Of(reader) \subseteq 1 .. Len(admitted)
    BY <1>1 DEF Of
<1>4. IsFiniteSet(Of(reader))
    BY <1>2, <1>3, FS_Subset
<1> QED BY <1>1, <1>2, <1>4, FS_CardinalityType

\* The invariant says more than the property.
LEMMA AInvSuffices == AInv => C!AdmissionsWithinLimits
<1> SUFFICES ASSUME AInv PROVE C!AdmissionsWithinLimits OBVIOUS
<1>1. ASSUME NEW reader \in Readers
      PROVE  dispatched[reader] <= Cardinality(Of(reader))
    <2>1. IsFiniteSet(Calling(reader))
        BY FS_Subset, InFlightAssumption DEF Calling
    <2>2. Cardinality(Calling(reader)) \in Nat
        BY <2>1, FS_CardinalityType
    <2>5. Cardinality(Of(reader)) \in Nat
        BY OfFinite DEF AInv
    <2> QED BY <2>2, <2>5 DEF AInv, PermitsSound
<1>2. Spaced /\ Limited
    BY DEF AInv
<1> QED
    BY <1>1, <1>2, CatalogCounts DEF C!AdmissionsWithinLimits, Of, Later, Spaced, Limited

Tables == <<now, gate, admissions, admitted>>

\* The requests of one slot change, and nothing they are judged by.
LEMMA TablesKept ==
    ASSUME UNCHANGED Tables
    PROVE  /\ TableSound <=> TableSound'
           /\ Spaced <=> Spaced'
           /\ Limited <=> Limited'
           /\ \A reader : Of(reader)' = Of(reader)
           /\ \A request : AskSound(request)' <=> AskSound(request)
BY DEF Tables, TableSound, Spaced, Limited, Later, Of, AskSound, C!Recent

\* So are the requests of a reader that go on to the provider,
LEMMA CallingFinite ==
    ASSUME NEW reader
    PROVE  IsFiniteSet(Calling(reader)) /\ Cardinality(Calling(reader)) \in Nat
<1>1. IsFiniteSet(Calling(reader))
    BY FS_Subset, InFlightAssumption DEF Calling
<1> QED BY <1>1, FS_CardinalityType

\* before a step and after it.
LEMMA CallingFinitePrime ==
    ASSUME NEW reader
    PROVE  IsFiniteSet(Calling(reader))' /\ Cardinality(Calling(reader))' \in Nat
<1>1. IsFiniteSet(Calling(reader))'
    BY FS_Subset, InFlightAssumption DEF Calling
<1> QED BY <1>1, FS_CardinalityType

\* Of one slot's new request: whoever did not call before does not call now.
LEMMA QuietStep ==
    ASSUME AInv, UNCHANGED <<Tables, dispatched>>, DOMAIN requests' = InFlight,
           \A s \in InFlight : AskSound(requests'[s]),
           \A s \in InFlight : requests'[s].at = "call" =>
                requests[s].at = "call" /\ requests'[s].reader = requests[s].reader,
           OneAdmits'
    PROVE  AInv'
<1>1. \A s \in InFlight : AskSound(requests[s])'
    BY TablesKept DEF Tables, AskSound, C!Recent
<1>2. ASSUME NEW reader \in Readers
      PROVE  Cardinality(Calling(reader))' <= Cardinality(Calling(reader))
    <2>1. Calling(reader)' \subseteq Calling(reader)
        BY DEF Calling
    <2> QED BY <2>1, FS_Subset, CallingFinite
<1>3. PermitsSound'
    <2> SUFFICES ASSUME NEW reader \in Readers
                 PROVE  dispatched[reader] + Cardinality(Calling(reader))'
                            <= Cardinality(Of(reader))
        BY TablesKept DEF PermitsSound, AInv, Tables
    <2>1. Cardinality(Calling(reader))' \in Nat /\ Cardinality(Calling(reader)) \in Nat
        BY CallingFinite, CallingFinitePrime
    <2>2. dispatched[reader] \in Nat
        BY DEF AInv, PermitsSound
    <2>4. Cardinality(Of(reader)) \in Nat
        BY OfFinite DEF AInv
    <2> QED BY <1>2, <2>1, <2>2, <2>4 DEF AInv, PermitsSound
<1> QED
    BY <1>1, <1>3, TablesKept DEF AInv

\* One slot goes on, neither to admit nor to the provider.
LEMMA QuietMove ==
    ASSUME AInv, UNCHANGED <<Tables, dispatched>>, NEW slot \in InFlight, NEW next,
           C!Move(slot, next), DOMAIN next = DOMAIN C!Idle,
           next.at \notin {"admitting", "call"},
           next.at \notin {"idle", "done"} => next.reader \in Readers
    PROVE  AInv'
<1>1. requests' = [requests EXCEPT ![slot] = next] /\ DOMAIN requests' = InFlight
    BY DEF C!Move, AInv
<1>2. \A s \in InFlight : requests'[s] = IF s = slot THEN next ELSE requests[s]
    BY <1>1 DEF AInv
<1>3. AskSound(next)
    BY DEF AskSound
<1>4. OneAdmits'
    BY <1>2 DEF AInv, OneAdmits
<1>5. \A s \in InFlight : AskSound(requests'[s])
    BY <1>2, <1>3 DEF AInv
<1> HIDE DEF Tables
<1> QED
    BY <1>1, <1>2, <1>4, <1>5, QuietStep

\* An answer, found or fallen back on, is the end of its request.
LEMMA AnswerDone ==
    ASSUME NEW request, NEW page
    PROVE  /\ DOMAIN C!Answer(request, page) = DOMAIN C!Idle
           /\ C!Answer(request, page).at = "done"
           /\ DOMAIN C!Fallback(request) = DOMAIN C!Idle
           /\ C!Fallback(request).at = "done"
BY DEF C!Answer, C!Fallback, C!Idle

\* Nothing is admitted at first.
LEMMA InitA == C!Init => AInv
<1> SUFFICES ASSUME C!Init PROVE AInv OBVIOUS
<1>1. \A s \in InFlight : requests[s] = C!Idle
    BY DEF C!Init
<1>2. C!Idle.at = "idle"
    BY DEF C!Idle
<1>3. \A s \in InFlight : AskSound(requests[s])
    BY <1>1, <1>2 DEF AskSound
<1>4. TableSound
    BY FS_EmptySet DEF TableSound, C!Init
<1>5. Spaced /\ Limited
    BY DEF Spaced, Limited, C!Init
<1>6. PermitsSound
    <2>1. \A reader : Calling(reader) = {} /\ Of(reader) = {}
        BY <1>1, <1>2 DEF Calling, Of, C!Init
    <2>2. \A reader : Cardinality(Calling(reader)) = 0 /\ Cardinality(Of(reader)) = 0
        BY <2>1, FS_EmptySet
    <2> QED BY <2>2 DEF PermitsSound, C!Init
<1>7. OneAdmits
    BY <1>1, <1>2 DEF OneAdmits
<1>8. DOMAIN requests = InFlight
    BY DEF C!Init
<1> QED BY <1>3, <1>4, <1>5, <1>6, <1>7, <1>8 DEF AInv

\* Time passes: an admission leaves the window and never enters it again.
LEMMA TickA == AInv /\ C!Tick => AInv'
<1> SUFFICES ASSUME AInv, C!Tick PROVE AInv' OBVIOUS
<1> USE DEF C!tables
<1>1. now' = now + 1 /\ now \in Nat
    BY DEF C!Tick, AInv, TableSound
<1>2. TableSound'
    <2>1. UNCHANGED <<gate, admissions, admitted>>
        BY DEF C!Tick
    <2>2. ASSUME NEW i \in DOMAIN admitted
          PROVE  /\ admitted[i].at <= now'
                 /\ admitted[i].at > now' - Window => admitted[i] \in admissions
        <3>1. admitted[i] \in Admission
            BY DEF AInv, TableSound
        <3>2. admitted[i].at \in Nat
            BY <3>1 DEF Admission
        <3>3. Window \in Nat
            BY LimitsAssumption
        <3>4. admitted[i].at <= now /\ (admitted[i].at > now - Window => admitted[i] \in admissions)
            BY DEF AInv, TableSound
        <3> QED BY <1>1, <3>2, <3>3, <3>4
    <2>3. \A i \in DOMAIN admitted : admitted[i].at + GateInterval <= gate
        BY DEF AInv, TableSound
    <2>4. /\ admissions \subseteq Admission /\ IsFiniteSet(admissions)
          /\ admitted \in Seq(Admission) /\ gate \in Nat /\ now' \in Nat
        BY <1>1 DEF AInv, TableSound
    <2>5. \A i \in DOMAIN admitted :
             /\ admitted[i].at <= now'
             /\ admitted[i].at > now' - Window => admitted[i] \in admissions
        BY <2>2
    <2> QED BY <2>1, <2>3, <2>4, <2>5 DEF TableSound
<1>3. \A s \in InFlight : AskSound(requests[s])'
    BY <1>1 DEF C!Tick, AInv, AskSound, C!Recent
<1>4. PermitsSound' /\ OneAdmits' /\ Spaced' /\ Limited'
    BY DEF C!Tick, AInv, PermitsSound, Calling, Of, OneAdmits, Spaced, Limited, Later
<1> QED
    BY <1>2, <1>3, <1>4 DEF AInv, C!Tick

\* A visitor asks (catalog.rs search).
LEMMA AskA ==
    ASSUME AInv, NEW slot \in InFlight, NEW reader \in Readers, NEW work,
           C!Ask(slot, reader, work)
    PROVE  AInv'
<1> DEFINE next == [C!Idle EXCEPT !.reader = reader, !.work = work,
                               !.at = IF work = C!NoWork THEN "admit" ELSE "read"]
<1>1. DOMAIN next = DOMAIN C!Idle /\ next.at \in {"admit", "read"} /\ next.reader = reader
    BY DEF C!Idle
<1>2. C!Move(slot, next) /\ UNCHANGED <<Tables, dispatched>>
    BY DEF C!Ask, Tables, C!tables
<1> HIDE DEF next
<1> QED BY <1>1, <1>2, QuietMove

\* A lookup reads its work (cache.rs).
LEMMA ReadA ==
    ASSUME AInv, NEW slot \in InFlight, C!Read(slot)
    PROVE  AInv'
<1> DEFINE request == requests[slot]
           Got(e) == [request EXCEPT !.cached = e, !.at = "admit"]
<1>1. UNCHANGED <<Tables, dispatched>>
    BY DEF C!Read, Tables
<1>2. AskSound(request) /\ request.at = "read"
    BY DEF AInv, C!Read
<1>3. ASSUME NEW e
      PROVE DOMAIN Got(e) = DOMAIN C!Idle /\ Got(e).at = "admit" /\ Got(e).reader \in Readers
    BY <1>2 DEF AskSound, C!Idle
<1>4. PICK e : C!Move(slot, IF C!is_fresh(e)
                          THEN C!Answer(Got(e), C!Page(request.work, e.fields)) ELSE Got(e))
    BY DEF C!Read
<1> HIDE DEF Got
<1>5. CASE C!is_fresh(e)
    BY <1>1, <1>4, <1>5, AnswerDone, QuietMove
<1>6. CASE ~C!is_fresh(e)
    BY <1>1, <1>3, <1>4, <1>6, QuietMove
<1> QED BY <1>5, <1>6

\* A request that is refused or fails ends with what the cache had.
LEMMA FallbackA ==
    ASSUME AInv, NEW slot \in InFlight, NEW request, UNCHANGED <<Tables, dispatched>>,
           C!Move(slot, C!Fallback(request))
    PROVE  AInv'
BY AnswerDone, QuietMove

\* A request takes the lock and counts what it finds (admission.rs admit).
LEMMA AdmitA ==
    ASSUME AInv, NEW slot \in InFlight, C!Admit(slot)
    PROVE  AInv'
<1> DEFINE request == requests[slot]
           next == [request EXCEPT !.at = "admitting", !.since = now]
<1>1. UNCHANGED <<Tables, dispatched>>
    BY DEF C!Admit, Tables, C!tables
<1>2. AskSound(request) /\ request.at = "admit"
    BY DEF AInv, C!Admit
<1>3. CASE C!Move(slot, C!Fallback(request))
    BY <1>1, <1>3, FallbackA
<1>4. ASSUME C!unlocked(slot), gate <= now,
             Cardinality({row \in C!Recent(now) : row.reader = request.reader}) < ReaderLimit,
             C!Move(slot, next)
      PROVE  AInv'
    <2>1. /\ DOMAIN next = DOMAIN C!Idle /\ next.at = "admitting" /\ next.since = now
          /\ next.reader = request.reader /\ request.reader \in Readers
        BY <1>2 DEF AskSound, C!Idle
    <2>2. requests' = [requests EXCEPT ![slot] = next] /\ DOMAIN requests' = InFlight
        BY <1>4 DEF C!Move, AInv
    <2>3. \A s \in InFlight : requests'[s] = IF s = slot THEN next ELSE requests[s]
        BY <2>2 DEF AInv
    <2> HIDE DEF next
    <2>4. AskSound(next)
        BY <1>4, <2>1 DEF AskSound, AInv, TableSound
    <2>5. \A s \in InFlight : AskSound(requests'[s])
        BY <2>3, <2>4 DEF AInv
    <2>6. OneAdmits'
        BY <1>4, <2>1, <2>3 DEF C!unlocked, OneAdmits
    <2>7. \A s \in InFlight : requests'[s].at = "call" =>
                requests[s].at = "call" /\ requests'[s].reader = requests[s].reader
        BY <2>1, <2>3
    <2> QED BY <1>1, <2>2, <2>5, <2>6, <2>7, QuietStep
<1> QED BY <1>3, <1>4, CatalogCounts DEF C!Admit

\* The transaction of an admission is lost.
LEMMA CommitFailsA ==
    ASSUME AInv, NEW slot \in InFlight, C!CommitFails(slot)
    PROVE  AInv'
<1>1. UNCHANGED <<Tables, dispatched>>
    BY DEF C!CommitFails, Tables, C!tables
<1> QED BY <1>1, FallbackA DEF C!CommitFails

\* An answer is stored; nobody is admitted by it.
LEMMA KeepA ==
    ASSUME AInv, NEW slot \in InFlight, C!Keep(slot)
    PROVE  AInv'
<1> DEFINE request == requests[slot]
           result == [work \in DOMAIN request.found |-> C!enriched(request, work)]
           seen(s) == [requests[s] EXCEPT !.evicted = TRUE]
<1>1. UNCHANGED <<Tables, dispatched>>
    BY DEF C!Keep, Tables
<1>2. \A s \in InFlight : seen(s).at = requests[s].at /\ seen(s).reader = requests[s].reader
                      /\ seen(s).since = requests[s].since /\ DOMAIN seen(s) = DOMAIN C!Idle
    BY DEF AInv, AskSound, C!Idle
<1>3. /\ DOMAIN requests' = InFlight
      /\ requests'[slot] = C!Answer(request, result)
      /\ \A s \in InFlight \ {slot} : requests'[s] \in {requests[s], seen(s)}
    BY DEF C!Keep
<1>4. requests'[slot].at = "done" /\ DOMAIN requests'[slot] = DOMAIN C!Idle
    BY <1>3, AnswerDone
<1> HIDE DEF seen
<1>5. \A s \in InFlight \ {slot} : /\ requests'[s].at = requests[s].at
                               /\ requests'[s].reader = requests[s].reader
                               /\ requests'[s].since = requests[s].since
                               /\ DOMAIN requests'[s] = DOMAIN C!Idle
    BY <1>2, <1>3 DEF AInv, AskSound
<1>6. \A s \in InFlight : AskSound(requests'[s])
    BY <1>4, <1>5 DEF AInv, AskSound
<1>7. OneAdmits'
    BY <1>4, <1>5 DEF AInv, OneAdmits
<1> QED BY <1>1, <1>3, <1>4, <1>5, <1>6, <1>7, QuietStep

\* Neither by an answer that could not be stored.
LEMMA KeepFailsA ==
    ASSUME AInv, NEW slot \in InFlight, C!KeepFails(slot)
    PROVE  AInv'
<1>1. UNCHANGED <<Tables, dispatched>>
    BY DEF C!KeepFails, Tables, C!tables
<1>2. PICK page : C!Move(slot, C!Answer(requests[slot], page))
    BY DEF C!KeepFails
<1> QED BY <1>1, <1>2, AnswerDone, QuietMove

\* A request whose process dies takes its permit with it.
LEMMA DieA ==
    ASSUME AInv, NEW slot \in InFlight, C!Die(slot)
    PROVE  AInv'
<1>1. UNCHANGED <<Tables, dispatched>>
    BY DEF C!Die, Tables, C!tables
<1>2. C!Idle.at = "idle"
    BY DEF C!Idle
<1> QED BY <1>1, <1>2, QuietMove DEF C!Die

\* A request calls the provider: its permit is spent.
LEMMA CallA ==
    ASSUME AInv, NEW slot \in InFlight, C!Call(slot)
    PROVE  AInv'
<1> DEFINE request == requests[slot]
<1>1. UNCHANGED Tables /\ dispatched' = [dispatched EXCEPT ![request.reader] = @ + 1]
    BY DEF C!Call, Tables
<1>2. AskSound(request) /\ request.at = "call" /\ request.reader \in Readers
    BY DEF AInv, C!Call, AskSound
<1>3. PICK next : C!Move(slot, next) /\ DOMAIN next = DOMAIN C!Idle /\ next.at \in {"done", "keep"}
                  /\ (next.at = "keep" => next.reader = request.reader)
    <2>1. ASSUME NEW page
          PROVE  LET next == [request EXCEPT !.at = "keep", !.found = page, !.since = now]
                 IN  DOMAIN next = DOMAIN C!Idle /\ next.at = "keep" /\ next.reader = request.reader
        BY <1>2 DEF AskSound, C!Idle
    <2>2. CASE C!Move(slot, C!Fallback(request))
        BY <2>2, AnswerDone
    <2>3. CASE \E page : C!Move(slot, C!Answer(request, page))
        BY <2>3, AnswerDone
    <2>4. CASE \E page : C!Move(slot, [request EXCEPT !.at = "keep", !.found = page, !.since = now])
        BY <2>1, <2>4
    <2> QED BY <2>2, <2>3, <2>4 DEF C!Call
<1>4. requests' = [requests EXCEPT ![slot] = next] /\ DOMAIN requests' = InFlight
    BY <1>3 DEF C!Move, AInv
<1>5. \A s \in InFlight : requests'[s] = IF s = slot THEN next ELSE requests[s]
    BY <1>4 DEF AInv
<1>6. \A s \in InFlight : AskSound(requests[s])'
    <2>1. AskSound(next)
        BY <1>2, <1>3 DEF AskSound
    <2>2. \A s \in InFlight : AskSound(requests'[s])
        BY <1>5, <2>1 DEF AInv
    <2> QED BY <1>1, <2>2 DEF Tables, AskSound, C!Recent
<1>7. OneAdmits'
    BY <1>3, <1>5 DEF AInv, OneAdmits
<1>8. PermitsSound'
    <2>1. dispatched' \in [Readers -> Nat]
        BY <1>1, <1>2 DEF AInv, PermitsSound
    <2>2. ASSUME NEW reader \in Readers
          PROVE  dispatched'[reader] + Cardinality(Calling(reader))'
                            <= Cardinality(Of(reader))
        <3>1. Calling(reader)' = Calling(reader) \ {slot}
            BY <1>3, <1>5 DEF Calling
        <3>2. slot \in Calling(reader) <=> reader = request.reader
            BY <1>2 DEF Calling
        <3>3. dispatched'[reader] = IF reader = request.reader THEN dispatched[reader] + 1
                                    ELSE dispatched[reader]
            BY <1>1 DEF AInv, PermitsSound
        <3>4. Cardinality(Calling(reader))' = IF slot \in Calling(reader)
                    THEN Cardinality(Calling(reader)) - 1 ELSE Cardinality(Calling(reader))
            BY <3>1, FS_RemoveElement, CallingFinite
        <3>5. /\ Cardinality(Calling(reader)) \in Nat /\ dispatched[reader] \in Nat
              /\ Cardinality(Of(reader)) \in Nat
              /\ dispatched[reader] + Cardinality(Calling(reader)) <= Cardinality(Of(reader))
            BY CallingFinite, OfFinite DEF AInv, PermitsSound
        <3> QED BY <3>2, <3>3, <3>4, <3>5
    <2> QED BY <2>1, <2>2, <1>1, TablesKept DEF PermitsSound
<1> QED BY <1>1, <1>4, <1>6, <1>7, <1>8, TablesKept DEF AInv

\* What a commit adds: an admission of its own, in the limits of its reader.
LEMMA CommitRows ==
    ASSUME AInv, NEW slot \in InFlight, C!Commit(slot)
    PROVE  LET n == Len(admitted) + 1
               row == [reader |-> requests[slot].reader, at |-> now]
           IN /\ TableSound' /\ Spaced' /\ Limited'
              /\ DOMAIN admitted' = DOMAIN admitted \cup {n} /\ n \notin DOMAIN admitted
              /\ admitted'[n] = row
              /\ \A i \in DOMAIN admitted : admitted'[i] = admitted[i]
<1> DEFINE request == requests[slot]
           r == request.reader
           row == [reader |-> r, at |-> now]
           n == Len(admitted) + 1
           mine == {x \in C!Recent(request.since) : x.reader = r}
<1>1. /\ request.at = "admitting" /\ r \in Readers
      /\ request.since \in Nat /\ gate <= request.since /\ request.since <= now
      /\ Cardinality(mine) < ReaderLimit
    BY DEF C!Commit, AInv, AskSound
<1>2. /\ admissions' = C!Recent(request.since) \cup {row}
      /\ admitted' = Append(admitted, row)
      /\ gate' = now + GateInterval /\ now' = now
    BY DEF C!Commit
<1>3. /\ now \in Nat /\ gate \in Nat /\ Window \in Nat
      /\ GateInterval \in Nat /\ GateInterval > 0 /\ ReaderLimit \in Nat
    BY LimitsAssumption DEF AInv, TableSound
<1>4. admitted \in Seq(Admission) /\ row \in Admission
    BY <1>1, <1>3 DEF AInv, TableSound, Admission
<1> HIDE DEF row
<1>5. /\ Len(admitted) \in Nat /\ DOMAIN admitted = 1 .. Len(admitted)
      /\ admitted' \in Seq(Admission) /\ DOMAIN admitted' = 1 .. n
      /\ admitted'[n] = row /\ \A i \in DOMAIN admitted : admitted'[i] = admitted[i]
    BY <1>2, <1>4
<1>6. DOMAIN admitted' = DOMAIN admitted \cup {n} /\ n \notin DOMAIN admitted
    BY <1>5
<1> HIDE DEF n
<1>7. row.at = now /\ row.reader = r
    BY DEF row
<1>8. \A i \in DOMAIN admitted :
         /\ admitted[i].at \in Nat /\ admitted[i].at <= now
         /\ admitted[i].at + GateInterval <= now
         /\ admitted[i].at > now - Window => admitted[i] \in C!Recent(request.since)
    <2> SUFFICES ASSUME NEW i \in DOMAIN admitted
                 PROVE  /\ admitted[i].at \in Nat /\ admitted[i].at <= now
                        /\ admitted[i].at + GateInterval <= now
                        /\ admitted[i].at > now - Window => admitted[i] \in C!Recent(request.since)
        OBVIOUS
    <2>0. admitted[i] \in Admission
        BY <1>4, <1>5
    <2>1. admitted[i].at \in Nat
        BY <2>0 DEF Admission
    <2> QED BY <1>1, <1>3, <2>1 DEF AInv, TableSound, C!Recent
<1>9. IsFiniteSet(C!Recent(request.since)) /\ C!Recent(request.since) \subseteq Admission
    BY FS_Subset DEF AInv, TableSound, C!Recent
<1>10. TableSound'
    <2>1. IsFiniteSet(admissions') /\ admissions' \subseteq Admission
        BY <1>2, <1>4, <1>9, FS_AddElement
    <2>2. gate' \in Nat
        BY <1>2, <1>3
    <2>3. ASSUME NEW i \in DOMAIN admitted'
          PROVE  /\ admitted'[i].at <= now
                 /\ admitted'[i].at + GateInterval <= gate'
                 /\ admitted'[i].at > now - Window => admitted'[i] \in admissions'
        <3>1. CASE i = n
            BY <1>2, <1>3, <1>5, <1>7, <3>1
        <3>2. CASE i \in DOMAIN admitted
            BY <1>2, <1>3, <1>5, <1>8, <3>2
        <3> QED BY <1>6, <3>1, <3>2
    <2> QED BY <1>2, <1>3, <1>5, <2>1, <2>2, <2>3 DEF TableSound
<1>11. Spaced'
    <2> SUFFICES ASSUME NEW i \in DOMAIN admitted', NEW j \in DOMAIN admitted', i < j
                 PROVE  admitted'[j].at - admitted'[i].at >= GateInterval
        BY DEF Spaced
    <2>1. i \in DOMAIN admitted
        BY <1>5, <1>6 DEF n
    <2>2. CASE j = n
        BY <1>3, <1>5, <1>7, <1>8, <2>1, <2>2
    <2>3. CASE j \in DOMAIN admitted
        BY <1>5, <2>1, <2>3 DEF AInv, Spaced
    <2> QED BY <1>6, <2>2, <2>3
<1>12. IsFiniteSet(mine) /\ Cardinality(mine) \in Nat
    BY <1>9, FS_Subset, FS_CardinalityType
<1>13. ASSUME NEW i \in DOMAIN admitted'
       PROVE  Cardinality(Later(i))' <= ReaderLimit
    <2>1. CASE i \in DOMAIN admitted /\ ~(admitted[i].reader = r /\ now < admitted[i].at + Window)
        <3>1. Later(i)' = Later(i)
            BY <1>5, <1>6, <1>7, <2>1 DEF Later
        <3> QED BY <2>1, <3>1 DEF AInv, Limited
    <2>2. CASE i \in DOMAIN admitted /\ admitted[i].reader = r /\ now < admitted[i].at + Window
        <3> DEFINE f == [j \in Later(i) |-> admitted[j]]
        <3>1. Later(i)' \subseteq Later(i) \cup {n}
            BY <1>5, <1>6, <2>2 DEF Later
        <3>2. \A j \in Later(i) : admitted[j] \in mine
            <4> SUFFICES ASSUME NEW j \in Later(i) PROVE admitted[j] \in mine
                OBVIOUS
            <4>1. j \in DOMAIN admitted /\ j >= i /\ admitted[j].reader = r
                BY <2>2 DEF Later
            <4>2. admitted[j].at >= admitted[i].at
                <5>1. CASE j = i
                    BY <1>8, <2>2, <5>1
                <5>2. CASE j # i
                    <6>1. i < j
                        BY <1>5, <2>2, <4>1, <5>2
                    <6>2. admitted[j].at - admitted[i].at >= GateInterval
                        BY <2>2, <4>1, <6>1 DEF AInv, Spaced
                    <6> QED BY <1>3, <1>8, <2>2, <4>1, <6>2
                <5> QED BY <5>1, <5>2
            <4>3. admitted[j].at > now - Window
                BY <1>3, <1>8, <2>2, <4>1, <4>2
            <4> QED BY <1>8, <4>1, <4>3
        <3>3. \A j, k \in Later(i) : j # k => admitted[j] # admitted[k]
            <4> SUFFICES ASSUME NEW j \in Later(i), NEW k \in Later(i), j < k
                         PROVE  admitted[j] # admitted[k]
                BY <1>5 DEF Later
            <4>1. j \in DOMAIN admitted /\ k \in DOMAIN admitted
                BY DEF Later
            <4>2. admitted[k].at - admitted[j].at >= GateInterval
                BY <4>1 DEF AInv, Spaced
            <4> QED BY <1>3, <1>8, <4>1, <4>2
        <3>4. f \in Injection(Later(i), mine)
            BY <3>2, <3>3 DEF Injection, IsInjective
        <3>5. IsFiniteSet(Later(i)) /\ Cardinality(Later(i)) <= Cardinality(mine)
            BY <1>12, <3>4, FS_Injection
        <3>6. IsFiniteSet(Later(i) \cup {n})
              /\ Cardinality(Later(i) \cup {n}) <= Cardinality(Later(i)) + 1
              /\ Cardinality(Later(i)) \in Nat
            <4>1. Cardinality(Later(i)) \in Nat
                BY <3>5, FS_CardinalityType
            <4>2. /\ IsFiniteSet(Later(i) \cup {n})
                  /\ \/ Cardinality(Later(i) \cup {n}) = Cardinality(Later(i))
                     \/ Cardinality(Later(i) \cup {n}) = Cardinality(Later(i)) + 1
                BY <3>5, FS_AddElement
            <4> QED BY <4>1, <4>2
        <3>7. IsFiniteSet(Later(i)') /\ Cardinality(Later(i)') <= Cardinality(Later(i) \cup {n})
            BY <3>1, <3>6, FS_Subset
        <3>8. Cardinality(Later(i)') \in Nat /\ Cardinality(Later(i) \cup {n}) \in Nat
            BY <3>6, <3>7, FS_CardinalityType
        <3> QED BY <1>1, <1>3, <1>12, <3>5, <3>6, <3>7, <3>8
    <2>3. CASE i = n
        <3>1. Later(i)' \subseteq {n}
            BY <1>5, <1>6, <2>3 DEF Later, n
        <3>2. IsFiniteSet({n}) /\ Cardinality({n}) = 1
            BY FS_Singleton
        <3>3. Cardinality(Later(i)') <= 1 /\ Cardinality(Later(i)') \in Nat
            BY <3>1, <3>2, FS_Subset, FS_CardinalityType
        <3> QED BY <1>1, <1>3, <1>12, <3>3
    <2> QED BY <1>6, <2>1, <2>2, <2>3
<1>14. Limited'
    BY <1>13 DEF Limited
<1> QED
    BY <1>5, <1>6, <1>10, <1>11, <1>14 DEF n, row

\* An admission is committed: it is an interval behind the last one, and with it the
\* reader's requests of the window are still within the limit, since the count was taken
\* under the lock (admission.rs admit).
LEMMA CommitA ==
    ASSUME AInv, NEW slot \in InFlight, C!Commit(slot)
    PROVE  AInv'
<1> DEFINE request == requests[slot]
           n == Len(admitted) + 1
           row == [reader |-> request.reader, at |-> now]
<1>1. TableSound' /\ Spaced' /\ Limited'
    BY CommitRows
<1>2. /\ DOMAIN admitted' = DOMAIN admitted \cup {n} /\ n \notin DOMAIN admitted
      /\ admitted'[n] = row
      /\ \A i \in DOMAIN admitted : admitted'[i] = admitted[i]
    BY CommitRows
<1>3. AskSound(request) /\ request.at = "admitting" /\ request.reader \in Readers
    BY DEF AInv, C!Commit, AskSound
<1> HIDE DEF n
<1>4. PICK next : C!Move(slot, next) /\ DOMAIN next = DOMAIN C!Idle /\ next.at \in {"done", "call"}
                  /\ next.reader \in {request.reader, C!Idle.reader}
                  /\ (next.at = "call" => next.reader = request.reader)
    <2>1. LET next == [request EXCEPT !.at = "call"]
          IN  DOMAIN next = DOMAIN C!Idle /\ next.at = "call" /\ next.reader = request.reader
        BY <1>3 DEF AskSound, C!Idle
    <2>2. C!Fallback(request).reader = C!Idle.reader
        BY DEF C!Fallback, C!Answer, C!Idle
    <2>3. CASE C!Goto(slot, "call")
        BY <2>1, <2>3 DEF C!Goto
    <2>4. CASE C!Move(slot, C!Fallback(request))
        BY <2>2, <2>4, AnswerDone
    <2> QED BY <2>3, <2>4 DEF C!Commit
<1>5. requests' = [requests EXCEPT ![slot] = next] /\ DOMAIN requests' = InFlight
    BY <1>4 DEF C!Move, AInv
<1>6. \A s \in InFlight : requests'[s] = IF s = slot THEN next ELSE requests[s]
    BY <1>5 DEF AInv
<1>7. \A s \in InFlight : requests'[s].at # "admitting"
    BY <1>3, <1>4, <1>6 DEF AInv, OneAdmits
<1>8. OneAdmits'
    BY <1>7 DEF OneAdmits
<1>9. \A s \in InFlight : AskSound(requests[s])'
    BY <1>3, <1>4, <1>6, <1>7 DEF AInv, AskSound
<1>10. PermitsSound'
    <2>1. dispatched' = dispatched
        BY DEF C!Commit
    <2>2. ASSUME NEW reader \in Readers
          PROVE  dispatched[reader] + Cardinality(Calling(reader))' <= Cardinality(Of(reader))'
        <3>1. Calling(reader)' \subseteq IF reader = request.reader
                                        THEN Calling(reader) \cup {slot} ELSE Calling(reader)
            BY <1>4, <1>6 DEF Calling
        <3>2. Of(reader)' = IF reader = request.reader THEN Of(reader) \cup {n} ELSE Of(reader)
            BY <1>2 DEF Of
        <3>3. n \notin Of(reader)
            BY <1>2 DEF Of
        <3>4. /\ Cardinality(Calling(reader)) \in Nat /\ dispatched[reader] \in Nat
              /\ Cardinality(Of(reader)) \in Nat /\ IsFiniteSet(Of(reader))
              /\ IsFiniteSet(Calling(reader)) /\ Cardinality(Calling(reader))' \in Nat
              /\ dispatched[reader] + Cardinality(Calling(reader)) <= Cardinality(Of(reader))
            BY CallingFinite, CallingFinitePrime, OfFinite DEF AInv, PermitsSound
        <3>5. CASE reader = request.reader
            <4>1. Cardinality(Of(reader))' = Cardinality(Of(reader)) + 1
                BY <3>2, <3>3, <3>4, <3>5, FS_AddElement
            <4>2. IsFiniteSet(Calling(reader) \cup {slot})
                  /\ Cardinality(Calling(reader) \cup {slot}) <= Cardinality(Calling(reader)) + 1
                <5>1. /\ IsFiniteSet(Calling(reader) \cup {slot})
                      /\ \/ Cardinality(Calling(reader) \cup {slot}) = Cardinality(Calling(reader))
                         \/ Cardinality(Calling(reader) \cup {slot}) = Cardinality(Calling(reader)) + 1
                    BY <3>4, FS_AddElement
                <5> QED BY <3>4, <5>1
            <4>3. Cardinality(Calling(reader))' <= Cardinality(Calling(reader) \cup {slot})
                BY <3>1, <3>5, <4>2, FS_Subset
            <4>4. Cardinality(Calling(reader) \cup {slot}) \in Nat
                BY <4>2, FS_CardinalityType
            <4> QED BY <3>4, <4>1, <4>2, <4>3, <4>4
        <3>6. CASE reader # request.reader
            <4>1. Cardinality(Calling(reader))' <= Cardinality(Calling(reader))
                BY <3>1, <3>4, <3>6, FS_Subset
            <4> QED BY <3>2, <3>4, <3>6, <4>1
        <3> QED BY <3>5, <3>6
    <2> QED BY <2>1, <2>2 DEF AInv, PermitsSound
<1> QED BY <1>1, <1>5, <1>8, <1>9, <1>10 DEF AInv

\* Every step keeps the invariant.
LEMMA NextA == AInv /\ [C!Next]_C!vars => AInv'
<1> SUFFICES ASSUME AInv, [C!Next]_C!vars PROVE AInv' OBVIOUS
<1>1. CASE C!Tick
    BY <1>1, TickA
<1>2. ASSUME NEW slot \in InFlight,
             \/ \E reader \in Readers, work \in Works \union {C!NoWork} : C!Ask(slot, reader, work)
             \/ C!Read(slot) \/ C!Admit(slot) \/ C!Commit(slot) \/ C!CommitFails(slot)
             \/ C!Call(slot) \/ C!Keep(slot) \/ C!KeepFails(slot) \/ C!Die(slot)
      PROVE  AInv'
    BY <1>2, AskA, ReadA, AdmitA, CommitA, CommitFailsA, CallA, KeepA, KeepFailsA, DieA
<1>3. CASE UNCHANGED C!vars
    <2>1. \A request : AskSound(request)' <=> AskSound(request)
        BY <1>3, TablesKept DEF C!vars, Tables
    <2>2. TableSound' /\ Spaced' /\ Limited'
        BY <1>3, TablesKept DEF C!vars, Tables, AInv
    <2>3. PermitsSound' /\ OneAdmits'
        BY <1>3 DEF C!vars, AInv, PermitsSound, Calling, Of, OneAdmits
    <2>4. requests' = requests
        BY <1>3 DEF C!vars
    <2>5. \A s \in InFlight : AskSound(requests[s])'
        BY <1>3 DEF C!vars, AInv, AskSound, C!Recent
    <2> QED BY <2>2, <2>3, <2>4, <2>5 DEF AInv
<1> QED BY <1>1, <1>2, <1>3 DEF C!Next

\* However many instances share the catalog's tables, the provider is called at most once
\* an interval and a reader's calls of a window stay within the limit (admission.rs admit).
THEOREM AdmissionsAlwaysWithinLimits == C!Spec => []AdmissionsWithinLimits
<1>1. C!Spec => []AInv
    BY InitA, NextA, PTL DEF C!Spec
<1> QED BY <1>1, AInvSuffices, PTL DEF AdmissionsWithinLimits

-----------------------------------------------------------------------------
(* What a lookup has read. *)

\* The work a request has an entry of.
Shows(request) ==
    IF request.at = "done"
    THEN /\ request.work \in DOMAIN request.answer
         /\ request.cached.fields \subseteq request.answer[request.work]
    ELSE /\ cache[request.work].known
         /\ request.cached.fields \subseteq cache[request.work].fields

\* A lookup's entry is of a work; the cache has all of it while the lookup is in flight,
\* and its answer once it is done, unless the work was evicted.
LookupSound(request) ==
    /\ DOMAIN request = DOMAIN C!Idle
    /\ request.cached.known => request.work \in Works
    /\ request.at = "idle" => ~request.cached.known
    /\ request.at = "read" => request.work \in Works /\ ~request.cached.known
    /\ request.at = "keep" =>
          /\ DOMAIN request.found \subseteq Works
          /\ request.work = C!NoWork \/ DOMAIN request.found = {request.work}
    /\ request.cached.known /\ ~request.evicted => Shows(request)

MInv == DOMAIN requests = InFlight /\ \A s \in InFlight : LookupSound(requests[s])

\* One request goes on, and the cache stays as it is.
LEMMA MoveM ==
    ASSUME MInv, UNCHANGED cache, NEW slot \in InFlight, NEW next, LookupSound(next),
           C!Move(slot, next)
    PROVE  MInv'
<1>1. DOMAIN requests' = InFlight /\ \A s \in InFlight : LookupSound(requests'[s])
    BY DEF C!Move, MInv
<1>2. \A request : Shows(request)' <=> Shows(request)
    BY DEF Shows
<1>3. \A request : LookupSound(request)' <=> LookupSound(request)
    BY <1>2 DEF LookupSound
<1> QED BY <1>1, <1>3 DEF MInv

\* The end of a request shows what it has read when its page does.
LEMMA AnswerM ==
    ASSUME NEW request, LookupSound(request), NEW page,
           request.cached.known /\ ~request.evicted =>
                /\ request.work \in DOMAIN page
                /\ request.cached.fields \subseteq page[request.work]
    PROVE  LookupSound(C!Answer(request, page))
<1> DEFINE next == C!Answer(request, page)
<1>1. /\ DOMAIN next = DOMAIN C!Idle /\ next.at = "done" /\ next.work = request.work
      /\ next.cached = request.cached /\ next.answer = page /\ next.evicted = request.evicted
    BY DEF C!Answer, C!Idle
<1> HIDE DEF next
<1>2. request.cached.known => request.work \in Works
    BY DEF LookupSound
<1>3. next.cached.known /\ ~next.evicted => Shows(next)
    BY <1>1 DEF Shows
<1> QED BY <1>1, <1>2, <1>3 DEF LookupSound, next

\* A request that falls back shows what it had read.
LEMMA FallbackM ==
    ASSUME NEW request, LookupSound(request)
    PROVE  LookupSound(C!Fallback(request))
<1> DEFINE page == IF request.cached.known THEN C!Page(request.work, request.cached.fields)
                   ELSE << >>
<1>1. request.cached.known => request.work \in DOMAIN page
                              /\ page[request.work] = request.cached.fields
    BY DEF C!Page
<1> HIDE DEF page
<1>2. LookupSound(C!Answer(request, page))
    BY <1>1, AnswerM
<1> QED BY <1>2 DEF C!Fallback, page

\* A request that has not begun has read nothing.
LEMMA IdleM == LookupSound(C!Idle)
BY DEF LookupSound, C!Idle, C!NoEntry

\* At first nobody has read anything.
LEMMA InitM == C!Init => MInv
BY IdleM DEF C!Init, MInv

\* A visitor asks for a page or for a work.
LEMMA AskM ==
    ASSUME MInv, NEW slot \in InFlight, NEW reader, NEW work \in Works \cup {C!NoWork},
           C!Ask(slot, reader, work)
    PROVE  MInv'
<1> DEFINE next == [C!Idle EXCEPT !.reader = reader, !.work = work,
                               !.at = IF work = C!NoWork THEN "admit" ELSE "read"]
<1>1. LookupSound(next)
    BY DEF LookupSound, C!Idle, C!NoEntry
<1>2. C!Move(slot, next) /\ UNCHANGED cache
    BY DEF C!Ask, C!tables
<1> HIDE DEF next
<1> QED BY <1>1, <1>2, MoveM

\* A lookup reads the cache, or fails to: what it has read is the cache's.
LEMMA ReadM ==
    ASSUME MInv, NEW slot \in InFlight, C!Read(slot)
    PROVE  MInv'
<1> DEFINE request == requests[slot]
           Got(e) == [request EXCEPT !.cached = e, !.at = "admit"]
<1>1. LookupSound(request) /\ request.at = "read" /\ request.work \in Works
    BY DEF MInv, C!Read, LookupSound
<1>2. PICK e \in {cache[request.work], C!NoEntry} :
                C!Move(slot, IF C!is_fresh(e)
                          THEN C!Answer(Got(e), C!Page(request.work, e.fields)) ELSE Got(e))
    BY DEF C!Read
<1>3. /\ DOMAIN Got(e) = DOMAIN C!Idle /\ Got(e).cached = e /\ Got(e).at = "admit"
      /\ Got(e).work = request.work
    BY <1>1 DEF LookupSound, C!Idle
<1> HIDE DEF Got
<1>4. e.known => cache[request.work].known /\ e.fields = cache[request.work].fields
    BY <1>2 DEF C!NoEntry
<1>5. LookupSound(Got(e))
    BY <1>1, <1>3, <1>4 DEF LookupSound, Shows
<1>6. LookupSound(C!Answer(Got(e), C!Page(request.work, e.fields)))
    BY <1>3, <1>5, AnswerM DEF C!Page
<1>7. UNCHANGED cache
    BY DEF C!Read
<1> QED BY <1>2, <1>5, <1>6, <1>7, MoveM

\* A request is admitted, refused, or loses its transaction.
LEMMA AdmitM ==
    ASSUME MInv, NEW slot \in InFlight, C!Admit(slot) \/ C!CommitFails(slot)
    PROVE  MInv'
<1> DEFINE request == requests[slot]
           next == [request EXCEPT !.at = "admitting", !.since = now]
<1>1. LookupSound(request) /\ request.at \in {"admit", "admitting"}
    BY DEF MInv, C!Admit, C!CommitFails
<1>2. LookupSound(next)
    BY <1>1 DEF LookupSound, Shows, C!Idle
<1>3. C!Move(slot, next) \/ C!Move(slot, C!Fallback(request))
    BY DEF C!Admit, C!CommitFails
<1>4. UNCHANGED cache
    BY DEF C!Admit, C!CommitFails, C!tables
<1> HIDE DEF next
<1> QED BY <1>1, <1>2, <1>3, <1>4, FallbackM, MoveM

\* An admission is committed or refused.
LEMMA CommitM ==
    ASSUME MInv, NEW slot \in InFlight, C!Commit(slot)
    PROVE  MInv'
<1> DEFINE request == requests[slot]
           next == [request EXCEPT !.at = "call"]
<1>1. LookupSound(request) /\ request.at = "admitting"
    BY DEF MInv, C!Commit
<1>2. LookupSound(next)
    BY <1>1 DEF LookupSound, Shows, C!Idle
<1>3. C!Move(slot, next) \/ C!Move(slot, C!Fallback(request))
    BY DEF C!Commit, C!Goto
<1>4. UNCHANGED cache
    BY DEF C!Commit
<1> HIDE DEF next
<1> QED BY <1>1, <1>2, <1>3, <1>4, FallbackM, MoveM

\* The provider answers: a lookup accepts only an answer with its work in it.
LEMMA CallM ==
    ASSUME MInv, NEW slot \in InFlight, C!Call(slot)
    PROVE  MInv'
<1> DEFINE request == requests[slot]
           next(page) == [request EXCEPT !.at = "keep", !.found = page, !.since = now]
<1>1. LookupSound(request) /\ request.at = "call" /\ UNCHANGED cache
    BY DEF MInv, C!Call
<1>2. CASE C!Move(slot, C!Fallback(request))
    BY <1>1, <1>2, FallbackM, MoveM
<1>3. ASSUME NEW page \in C!Pages,
             C!Move(slot, IF ~C!accepted(request, page) THEN C!Fallback(request)
                        ELSE IF page = << >> THEN C!Answer(request, page)
                        ELSE next(page))
      PROVE  MInv'
    <2>1. CASE ~C!accepted(request, page)
        BY <1>1, <1>3, <2>1, FallbackM, MoveM
    <2>2. CASE C!accepted(request, page) /\ page = << >>
        <3>0. DOMAIN page = {}
            BY <2>2
        <3>1. ~request.cached.known
            BY <1>1, <2>2, <3>0, WorksAssumption DEF C!accepted, LookupSound
        <3>2. LookupSound(C!Answer(request, page))
            BY <1>1, <3>1, AnswerM
        <3> QED BY <1>1, <1>3, <2>2, <3>2, MoveM
    <2>3. CASE C!accepted(request, page) /\ page # << >>
        <3>1. DOMAIN page \subseteq Works
            BY DEF C!Pages
        <3>2. LookupSound(next(page))
            BY <1>1, <2>3, <3>1 DEF LookupSound, Shows, C!Idle, C!accepted
        <3> HIDE DEF next
        <3> QED BY <1>1, <1>3, <2>3, <3>2, MoveM
    <2> QED BY <2>1, <2>2, <2>3
<1> QED BY <1>2, <1>3 DEF C!Call

\* What a lookup may answer with after the provider's answer has all it had read.
LEMMA EnrichedShows ==
    ASSUME NEW request, LookupSound(request), request.at = "keep",
           request.cached.known, ~request.evicted
    PROVE  /\ request.work \in DOMAIN request.found
           /\ request.cached.fields \subseteq C!enriched(request, request.work)
           /\ request.cached.fields
                  \subseteq C!merge(request.found[request.work], request.cached.fields)
BY WorksAssumption DEF LookupSound, Shows, C!enriched, C!merge

\* An answer is merged into the cache (cache.rs): the cache loses no fact of a work it
\* still holds, and a lookup whose work is evicted by it is marked.
LEMMA KeepM ==
    ASSUME MInv, NEW slot \in InFlight, C!Keep(slot)
    PROVE  MInv' /\ \A work \in Works :
                        cache[work].known /\ cache'[work].known
                            => cache[work].fields \subseteq cache'[work].fields
<1> DEFINE request == requests[slot]
           result == [work \in DOMAIN request.found |-> C!enriched(request, work)]
           seen(s) == [requests[s] EXCEPT !.evicted = TRUE]
<1>1. LookupSound(request) /\ request.at = "keep"
    BY DEF MInv, C!Keep
<1>2. LookupSound(C!Answer(request, result))
    BY <1>1, AnswerM, EnrichedShows
<1>3. \A work \in Works :
         /\ ~C!Contains(used', work) => cache'[work] = C!NoEntry
         /\ C!Contains(used', work) /\ work \in DOMAIN request.found =>
                cache'[work] = C!Entry(C!enriched(request, work), request.since + FreshFor)
         /\ C!Contains(used', work) /\ work \notin DOMAIN request.found => cache'[work] = cache[work]
    BY DEF C!Keep
<1>4. \A work \in Works :
         cache[work].known /\ C!Contains(used', work)
            => cache'[work].known /\ cache[work].fields \subseteq cache'[work].fields
    <2> SUFFICES ASSUME NEW work \in Works, cache[work].known, C!Contains(used', work)
                 PROVE  cache'[work].known /\ cache[work].fields \subseteq cache'[work].fields
        OBVIOUS
    <2>1. CASE work \in DOMAIN request.found
        <3>1. cache'[work] = C!Entry(C!enriched(request, work), request.since + FreshFor)
            BY <1>3, <2>1
        <3>2. cache'[work].known /\ cache'[work].fields = C!enriched(request, work)
            BY <3>1 DEF C!Entry
        <3>3. C!enriched(request, work) = request.found[work] \cup cache[work].fields
            BY DEF C!enriched, C!merge
        <3> QED BY <3>2, <3>3
    <2>2. CASE work \notin DOMAIN request.found
        BY <1>3, <2>2
    <2> QED BY <2>1, <2>2
<1>5. \A work \in Works : ~C!Contains(used', work) => ~cache'[work].known
    BY <1>3 DEF C!NoEntry
<1>6. /\ DOMAIN requests' = InFlight
      /\ requests'[slot] = C!Answer(request, result)
      /\ \A s \in InFlight \ {slot} :
            requests'[s] = IF C!Misses(s, used') THEN seen(s) ELSE requests[s]
    BY DEF C!Keep
<1>7. requests'[slot].at = "done"
    BY <1>6, AnswerDone
<1>8. ASSUME NEW s \in InFlight PROVE LookupSound(requests[s])'
    <2>1. CASE s = slot
        BY <1>2, <1>6, <1>7, <2>1 DEF LookupSound, Shows
    <2>2. CASE s # slot /\ C!Misses(s, used')
        <3>1. LookupSound(requests[s])
            BY DEF MInv
        <3>2. /\ seen(s).evicted /\ DOMAIN seen(s) = DOMAIN C!Idle
              /\ seen(s).cached = requests[s].cached /\ seen(s).work = requests[s].work
              /\ seen(s).at = requests[s].at /\ seen(s).found = requests[s].found
            BY <3>1 DEF LookupSound, C!Idle
        <3>3. requests'[s] = seen(s)
            BY <1>6, <2>2
        <3> HIDE DEF seen
        <3> QED BY <3>1, <3>2, <3>3 DEF LookupSound
    <2>3. CASE s # slot /\ ~C!Misses(s, used')
        <3>1. LookupSound(requests[s]) /\ requests'[s] = requests[s]
            BY <1>6, <2>3 DEF MInv
        <3>2. CASE C!Free(s)
            BY <3>1, <3>2, IdleM DEF C!Free, LookupSound, Shows
        <3>3. CASE ~C!Free(s)
            BY <1>4, <2>3, <3>1, <3>3 DEF C!Misses, C!Free, LookupSound, Shows
        <3> QED BY <3>2, <3>3
    <2> QED BY <2>1, <2>2, <2>3
<1> QED BY <1>4, <1>5, <1>6, <1>8 DEF MInv

\* An answer that could not be stored is merged with what the cache had.
LEMMA KeepFailsM ==
    ASSUME MInv, NEW slot \in InFlight, C!KeepFails(slot)
    PROVE  MInv'
<1> DEFINE request == requests[slot]
<1>1. LookupSound(request) /\ request.at = "keep"
    BY DEF MInv, C!KeepFails
<1>2. PICK read : C!Move(slot, C!Answer(request, [work \in DOMAIN request.found |->
                    IF work \in read THEN C!enriched(request, work)
                    ELSE C!merge(request.found[work], request.cached.fields)]))
    BY DEF C!KeepFails
<1> DEFINE page == [work \in DOMAIN request.found |->
                    IF work \in read THEN C!enriched(request, work)
                    ELSE C!merge(request.found[work], request.cached.fields)]
<1>3. request.cached.known /\ ~request.evicted =>
                /\ request.work \in DOMAIN page
                /\ request.cached.fields \subseteq page[request.work]
    BY <1>1, EnrichedShows
<1> HIDE DEF page
<1>4. LookupSound(C!Answer(request, page))
    BY <1>1, <1>3, AnswerM
<1>5. UNCHANGED cache
    BY DEF C!KeepFails, C!tables
<1> QED BY <1>2, <1>4, <1>5, MoveM DEF page

\* A request dies with its process.
LEMMA DieM ==
    ASSUME MInv, NEW slot \in InFlight, C!Die(slot)
    PROVE  MInv'
BY MoveM, IdleM DEF C!Die, C!tables

\* Every step keeps the invariant, and the cache what it has of a work.
LEMMA NextM ==
    ASSUME MInv, [C!Next]_C!vars
    PROVE  MInv' /\ C!MetadataKept
<1> DEFINE Kept == \A work \in Works :
                cache[work].known /\ cache'[work].known
                    => cache[work].fields \subseteq cache'[work].fields
<1>1. MInv' /\ Kept
    <2>1. ASSUME NEW slot \in InFlight,
                 \/ \E reader \in Readers, work \in Works \union {C!NoWork} :
                        C!Ask(slot, reader, work)
                 \/ C!Read(slot) \/ C!Admit(slot) \/ C!Commit(slot) \/ C!CommitFails(slot)
                 \/ C!Call(slot) \/ C!KeepFails(slot) \/ C!Die(slot)
          PROVE  MInv' /\ Kept
        <3>1. MInv'
            BY <2>1, AskM, ReadM, AdmitM, CommitM, CallM, KeepFailsM, DieM
        <3>2. UNCHANGED cache
            BY <2>1
                DEF C!Ask, C!Read, C!Admit, C!Commit, C!CommitFails, C!Call, C!KeepFails,
                    C!Die, C!tables
        <3> QED BY <3>1, <3>2
    <2>2. CASE UNCHANGED C!vars \/ C!Tick
        <3>1. UNCHANGED <<cache, requests>>
            BY <2>2 DEF C!vars, C!Tick, C!tables
        <3> QED BY <3>1 DEF MInv, LookupSound, Shows
    <2>3. ASSUME NEW slot \in InFlight, C!Keep(slot)
          PROVE  MInv' /\ Kept
        BY <2>3, KeepM
    <2> QED BY <2>1, <2>2, <2>3 DEF C!Next
<1>2. ASSUME NEW slot \in InFlight, requests'[slot].at = "done", requests'[slot].cached.known,
             ~requests'[slot].evicted
      PROVE  /\ requests'[slot].work \in DOMAIN requests'[slot].answer
             /\ requests'[slot].cached.fields
                    \subseteq requests'[slot].answer[requests'[slot].work]
    BY <1>1, <1>2 DEF MInv, LookupSound, Shows
<1> QED BY <1>1, <1>2 DEF C!MetadataKept

\* An answer has every field its lookup had read, unless the work was evicted while it was
\* in flight, and a work that stays in the cache loses no field (cache.rs).
THEOREM MetadataAlwaysSurvives == C!Spec => MetadataSurvives
<1>1. C!Spec => []MInv
    BY InitM, NextM, PTL DEF C!Spec
<1>2. MInv /\ [C!Next]_C!vars => [C!MetadataKept]_catalogVars
    BY NextM DEF C!vars, catalogVars
<1> QED BY <1>1, <1>2, PTL DEF C!Spec, MetadataSurvives

-----------------------------------------------------------------------------
(* Diagnostics: what became of the records.                                 *)

Kinds == {"initialization", "operation", "ready", "unavailable", "shutdown", "barrier"}
Fates == [written : Nat, failed : Nat, dropped : Nat, discarded : Nat]
Losses == [drops : Nat, failures : Nat]

DTypes ==
    /\ queue \in Seq(Kinds)
    /\ offered \in Nat
    /\ fate \in Fates
    /\ counters \in Losses /\ reported \in Losses /\ summed \in Losses
    /\ worker \in [at : {"absent", "waiting", "writing", "summing"},
                   record : Kinds \cup {D!NoRecord}, seen : Losses]
    /\ DOMAIN process = {"at", "reason", "outcome"}

Balanced ==
    offered = D!Queued + D!Held + fate.written + fate.failed + fate.dropped + fate.discarded

\* No summary tells of a loss that has not happened, and none tells one twice.
Told ==
    /\ fate.dropped = counters.drops /\ fate.failed <= counters.failures
    /\ summed = reported
    /\ reported.drops <= counters.drops /\ reported.failures <= counters.failures
    /\ worker.at = "summing" =>
          worker.seen.drops <= counters.drops /\ worker.seen.failures <= counters.failures

\* Nothing is on its way to stderr, and nothing was given up.
NothingLeft == queue = << >> /\ worker.at # "writing" /\ fate.discarded = 0

\* While the process waits for its first barrier that barrier is the last of the queue, and
\* once the barrier is acknowledged the worker has delivered everything.
Drains ==
    /\ process.at \in {"pool", "drain", "await", "report"} => ~accepting
    /\ process.at # "exited" => ~discard
    /\ process.at = "starting" => worker.at = "absent"
    /\ process.at \in {"starting", "serving", "requests"} => deadline = "unset"
    /\ fate.discarded > 0 => D!discarding
    /\ process.at \in {"starting", "serving", "requests", "pool", "drain"} =>
          \A i \in DOMAIN queue : queue[i] # "barrier"
    /\ process.at = "await" /\ barrier = "queued" =>
          /\ queue # << >> /\ queue[Len(queue)] = "barrier"
          /\ \A i \in 1 .. Len(queue) - 1 : queue[i] # "barrier"
    /\ process.at = "await" => barrier \in {"queued", "acknowledged", "dropped"}
    /\ process.at = "await" /\ barrier # "queued" => queue = << >>
    /\ process.at = "await" /\ barrier = "acknowledged" => NothingLeft
    /\ process.at \in {"starting", "serving", "requests", "pool", "drain", "await"} =>
          process.outcome # "completed"
    /\ process.at = "report" /\ process.outcome = "completed" => NothingLeft

DInv == DTypes /\ Balanced /\ Told /\ Drains

\* The types of the counters, field by field.
LEMMA CounterTypes ==
    ASSUME DTypes
    PROVE  /\ fate \in Fates /\ counters \in Losses /\ reported \in Losses
           /\ fate.written \in Nat /\ fate.failed \in Nat /\ fate.dropped \in Nat
           /\ fate.discarded \in Nat /\ offered \in Nat /\ queue \in Seq(Kinds)
           /\ counters.drops \in Nat /\ counters.failures \in Nat
           /\ reported.drops \in Nat /\ reported.failures \in Nat
<1>1. /\ fate \in Fates /\ counters \in Losses /\ reported \in Losses
      /\ offered \in Nat /\ queue \in Seq(Kinds)
    BY DEF DTypes
<1> QED BY <1>1 DEF Fates, Losses

\* One of the counts of what became of the records goes up.
LEMMA FateGrows ==
    ASSUME NEW f \in Fates
    PROVE  /\ [f EXCEPT !.written = @ + 1] \in Fates
           /\ [f EXCEPT !.failed = @ + 1] \in Fates
           /\ [f EXCEPT !.dropped = @ + 1] \in Fates
           /\ [f EXCEPT !.discarded = @ + 1] \in Fates
BY DEF Fates

-----------------------------------------------------------------------------
(* Counting the records of a queue. *)

\* The records of a queue are counted by a number:
LEMMA RecordsFinite ==
    ASSUME NEW records \in Seq(Kinds)
    PROVE  /\ IsFiniteSet(D!RecordsIn(records))
           /\ Cardinality(D!RecordsIn(records)) \in Nat
<1>1. DOMAIN records = 1 .. Len(records) /\ Len(records) \in Nat
    OBVIOUS
<1>2. IsFiniteSet(1 .. Len(records))
    BY <1>1, FS_Interval
<1>3. D!RecordsIn(records) \subseteq 1 .. Len(records)
    BY <1>1 DEF D!RecordsIn
<1>4. IsFiniteSet(D!RecordsIn(records))
    BY <1>2, <1>3, FS_Subset
<1> QED BY <1>4, FS_CardinalityType

\* none in an empty one,
LEMMA RecordsEmpty == Cardinality(D!RecordsIn(<< >>)) = 0
<1>1. D!RecordsIn(<< >>) = {}
    BY DEF D!RecordsIn
<1> QED BY <1>1, FS_EmptySet

\* one more when a record is put behind it, none more for a barrier,
LEMMA RecordsAppend ==
    ASSUME NEW records \in Seq(Kinds), NEW record \in Kinds
    PROVE  Cardinality(D!RecordsIn(Append(records, record))) =
               Cardinality(D!RecordsIn(records)) + (IF record = "barrier" THEN 0 ELSE 1)
<1> DEFINE n == Len(records) + 1
           longer == Append(records, record)
<1>1. /\ Len(records) \in Nat /\ DOMAIN records = 1 .. Len(records) /\ DOMAIN longer = 1 .. n
      /\ longer[n] = record /\ \A i \in 1 .. Len(records) : longer[i] = records[i]
    OBVIOUS
<1>2. n \notin D!RecordsIn(records)
    BY <1>1 DEF D!RecordsIn
<1>3. D!RecordsIn(longer) = IF record = "barrier" THEN D!RecordsIn(records)
                          ELSE D!RecordsIn(records) \cup {n}
    <2>1. 1 .. n = (1 .. Len(records)) \cup {n}
        BY <1>1
    <2> QED BY <1>1, <2>1 DEF D!RecordsIn
<1>4. Cardinality(D!RecordsIn(records) \cup {n}) = Cardinality(D!RecordsIn(records)) + 1
    BY <1>2, RecordsFinite, FS_AddElement
<1> QED BY <1>3, <1>4, RecordsFinite

\* and one less when a record is taken from it.
LEMMA RecordsTail ==
    ASSUME NEW records \in Seq(Kinds), records # << >>
    PROVE  Cardinality(D!RecordsIn(records)) =
               Cardinality(D!RecordsIn(Tail(records))) + (IF Head(records) = "barrier" THEN 0 ELSE 1)
<1> DEFINE rest == Tail(records)
           behind == D!RecordsIn(records) \ {1}
           f == [i \in D!RecordsIn(rest) |-> i + 1]
<1>1. /\ Len(records) \in Nat \ {0} /\ DOMAIN records = 1 .. Len(records)
      /\ rest \in Seq(Kinds) /\ DOMAIN rest = 1 .. (Len(records) - 1)
      /\ \A i \in 1 .. (Len(records) - 1) : rest[i] = records[i + 1]
      /\ Head(records) = records[1]
    OBVIOUS
<1> HIDE DEF rest
<1>2. \A i \in D!RecordsIn(rest) : i \in Nat /\ i + 1 \in behind
    BY <1>1 DEF D!RecordsIn
<1>3. \A k \in behind : k - 1 \in D!RecordsIn(rest) /\ (k - 1) + 1 = k
    BY <1>1 DEF D!RecordsIn
<1>4. f \in Bijection(D!RecordsIn(rest), behind)
    <2>1. f \in Injection(D!RecordsIn(rest), behind)
        BY <1>2 DEF Injection, IsInjective
    <2>2. \A k \in behind : \E i \in D!RecordsIn(rest) : f[i] = k
        BY <1>3
    <2>3. f \in Surjection(D!RecordsIn(rest), behind)
        BY <2>1, <2>2 DEF Injection, Surjection
    <2> QED BY <2>1, <2>3 DEF Bijection
<1>5. ExistsBijection(D!RecordsIn(rest), behind)
    BY <1>4 DEF ExistsBijection
<1>6. Cardinality(behind) = Cardinality(D!RecordsIn(rest))
    BY <1>1, <1>5, RecordsFinite, FS_Bijection
<1>7. 1 \in D!RecordsIn(records) <=> Head(records) # "barrier"
    BY <1>1 DEF D!RecordsIn
<1>8. Cardinality(behind) = IF 1 \in D!RecordsIn(records) THEN Cardinality(D!RecordsIn(records)) - 1
                            ELSE Cardinality(D!RecordsIn(records))
    BY RecordsFinite, FS_RemoveElement
<1>9. Cardinality(D!RecordsIn(records)) \in Nat
    BY RecordsFinite
<1> QED BY <1>6, <1>7, <1>8, <1>9 DEF rest

\* A record put behind others that differ from it is the last of its kind,
LEMMA AppendLast ==
    ASSUME NEW S, NEW records \in Seq(S), NEW b \in S, NEW longer,
           \A i \in DOMAIN records : records[i] # b, longer = Append(records, b)
    PROVE  /\ longer # << >> /\ longer[Len(longer)] = b
           /\ \A i \in 1 .. Len(longer) - 1 : longer[i] # b
<1>1. /\ longer \in Seq(S) /\ Len(longer) = Len(records) + 1 /\ Len(records) \in Nat
      /\ DOMAIN records = 1 .. Len(records) /\ longer[Len(records) + 1] = b
      /\ \A i \in 1 .. Len(records) : longer[i] = records[i]
    OBVIOUS
<1>2. longer # << >>
    BY <1>1
<1>3. longer[Len(longer)] = b
    BY <1>1
<1>4. \A i \in 1 .. Len(longer) - 1 : longer[i] # b
    BY <1>1
<1> QED BY <1>2, <1>3, <1>4

\* stays the last when another is taken, and leaves nothing when it is taken itself.
LEMMA TailLast ==
    ASSUME NEW S, NEW records \in Seq(S), NEW b, records # << >>,
           records[Len(records)] = b, \A i \in 1 .. Len(records) - 1 : records[i] # b
    PROVE  /\ Head(records) = b => Tail(records) = << >>
           /\ Head(records) # b =>
                 /\ Tail(records) # << >> /\ Tail(records)[Len(Tail(records))] = b
                 /\ \A i \in 1 .. Len(Tail(records)) - 1 : Tail(records)[i] # b
<1> DEFINE rest == Tail(records)
<1>1. /\ Len(records) \in Nat \ {0} /\ Head(records) = records[1]
      /\ rest \in Seq(S) /\ Len(rest) = Len(records) - 1
      /\ \A i \in 1 .. (Len(records) - 1) : rest[i] = records[i + 1]
    OBVIOUS
<1> HIDE DEF rest
<1>2. CASE Len(records) = 1
    <2>1. Head(records) = b /\ Len(rest) = 0
        BY <1>1, <1>2
    <2>2. rest = << >>
        BY <1>1, <2>1
    <2> QED BY <2>1, <2>2 DEF rest
<1>3. CASE Len(records) > 1
    <2>1. Head(records) # b
        BY <1>1, <1>3
    <2>2. Len(rest) # 0 /\ rest[Len(rest)] = records[Len(records)]
        BY <1>1, <1>3
    <2>3. rest # << >>
        BY <2>2
    <2>4. ASSUME NEW i \in 1 .. Len(rest) - 1 PROVE rest[i] # b
        BY <1>1
    <2> QED BY <2>1, <2>2, <2>3, <2>4 DEF rest
<1> QED BY <1>1, <1>2, <1>3

-----------------------------------------------------------------------------
(* The steps. *)

\* The diagnostics count as this module does.
LEMMA DiagnosticsCounts == \A S : D!Cardinality(S) = Cardinality(S)
BY DEF D!Cardinality, Cardinality

\* Nothing has been offered at first.
LEMMA InitD == D!Init => DInv
<1> SUFFICES ASSUME D!Init PROVE DInv OBVIOUS
<1>1. DTypes
    BY DEF DTypes, Fates, D!Init, Kinds, Losses, D!None
<1>2. Balanced
    BY RecordsEmpty, DiagnosticsCounts DEF Balanced, D!Queued, D!Held, D!Init
<1>3. Told
    BY DEF Told, D!Init, D!None
<1>4. Drains
    BY DEF Drains, D!Init
<1> QED BY <1>1, <1>2, <1>3, <1>4 DEF DInv

\* A record that is offered is queued or counted as a drop.
LEMMA PushD ==
    ASSUME DInv, NEW record \in Kinds \ {"barrier"}, D!Push(record),
           UNCHANGED <<worker, reported, summed>>,
           DOMAIN process' = {"at", "reason", "outcome"}
    PROVE  /\ DTypes' /\ Balanced' /\ Told'
           /\ queue' \in {queue, Append(queue, record)} /\ fate'.discarded = fate.discarded
<1>1. CASE worker.at = "absent" \/ D!Full
    <2>1. /\ queue' = queue /\ counters' = [counters EXCEPT !.drops = @ + 1]
          /\ fate' = [fate EXCEPT !.dropped = @ + 1] /\ offered' = offered + 1
        BY <1>1 DEF D!Push
    <2>2. D!Queued' = D!Queued /\ D!Held' = D!Held
        BY <2>1, DiagnosticsCounts DEF D!Queued, D!Held
    <2>3. D!Queued \in Nat /\ D!Held \in Nat
        BY RecordsFinite, DiagnosticsCounts DEF D!Queued, D!Held, DInv, DTypes
    <2>4. DTypes'
        <3>1. counters' \in Losses
            <4>1. counters \in Losses
                BY DEF DInv, DTypes
            <4> QED BY <2>1, <4>1 DEF Losses
        <3>2. fate' \in Fates
            BY <2>1, CounterTypes, FateGrows DEF DInv
        <3> QED BY <2>1, <3>1, <3>2 DEF DInv, DTypes
    <2>5. Balanced'
        <3>1. fate'.dropped = fate.dropped + 1 /\ fate'.written = fate.written
              /\ fate'.failed = fate.failed /\ fate'.discarded = fate.discarded
            BY <2>1, CounterTypes DEF DInv, Fates
        <3>2. offered' = offered + 1
            BY <2>1
        <3>8. /\ fate.written \in Nat /\ fate.failed \in Nat /\ fate.dropped \in Nat
              /\ fate.discarded \in Nat /\ offered \in Nat
            BY CounterTypes DEF DInv
        <3>9. offered = D!Queued + D!Held + fate.written + fate.failed + fate.dropped + fate.discarded
            BY DEF DInv, Balanced
        <3> QED BY <2>2, <2>3, <3>1, <3>2, <3>8, <3>9 DEF Balanced
    <2>6. Told'
        BY <2>1 DEF DInv, DTypes, Losses, Told
    <2> QED BY <2>1, <2>4, <2>5, <2>6 DEF DInv, DTypes
<1>2. CASE ~(worker.at = "absent" \/ D!Full)
    <2>1. /\ queue' = Append(queue, record) /\ counters' = counters
          /\ fate' = fate /\ offered' = offered + 1
        BY <1>2 DEF D!Push
    <2>2. D!Queued' = D!Queued + 1 /\ D!Held' = D!Held
        <3>1. Cardinality(D!RecordsIn(Append(queue, record))) = Cardinality(D!RecordsIn(queue)) + 1
            BY RecordsAppend, CounterTypes DEF DInv
        <3>2. queue' = Append(queue, record) /\ worker' = worker
            BY <2>1
        <3> QED BY <3>1, <3>2, DiagnosticsCounts DEF D!Queued, D!Held
    <2>3. D!Queued \in Nat /\ D!Held \in Nat
        BY RecordsFinite, DiagnosticsCounts DEF D!Queued, D!Held, DInv, DTypes
    <2>4. DTypes'
        BY <2>1 DEF DInv, DTypes
    <2>5. Balanced'
        <3>1. fate' = fate /\ offered' = offered + 1
            BY <2>1
        <3>8. /\ fate.written \in Nat /\ fate.failed \in Nat /\ fate.dropped \in Nat
              /\ fate.discarded \in Nat /\ offered \in Nat
            BY CounterTypes DEF DInv
        <3>9. offered = D!Queued + D!Held + fate.written + fate.failed + fate.dropped + fate.discarded
            BY DEF DInv, Balanced
        <3> QED BY <2>2, <2>3, <3>1, <3>8, <3>9 DEF Balanced
    <2>6. Told'
        BY <2>1 DEF DInv, Told
    <2> QED BY <2>1, <2>4, <2>5, <2>6
<1> QED BY <1>1, <1>2

\* The process goes on, and nothing is offered or delivered.
LEMMA StillD ==
    ASSUME DInv, UNCHANGED <<queue, worker, counters, reported, summed, offered, fate>>,
           DOMAIN process' = {"at", "reason", "outcome"}
    PROVE  DTypes' /\ Balanced' /\ Told'
BY DEF DInv, DTypes, Balanced, D!Queued, D!Held, Told

\* The process starts or fails to: its initialization fact is the first record, if there is
\* a thread to take it (diagnostics.rs start, observe_initialization).
LEMMA StartD ==
    ASSUME DInv, D!StartFails \/ D!Start
    PROVE  DInv'
<1>1. CASE D!StartFails
    <2>1. /\ UNCHANGED <<queue, worker, counters, reported, summed, offered, fate, discard,
                        deadline>>
          /\ process' = [process EXCEPT !.at = "exited"]
        BY <1>1 DEF D!StartFails, D!Goto, D!delivery
    <2>2. DOMAIN process' = {"at", "reason", "outcome"} /\ process'.at = "exited"
        BY <2>1 DEF DInv, DTypes
    <2>3. Drains'
        BY <2>1, <2>2 DEF DInv, Drains, D!discarding
    <2> QED BY <2>1, <2>2, <2>3, StillD DEF DInv
<1>2. CASE D!Start
    <2>1. /\ process' = [process EXCEPT !.at = "serving"] /\ process.at = "starting"
          /\ UNCHANGED <<counters, reported, summed, fate, discard, deadline>>
        BY <1>2 DEF D!Start, D!Goto
    <2>2. /\ DOMAIN process' = {"at", "reason", "outcome"} /\ process'.at = "serving"
          /\ process'.outcome = process.outcome
        BY <2>1 DEF DInv, DTypes
    <2>3. CASE UNCHANGED <<queue, worker, offered>>
        <3>1. Drains'
            BY <2>1, <2>2, <2>3 DEF DInv, Drains, D!discarding
        <3> QED BY <2>1, <2>2, <2>3, <3>1, StillD DEF DInv
    <2>4. CASE /\ worker' = [worker EXCEPT !.at = "waiting"]
               /\ queue' = Append(queue, "initialization") /\ offered' = offered + 1
        <3>1. worker.at = "absent"
            BY <2>1 DEF DInv, Drains
        <3>2. D!Queued' = D!Queued + 1 /\ D!Queued \in Nat
            BY <2>4, RecordsAppend, RecordsFinite, DiagnosticsCounts
                DEF D!Queued, DInv, DTypes, Kinds
        <3>3. D!Held = 0 /\ D!Held' = 0
            BY <2>4, <3>1 DEF D!Held, DInv, DTypes
        <3>4. DTypes'
            <4>1. "initialization" \in Kinds /\ queue \in Seq(Kinds)
                BY DEF DInv, DTypes, Kinds
            <4>2. ASSUME NEW record \in Kinds PROVE Append(queue, record) \in Seq(Kinds)
                BY <4>1
            <4>3. queue' \in Seq(Kinds)
                BY <2>4, <4>1, <4>2
            <4> QED BY <2>1, <2>2, <2>4, <4>3 DEF DInv, DTypes
        <3>5. Balanced'
            <4>1. fate' = fate /\ offered' = offered + 1
                BY <2>1, <2>4
            <4>8. /\ fate.written \in Nat /\ fate.failed \in Nat /\ fate.dropped \in Nat
                  /\ fate.discarded \in Nat /\ offered \in Nat
                BY CounterTypes DEF DInv
            <4>9. offered = D!Queued + D!Held + fate.written + fate.failed + fate.dropped + fate.discarded
                BY DEF DInv, Balanced
            <4> QED BY <3>2, <3>3, <4>1, <4>8, <4>9 DEF Balanced
        <3>6. Told'
            BY <2>1, <2>4, <3>1 DEF DInv, DTypes, Told
        <3>7. \A i \in DOMAIN queue' : queue'[i] # "barrier"
            BY <2>1, <2>4 DEF DInv, DTypes, Drains
        <3>8. Drains'
            BY <2>1, <2>2, <3>7 DEF DInv, Drains, D!discarding
        <3> QED BY <3>4, <3>5, <3>6, <3>8 DEF DInv
    <2> QED BY <1>2, <2>3, <2>4 DEF D!Start
<1> QED BY <1>1, <1>2

\* What a sender's record may do to the queue keeps the barrier where it is: the gate is
\* closed before there is one.
LEMMA ObserveD ==
    ASSUME DInv, NEW record \in Kinds \ {"barrier"}, D!Send(record),
           process.at \notin {"starting", "exited"},
           UNCHANGED <<accepting, worker, reported, summed, discard, deadline, process, barrier>>
    PROVE  DInv'
<1>1. CASE accepting
    <2>1. D!Push(record)
        BY <1>1 DEF D!Send
    <2>2. /\ DTypes' /\ Balanced' /\ Told'
          /\ queue' \in {queue, Append(queue, record)} /\ fate'.discarded = fate.discarded
        BY <2>1, PushD DEF DInv, DTypes
    <2>3. process.at \notin {"pool", "drain", "await", "report"}
        BY <1>1 DEF DInv, Drains
    <2>4. (\A i \in DOMAIN queue : queue[i] # "barrier")
              => \A i \in DOMAIN queue' : queue'[i] # "barrier"
        <3>1. queue \in Seq(Kinds) /\ record # "barrier"
            BY CounterTypes DEF DInv
        <3> QED BY <2>2, <3>1
    <2>5. Drains'
        BY <2>2, <2>3, <2>4 DEF DInv, Drains, D!discarding
    <2> QED BY <2>2, <2>5 DEF DInv
<1>2. CASE ~accepting
    <2>1. UNCHANGED <<queue, counters, fate, offered>>
        BY <1>2 DEF D!Send
    <2>2. Drains'
        BY <2>1 DEF DInv, Drains, D!discarding, NothingLeft
    <2>3. DOMAIN process' = {"at", "reason", "outcome"}
        BY DEF DInv, DTypes
    <2> QED BY <2>1, <2>2, <2>3, StillD DEF DInv
<1> QED BY <1>1, <1>2

\* The process is told to stop, and says so (begin_shutdown).
LEMMA BeginShutdownD ==
    ASSUME DInv, NEW reason, D!BeginShutdown(reason)
    PROVE  DInv'
<1>1. process.at = "serving" /\ process' = [process EXCEPT !.at = "requests", !.reason = reason]
    BY DEF D!BeginShutdown
<1>2. /\ DOMAIN process' = {"at", "reason", "outcome"} /\ process'.at = "requests"
      /\ process'.outcome = process.outcome
    BY <1>1 DEF DInv, DTypes
<1>3. /\ DTypes' /\ Balanced' /\ Told'
      /\ queue' \in {queue, Append(queue, "shutdown")} /\ fate'.discarded = fate.discarded
    BY <1>2, PushD DEF D!BeginShutdown, Kinds
<1>4. \A i \in DOMAIN queue' : queue'[i] # "barrier"
    <2>1. queue \in Seq(Kinds) /\ \A i \in DOMAIN queue : queue[i] # "barrier"
        BY <1>1 DEF DInv, DTypes, Drains
    <2> QED BY <1>3, <2>1
<1>5. Drains'
    BY <1>1, <1>2, <1>3, <1>4 DEF DInv, Drains, D!discarding, D!BeginShutdown
<1> QED BY <1>3, <1>5 DEF DInv

\* The final fact is offered behind the closed gate (finish_shutdown).
LEMMA ReportD ==
    ASSUME DInv, D!Report
    PROVE  DInv'
<1>1. /\ process.at = "report" /\ UNCHANGED <<accepting, worker, discard, deadline>>
      /\ process' = [process EXCEPT !.at = IF deadline = "passed" THEN "discard"
                                          ELSE "last drain"]
    BY DEF D!Report, D!Goto
<1>2. /\ DOMAIN process' = {"at", "reason", "outcome"}
      /\ process'.at \in {"discard", "last drain"}
    BY <1>1 DEF DInv, DTypes
<1>3. /\ DTypes' /\ Balanced' /\ Told' /\ fate'.discarded = fate.discarded
    BY <1>2, PushD DEF D!Report, Kinds
<1>4. Drains'
    BY <1>1, <1>2, <1>3 DEF DInv, Drains, D!discarding
<1> QED BY <1>3, <1>4 DEF DInv

\* What the process does with its queue and its worker left alone.
LEMMA ProcessD ==
    ASSUME DInv, D!StopProducers \/ D!DeadlinePasses \/ D!ClosePool \/ D!PoolTimesOut \/ D!NoReceiver
                    \/ D!DrainTimesOut \/ D!BarrierAnswered \/ D!Exit
    PROVE  DInv'
<1> USE DEF D!delivery, D!Goto, D!Ends, D!Draining, D!Awaiting, D!Drained
<1>1. UNCHANGED <<queue, worker, counters, reported, summed, offered, fate, barrier>>
    BY
        DEF D!StopProducers, D!DeadlinePasses, D!ClosePool, D!PoolTimesOut, D!NoReceiver,
            D!DrainTimesOut,
        D!BarrierAnswered, D!Exit
<1>2. DOMAIN process' = {"at", "reason", "outcome"}
    BY
        DEF DInv, DTypes, D!StopProducers, D!DeadlinePasses, D!ClosePool, D!PoolTimesOut,
            D!NoReceiver,
        D!DrainTimesOut, D!BarrierAnswered, D!Exit
<1>3. DTypes' /\ Balanced' /\ Told'
    BY <1>1, <1>2, StillD
<1>4. Drains'
    <2>1. CASE D!StopProducers
        <3>1. /\ process.at = "requests" /\ process'.at = "pool" /\ accepting' = FALSE
              /\ process'.outcome = process.outcome /\ deadline' = "set" /\ discard' = discard
            BY <2>1 DEF D!StopProducers, DInv, DTypes
        <3>2. ~(fate.discarded > 0)
            BY <3>1 DEF DInv, Drains, D!discarding
        <3> QED BY <1>1, <3>1, <3>2 DEF DInv, Drains, D!discarding
    <2>2. CASE D!DeadlinePasses
        BY <1>1, <2>2 DEF DInv, Drains, D!discarding, D!DeadlinePasses, NothingLeft
    <2>3. CASE D!ClosePool
        <3>1. /\ process.at = "pool" /\ process'.at = "drain" /\ process'.outcome = process.outcome
              /\ UNCHANGED <<accepting, discard, deadline>>
            BY <2>3 DEF D!ClosePool, DInv, DTypes
        <3> QED BY <1>1, <3>1 DEF DInv, Drains, D!discarding
    <2>4. CASE D!PoolTimesOut
        <3>1. /\ process.at = "pool" /\ process'.at = "report"
              /\ process'.outcome = "deadline exceeded" /\ UNCHANGED <<accepting, discard, deadline>>
            BY <2>4 DEF D!PoolTimesOut, DInv, DTypes
        <3> QED BY <1>1, <3>1 DEF DInv, Drains, D!discarding
    <2>5. CASE D!NoReceiver \/ D!DrainTimesOut
        <3>1. /\ process.at \in {"drain", "await", "last drain", "last await"}
              /\ UNCHANGED <<accepting, discard, deadline>>
              /\ \/ process'.at = "report" /\ process'.outcome # "completed"
                                           /\ process.at \in {"drain", "await"}
                 \/ process'.at = "discard"
            BY <2>5 DEF D!NoReceiver, D!DrainTimesOut, DInv, DTypes
        <3> QED BY <1>1, <3>1 DEF DInv, Drains, D!discarding
    <2>6. CASE D!BarrierAnswered
        <3>1. /\ process.at \in {"await", "last await"}
              /\ UNCHANGED <<accepting, discard, deadline>>
              /\ \/ /\ process'.at = "report" /\ process.at = "await"
                    /\ process'.outcome = "completed" => barrier = "acknowledged"
                 \/ process'.at = "discard"
            <4>1. barrier \in {"acknowledged", "dropped"}
                BY <2>6 DEF D!BarrierAnswered
            <4> QED BY <2>6, <4>1 DEF D!BarrierAnswered, DInv, DTypes
        <3> QED BY <1>1, <3>1 DEF DInv, Drains, D!discarding, NothingLeft
    <2>7. CASE D!Exit
        <3>1. /\ process'.at = "exited" /\ discard' = TRUE
            BY <2>7 DEF D!Exit, DInv, DTypes
        <3> QED BY <1>1, <3>1 DEF DInv, Drains, D!discarding
    <2> QED BY <2>1, <2>2, <2>3, <2>4, <2>5, <2>6, <2>7
<1> QED BY <1>3, <1>4 DEF DInv

\* A barrier is put behind everything that was accepted (drain_until).
LEMMA PlaceBarrierD ==
    ASSUME DInv, D!PlaceBarrier
    PROVE  DInv'
<1>1. /\ process.at \in {"drain", "last drain"} /\ deadline = "set"
      /\ queue' = Append(queue, "barrier") /\ barrier' = "queued"
      /\ process' = [process EXCEPT !.at = IF process.at = "drain" THEN "await"
                                          ELSE "last await"]
      /\ UNCHANGED <<accepting, worker, counters, reported, summed, discard, deadline,
                    offered, fate>>
    BY DEF D!PlaceBarrier, D!Draining, D!Goto
<1>2. queue \in Seq(Kinds) /\ "barrier" \in Kinds
    BY DEF DInv, DTypes, Kinds
<1>3. D!Queued' = D!Queued /\ D!Held' = D!Held /\ D!Queued \in Nat
    <2>1. Cardinality(D!RecordsIn(Append(queue, "barrier"))) = Cardinality(D!RecordsIn(queue)) + 0
        BY <1>2, RecordsAppend
    <2>2. Cardinality(D!RecordsIn(queue)) \in Nat
        BY <1>2, RecordsFinite
    <2>3. queue' = Append(queue, "barrier") /\ worker' = worker
        BY <1>1
    <2>4. Cardinality(D!RecordsIn(queue')) = Cardinality(D!RecordsIn(queue))
        BY <2>1, <2>2, <2>3
    <2> QED BY <2>2, <2>3, <2>4, DiagnosticsCounts DEF D!Queued, D!Held
<1>4. queue' \in Seq(Kinds) /\ DOMAIN process' = {"at", "reason", "outcome"}
    <2>1. ASSUME NEW b \in Kinds PROVE Append(queue, b) \in Seq(Kinds)
        BY <1>2
    <2>2. queue' \in Seq(Kinds)
        BY <1>1, <1>2, <2>1
    <2> QED BY <1>1, <2>2 DEF DInv, DTypes
<1>5. DTypes' /\ Balanced' /\ Told'
    BY <1>1, <1>3, <1>4 DEF DInv, DTypes, Balanced, Told
<1>6. CASE process.at = "drain"
    <2>1. process'.at = "await" /\ process'.outcome = process.outcome
        BY <1>1, <1>6 DEF DInv, DTypes
    <2>2. \A i \in DOMAIN queue : queue[i] # "barrier"
        BY <1>6 DEF DInv, Drains
    <2>3. /\ queue' # << >> /\ queue'[Len(queue')] = "barrier"
          /\ \A i \in 1 .. Len(queue') - 1 : queue'[i] # "barrier"
        <3> DEFINE b == "barrier"
        <3>1. b \in Kinds /\ queue \in Seq(Kinds) /\ queue' = Append(queue, b)
              /\ \A i \in DOMAIN queue : queue[i] # b
            BY <1>1, <1>2, <2>2
        <3> HIDE DEF b
        <3>2. /\ queue' # << >> /\ queue'[Len(queue')] = b
              /\ \A i \in 1 .. Len(queue') - 1 : queue'[i] # b
            BY <3>1, AppendLast
        <3> QED BY <3>2 DEF b
    <2>4. Drains'
        BY <1>1, <1>6, <2>1, <2>3 DEF DInv, Drains, D!discarding
    <2> QED BY <1>5, <2>4 DEF DInv
<1>7. CASE process.at = "last drain"
    <2>1. process'.at = "last await"
        BY <1>1, <1>7 DEF DInv, DTypes
    <2>2. Drains'
        BY <1>1, <1>7, <2>1 DEF DInv, Drains, D!discarding
    <2> QED BY <1>5, <2>2 DEF DInv
<1> QED BY <1>1, <1>6, <1>7

\* The worker takes a record: into its hand, or to waste, or it answers the barrier.
LEMMA TakeD ==
    ASSUME DInv, D!Take
    PROVE  DInv'
<1> DEFINE record == Head(queue)
<1>1. /\ worker.at = "waiting" /\ queue # << >> /\ queue' = Tail(queue)
      /\ barrier' = (IF record # "barrier" THEN barrier
                     ELSE IF D!discarding THEN "dropped" ELSE "acknowledged")
      /\ worker' = (IF D!discarding \/ record = "barrier" THEN worker
                    ELSE [worker EXCEPT !.at = "writing", !.record = record])
      /\ fate' = (IF D!discarding /\ record # "barrier"
                  THEN [fate EXCEPT !.discarded = @ + 1] ELSE fate)
      /\ UNCHANGED <<accepting, counters, reported, summed, discard, deadline, process, offered>>
    BY DEF D!Take
<1>2. /\ queue \in Seq(Kinds) /\ queue' \in Seq(Kinds) /\ record \in Kinds
      /\ Len(queue) \in Nat \ {0} /\ Len(queue') = Len(queue) - 1
      /\ DOMAIN queue = 1 .. Len(queue) /\ DOMAIN queue' = 1 .. Len(queue')
      /\ record = queue[1] /\ \A i \in 1 .. Len(queue') : queue'[i] = queue[i + 1]
    BY <1>1 DEF DInv, DTypes
<1>3. D!Queued = D!Queued' + (IF record = "barrier" THEN 0 ELSE 1) /\ D!Queued' \in Nat
    BY <1>1, <1>2, RecordsTail, RecordsFinite, DiagnosticsCounts DEF D!Queued
<1> HIDE DEF record
<1>4. D!Held = 0 /\ D!Held' = IF D!discarding \/ record = "barrier" THEN 0 ELSE 1
    BY <1>1 DEF D!Held, DInv, DTypes
<1>5. DTypes'
    <2>1. worker' \in [at : {"absent", "waiting", "writing", "summing"},
                       record : Kinds \cup {D!NoRecord}, seen : Losses]
        BY <1>1, <1>2 DEF DInv, DTypes
    <2>2. fate' \in Fates
        BY <1>1, CounterTypes, FateGrows DEF DInv
    <2> QED BY <1>1, <1>2, <2>1, <2>2 DEF DInv, DTypes
<1>6. fate'.discarded = (IF D!discarding /\ record # "barrier" THEN fate.discarded + 1
                         ELSE fate.discarded)
      /\ fate'.written = fate.written /\ fate'.failed = fate.failed
      /\ fate'.dropped = fate.dropped
    BY <1>1 DEF DInv, DTypes
<1>7. Balanced'
    <2>1. /\ offered = D!Queued + D!Held + fate.written + fate.failed + fate.dropped + fate.discarded
          /\ offered \in Nat /\ fate.written \in Nat /\ fate.failed \in Nat
          /\ fate.dropped \in Nat /\ fate.discarded \in Nat /\ offered' = offered
        BY <1>1 DEF DInv, DTypes, Fates, Balanced
    <2> QED BY <1>3, <1>4, <1>6, <2>1 DEF Balanced
<1>8. Told'
    BY <1>1, <1>6 DEF DInv, DTypes, Told
<1>9. Drains'
    <2>1. D!discarding' = D!discarding /\ (fate'.discarded > 0 => D!discarding)
        BY <1>1, <1>6 DEF DInv, DTypes, Drains, D!discarding
    <2>2. process.at \in {"starting", "serving", "requests", "pool", "drain"} =>
              \A i \in DOMAIN queue' : queue'[i] # "barrier"
        BY <1>1, <1>2 DEF DInv, Drains
    <2>3. process.at = "starting" => worker'.at = "absent"
        BY <1>1 DEF DInv, Drains
    <2>4. process.at = "await" /\ barrier' = "queued" =>
              /\ queue' # << >> /\ queue'[Len(queue')] = "barrier"
              /\ \A i \in 1 .. Len(queue') - 1 : queue'[i] # "barrier"
        <3> SUFFICES ASSUME process.at = "await", barrier' = "queued"
                     PROVE  /\ queue' # << >> /\ queue'[Len(queue')] = "barrier"
                            /\ \A i \in 1 .. Len(queue') - 1 : queue'[i] # "barrier"
            OBVIOUS
        <3>1. record # "barrier" /\ barrier = "queued"
            BY <1>1
        <3>2. /\ queue[Len(queue)] = "barrier"
              /\ \A i \in 1 .. Len(queue) - 1 : queue[i] # "barrier"
            BY <3>1 DEF DInv, Drains
        <3> QED BY <1>1, <1>2, <3>1, <3>2, TailLast DEF record
    <2>5. process.at = "await" /\ barrier' = "acknowledged" => NothingLeft'
        <3> SUFFICES ASSUME process.at = "await", barrier' = "acknowledged" PROVE NothingLeft'
            OBVIOUS
        <3>1. barrier = "queued" /\ queue[Len(queue)] = "barrier"
              /\ \A i \in 1 .. Len(queue) - 1 : queue[i] # "barrier"
            BY <1>1 DEF DInv, Drains
        <3>2. record = "barrier" /\ ~D!discarding
            BY <1>1, <3>1
        <3>4. queue' = << >>
            BY <1>1, <1>2, <3>1, <3>2, TailLast DEF record
        <3>5. worker'.at # "writing"
            BY <1>1, <3>2
        <3>6. fate'.discarded = 0
            BY <1>6, <3>2 DEF DInv, DTypes, Fates, Drains
        <3> QED BY <3>4, <3>5, <3>6 DEF NothingLeft
    <2>6. process.at = "report" => process.outcome # "completed"
        BY <1>1 DEF DInv, Drains, NothingLeft
    <2>7. process.at = "await" => barrier' \in {"queued", "acknowledged", "dropped"}
        BY <1>1 DEF DInv, Drains
    <2>8. process.at = "await" /\ barrier' # "queued" => queue' = << >>
        <3> SUFFICES ASSUME process.at = "await", barrier' # "queued" PROVE queue' = << >>
            OBVIOUS
        <3>1. barrier = "queued" /\ queue[Len(queue)] = "barrier"
              /\ \A i \in 1 .. Len(queue) - 1 : queue[i] # "barrier"
            BY <1>1 DEF DInv, Drains
        <3>2. record = "barrier"
            BY <1>1, <3>1
        <3> QED BY <1>1, <1>2, <3>1, <3>2, TailLast DEF record
    <2> QED BY <1>1, <2>1, <2>2, <2>3, <2>4, <2>5, <2>6, <2>7, <2>8 DEF DInv, Drains
<1> QED BY <1>5, <1>7, <1>8, <1>9 DEF DInv

\* The record in the worker's hand is written, or discarded late (deliver).
LEMMA WriteD ==
    ASSUME DInv, D!Write
    PROVE  DInv'
<1>1. /\ worker.at = "writing"
      /\ fate' = (IF D!discarding THEN [fate EXCEPT !.discarded = @ + 1]
                  ELSE [fate EXCEPT !.written = @ + 1])
      /\ worker' = (IF D!discarding \/ counters = reported THEN D!Waits
                    ELSE [D!Waits EXCEPT !.at = "summing", !.seen = counters])
      /\ UNCHANGED <<queue, accepting, counters, reported, summed, discard, deadline, process,
                    barrier, offered>>
    BY DEF D!Write
<1>2. /\ worker' \in [at : {"absent", "waiting", "writing", "summing"},
                      record : Kinds \cup {D!NoRecord}, seen : Losses]
      /\ worker'.at \in {"waiting", "summing"}
      /\ worker'.at = "summing" => worker'.seen = counters
    BY <1>1 DEF DInv, DTypes, D!Waits, D!None, Losses
<1>3. /\ fate' \in Fates
      /\ fate'.failed = fate.failed /\ fate'.dropped = fate.dropped
      /\ fate'.written + fate'.discarded = fate.written + fate.discarded + 1
      /\ fate'.discarded # fate.discarded => D!discarding
    <2>1. fate \in Fates
        BY CounterTypes DEF DInv
    <2>2. fate' \in Fates
        BY <1>1, <2>1, FateGrows
    <2>3. CASE D!discarding
        BY <1>1, <2>1, <2>2, <2>3 DEF Fates
    <2>4. CASE ~D!discarding
        BY <1>1, <2>1, <2>2, <2>4 DEF Fates
    <2> QED BY <2>3, <2>4
<1>4. D!Queued' = D!Queued /\ D!Queued \in Nat /\ D!Held = 1 /\ D!Held' = 0
    BY <1>1, <1>2, RecordsFinite, DiagnosticsCounts DEF D!Queued, D!Held, DInv, DTypes
<1>5. DTypes'
    BY <1>1, <1>2, <1>3 DEF DInv, DTypes
<1>6. Balanced'
    <2>1. /\ offered = D!Queued + D!Held + fate.written + fate.failed + fate.dropped + fate.discarded
          /\ offered \in Nat /\ fate.written \in Nat /\ fate.failed \in Nat
          /\ fate.dropped \in Nat /\ fate.discarded \in Nat /\ offered' = offered
          /\ fate'.written \in Nat /\ fate'.discarded \in Nat
        BY <1>1, <1>3 DEF DInv, DTypes, Fates, Balanced
    <2> QED BY <1>3, <1>4, <2>1 DEF Balanced
<1>7. Told'
    <2>1. counters \in Losses
        BY DEF DInv, DTypes
    <2>2. counters.drops \in Nat /\ counters.failures \in Nat
        BY <2>1 DEF Losses
    <2> QED BY <1>1, <1>2, <1>3, <2>2 DEF DInv, Told
<1>8. Drains'
    BY <1>1, <1>2, <1>3 DEF DInv, Drains, D!discarding, NothingLeft
<1> QED BY <1>5, <1>6, <1>7, <1>8 DEF DInv

\* stderr refuses it.
LEMMA WriteFailsD ==
    ASSUME DInv, D!WriteFails
    PROVE  DInv'
<1>1. /\ worker.at = "writing" /\ fate' = [fate EXCEPT !.failed = @ + 1]
      /\ counters' = [counters EXCEPT !.failures = @ + 1] /\ worker' = D!Waits
      /\ UNCHANGED <<queue, accepting, reported, summed, discard, deadline, process,
                    barrier, offered>>
    BY DEF D!WriteFails
<1>2. /\ worker' \in [at : {"absent", "waiting", "writing", "summing"},
                      record : Kinds \cup {D!NoRecord}, seen : Losses]
      /\ worker'.at = "waiting"
    BY <1>1 DEF DInv, DTypes, D!Waits, D!None, Losses
<1>3. /\ fate' \in Fates
      /\ fate'.failed = fate.failed + 1 /\ fate'.dropped = fate.dropped
      /\ fate'.written = fate.written /\ fate'.discarded = fate.discarded
    <2>1. fate \in Fates
        BY CounterTypes DEF DInv
    <2>2. fate' \in Fates
        BY <1>1, <2>1, FateGrows
    <2> QED BY <1>1, <2>1, <2>2 DEF Fates
<1>4. counters' \in Losses /\ counters'.drops = counters.drops
      /\ counters'.failures = counters.failures + 1
    <2>1. counters \in Losses
        BY DEF DInv, DTypes
    <2> QED BY <1>1, <2>1 DEF Losses
<1>5. D!Queued' = D!Queued /\ D!Queued \in Nat /\ D!Held = 1 /\ D!Held' = 0
    BY <1>1, <1>2, RecordsFinite, DiagnosticsCounts DEF D!Queued, D!Held, DInv, DTypes
<1>6. DTypes'
    BY <1>1, <1>2, <1>3, <1>4 DEF DInv, DTypes
<1>7. Balanced'
    BY <1>1, <1>3, <1>5 DEF DInv, DTypes, Fates, Balanced
<1>8. Told'
    <2>1. counters \in Losses /\ reported \in Losses /\ fate.failed \in Nat
        BY CounterTypes DEF DInv, Fates
    <2>2. counters.failures \in Nat /\ reported.failures \in Nat
        BY <2>1 DEF Losses
    <2> QED BY <1>1, <1>2, <1>3, <1>4, <2>1, <2>2 DEF DInv, Told
<1>9. Drains'
    BY <1>1, <1>2, <1>3 DEF DInv, Drains, D!discarding, NothingLeft
<1> QED BY <1>6, <1>7, <1>8, <1>9 DEF DInv

\* A summary is written, discarded or refused.
LEMMA SummaryD ==
    ASSUME DInv, D!Summarize \/ D!SummaryFails
    PROVE  DInv'
<1>1. /\ worker.at = "summing" /\ worker' = D!Waits
      /\ UNCHANGED <<queue, accepting, discard, deadline, process, barrier, offered, fate>>
    BY DEF D!Summarize, D!SummaryFails
<1>2. /\ worker' \in [at : {"absent", "waiting", "writing", "summing"},
                      record : Kinds \cup {D!NoRecord}, seen : Losses]
      /\ worker'.at = "waiting"
    BY <1>1 DEF DInv, DTypes, D!Waits, D!None, Losses
<1>3. D!Queued' = D!Queued /\ D!Queued \in Nat /\ D!Held' = D!Held
    BY <1>1, <1>2, RecordsFinite, DiagnosticsCounts DEF D!Queued, D!Held, DInv, DTypes
<1>4. Drains'
    BY <1>1, <1>2 DEF DInv, Drains, D!discarding, NothingLeft
<1>5. Balanced'
    BY <1>1, <1>3 DEF DInv, Balanced
<1>6. /\ counters \in Losses /\ reported \in Losses /\ summed = reported
      /\ worker.seen \in Losses /\ worker.seen.drops <= counters.drops
      /\ worker.seen.failures <= counters.failures
    BY <1>1 DEF DInv, DTypes, Told
<1>7. /\ counters' \in Losses /\ counters'.drops = counters.drops
      /\ counters.failures <= counters'.failures
    <2>1. counters.failures \in Nat
        BY <1>6 DEF Losses
    <2>2. CASE D!Summarize
        BY <1>6, <2>1, <2>2 DEF D!Summarize
    <2>3. CASE D!SummaryFails
        BY <1>6, <2>1, <2>3 DEF D!SummaryFails, Losses
    <2> QED BY <2>2, <2>3
<1>8. summed' = reported' /\ reported' \in {reported, worker.seen}
    <2>1. CASE D!SummaryFails \/ D!discarding
        BY <1>6, <2>1 DEF D!Summarize, D!SummaryFails
    <2>2. CASE D!Summarize /\ ~D!discarding
        <3>1. /\ reported' = worker.seen
              /\ summed' = [summed EXCEPT
                                !.drops = @ + worker.seen.drops - reported.drops,
                                !.failures = @ + worker.seen.failures - reported.failures]
            BY <2>2 DEF D!Summarize, D!reported_after
        <3>2. /\ worker.seen.drops \in Nat /\ worker.seen.failures \in Nat
              /\ reported.drops \in Nat /\ reported.failures \in Nat
            BY <1>6 DEF Losses
        <3>3. summed' = [drops |-> worker.seen.drops, failures |-> worker.seen.failures]
            <4>1. summed = [drops |-> reported.drops, failures |-> reported.failures]
                BY <1>6 DEF Losses
            <4>2. /\ reported.drops + worker.seen.drops - reported.drops = worker.seen.drops
                  /\ reported.failures + worker.seen.failures - reported.failures
                         = worker.seen.failures
                BY <3>2
            <4> QED BY <3>1, <4>1, <4>2
        <3>4. worker.seen = [drops |-> worker.seen.drops, failures |-> worker.seen.failures]
            BY <1>6 DEF Losses
        <3> QED BY <3>1, <3>3, <3>4
    <2> QED BY <2>1, <2>2
<1>9. DTypes'
    BY <1>1, <1>2, <1>6, <1>7, <1>8 DEF DInv, DTypes
<1>10. Told'
    <2>1. /\ counters.failures \in Nat /\ counters'.failures \in Nat /\ fate.failed \in Nat
          /\ reported'.failures \in Nat /\ reported'.failures <= counters.failures
          /\ reported'.drops <= counters.drops
        BY <1>6, <1>7, <1>8, CounterTypes DEF Losses, DInv, Fates, Told
    <2> QED BY <1>1, <1>2, <1>7, <1>8, <2>1 DEF DInv, Told
<1> QED BY <1>4, <1>5, <1>9, <1>10 DEF DInv

\* Every step keeps the invariant.
LEMMA NextD == DInv /\ [D!Next]_D!vars => DInv'
<1> SUFFICES ASSUME DInv, [D!Next]_D!vars PROVE DInv' OBVIOUS
<1>1. CASE D!StartFails \/ D!Start
    BY <1>1, StartD
<1>2. CASE D!Observe
    BY <1>2, ObserveD DEF D!Observe, Kinds
<1>3. ASSUME NEW state \in {"ready", "unavailable"}, D!ObserveReadiness(state)
      PROVE  DInv'
    BY <1>3, ObserveD DEF D!ObserveReadiness, Kinds
<1>4. CASE D!Take
    BY <1>4, TakeD
<1>5. CASE D!Write
    BY <1>5, WriteD
<1>6. CASE D!WriteFails
    BY <1>6, WriteFailsD
<1>7. CASE D!Summarize \/ D!SummaryFails
    BY <1>7, SummaryD
<1>8. ASSUME NEW reason, D!BeginShutdown(reason)
      PROVE  DInv'
    BY <1>8, BeginShutdownD
<1>9. CASE D!DeadlinePasses
    BY <1>9, ProcessD
<1>10. CASE D!FinishShutdown
    BY <1>10, ProcessD, PlaceBarrierD, ReportD DEF D!FinishShutdown
<1>11. CASE UNCHANGED D!vars
    BY <1>11, DiagnosticsCounts
        DEF D!vars, DInv, DTypes, Balanced, D!Queued, D!Held, Told, Drains, NothingLeft,
            D!discarding
<1> QED
    BY <1>1, <1>2, <1>3, <1>4, <1>5, <1>6, <1>7, <1>8, <1>9, <1>10, <1>11 DEF D!Next

\* The invariant says more than the property.
LEMMA DInvSuffices == DInv => D!RecordsAccountedFor
<1> SUFFICES ASSUME DInv PROVE D!RecordsAccountedFor OBVIOUS
<1>1. /\ offered = D!Queued + D!Held + fate.written + fate.failed + fate.dropped + fate.discarded
      /\ Told
    BY DEF DInv, Balanced
<1>2. process.at = "report" /\ process.outcome = "completed"
          => offered = fate.written + fate.failed + fate.dropped
    <2> SUFFICES ASSUME process.at = "report", process.outcome = "completed"
                 PROVE  offered = fate.written + fate.failed + fate.dropped
        OBVIOUS
    <2>1. NothingLeft
        BY DEF DInv, Drains
    <2>2. D!Queued = 0 /\ D!Held = 0 /\ fate.discarded = 0
        BY <2>1, RecordsEmpty, DiagnosticsCounts DEF NothingLeft, D!Queued, D!Held
    <2>3. fate.written \in Nat /\ fate.failed \in Nat /\ fate.dropped \in Nat
        BY CounterTypes DEF DInv, Fates
    <2> QED BY <1>1, <2>2, <2>3
<1> QED BY <1>1, <1>2 DEF D!RecordsAccountedFor, Told

\* For any capacity and any interleaving of senders, worker and shutdown, every record is
\* accounted for, and a shutdown that reports Completed has delivered them (diagnostics.rs).
THEOREM RecordsAlwaysAccountedFor == D!Spec => []RecordsAccountedFor
<1>1. D!Spec => []DInv
    BY InitD, NextD, PTL DEF D!Spec
<1> QED BY <1>1, DInvSuffices, PTL DEF RecordsAccountedFor
=============================================================================
