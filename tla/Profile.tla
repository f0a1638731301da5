---------------------------- MODULE Profile ----------------------------
(***************************************************************************)
(* The private profile of book_smartz: saving it, checking a save whose    *)
(* outcome was lost, and recovering the text of a form that was sent after *)
(* its session ended (book_smartz/web/profile.rs, profile/*.rs), with the  *)
(* sign-in and sign-out it depends on (identity.rs, main.rs).              *)
(*                                                                         *)
(* One browser is modelled, with any number of tabs and its back button: a *)
(* page once shown can be sent again at any time.  Page n carries the      *)
(* draft row n as its context and, when its save id is fresh, save id n.   *)
(* Login n uses state n and, when it succeeds, opens session n.  A         *)
(* transaction holds the account's row lock, so it is one step.            *)
(***************************************************************************)
EXTENDS Naturals, Sequences, FiniteSets

CONSTANTS Readers,
          Texts,        \* what a reader may type (each marked with its author)
          MaxPages, MaxLogins,
          MaxEdits,     \* forms sent
          MaxTrouble    \* faults, refused sign-ins, sign-outs and expired sessions

VARIABLES profiles,     \* profiles: text, revision, import_attempted
          submissions,  \* profile_saves.submissions, by save id
          pages,        \* the forms shown, in order
          drafts,       \* profile_recovery.drafts, by id
          sessions,     \* the valid sessions: who they belong to
          cookie,       \* the session cookie of the browser
          logins,       \* login challenges and where they return to
          tasks,        \* the edits being handled, by slot
          told,         \* what the reader was told of each save
          edits, trouble    \* counters of the bounds

vars == <<profiles, submissions, pages, drafts, sessions, cookie, logins, tasks, told, edits, trouble>>

Slots == {1, 2}
NoText == [by |-> "nobody", text |-> "none"]
Blank == [by |-> "nobody", text |-> ""]
Imported(r) == [by |-> r, text |-> "imported"]
NoReader == "nobody"

ASSUME ReadersAssumption == NoReader \notin Readers
ASSUME BoundsAssumption == MaxPages \in Nat /\ MaxLogins \in Nat

Offer(id, revision) == [id |-> id, revision |-> revision]
NoOffer == Offer(0, 0)
Or(a, b) == IF a # NoOffer THEN a ELSE b

NoRow == [owner |-> NoReader, revision |-> 0, text |-> NoText, outcome |-> "none",
          acknowledged |-> TRUE]
Row(owner, revision, text, outcome, acknowledged) ==
    [owner |-> owner, revision |-> revision, text |-> text, outcome |-> outcome,
     acknowledged |-> acknowledged]

NoDraft == [present |-> FALSE, session |-> 0, text |-> NoText, checking |-> NoOffer]

-----------------------------------------------------------------------------
(* Pages.                                                                    *)

Form(session, reader, offer, checking, recovery, text) ==
    [session |-> session, reader |-> reader, offer |-> offer, checking |-> checking,
     recovery |-> recovery, text |-> text]

New == Len(pages) + 1

\* render: the page shows the confirmed profile when the editor has no draft,
\* offers a fresh save id when it has none, and gets a draft row of its own.
\* It is not shown when the session ended meanwhile, or no page is left.
Shown(session) == Len(pages) < MaxPages /\ sessions[session] # NoReader

render(session, form, rows) ==
    /\ pages' = IF Shown(session) THEN Append(pages, form) ELSE pages
    /\ drafts' = IF Shown(session)
                 THEN [rows EXCEPT ![New] = [NoDraft EXCEPT !.present = TRUE, !.session = session]]
                 ELSE rows

Fresh(session, r) ==
    Form(session, r, Offer(New, profiles[r].revision), NoOffer, 0, profiles[r].text)

Pending(r) ==
    {id \in DOMAIN submissions : submissions[id].owner = r /\ ~submissions[id].acknowledged}

OfferOf(id) == Offer(id, submissions[id].revision)
PendingOffer(r) == IF Pending(r) = {} THEN NoOffer
                   ELSE OfferOf(CHOOSE id \in Pending(r) : TRUE)

\* show without a recovery: an open save comes first.
Show ==
    LET r == sessions[cookie]
        open == PendingOffer(r)
    IN /\ Shown(cookie)
       /\ render(cookie, IF open = NoOffer THEN Fresh(cookie, r)
                         ELSE Form(cookie, r, open, open, 0, submissions[open.id].text), drafts)
       /\ UNCHANGED <<profiles, submissions, sessions, cookie, logins, tasks, told, edits, trouble>>

\* A bug could restore a draft to whoever follows its link.
restorable_by_link(n, r) == drafts[n].present /\ drafts[n].text # NoText

\* The row restore looks for: the reader's own draft, with captured text.
restorable(n, r) == drafts[n].present /\ drafts[n].text # NoText /\ pages[n].reader = r

\* recovery_requires_check: a save id that was never used is closed for good,
\* so that a late request cannot use it.
RequiresCheck(offer) ==
    /\ submissions[offer.id] # NoRow
    /\ \/ submissions[offer.id].outcome # "failed"
       \/ submissions[offer.id].text # NoText

\* show with the link of a captured draft (recovery.rs restore).
Restore(n) ==
    LET r == sessions[cookie]
        offer == pages[n].offer
        submitted == RequiresCheck(offer)
        checking == Or(drafts[n].checking, IF submitted THEN offer ELSE NoOffer)
    IN /\ Shown(cookie)
       /\ n \in 1 .. Len(pages)
       /\ restorable(n, r)
       /\ submissions' = [submissions EXCEPT ![offer.id] =
                            IF @ = NoRow THEN Row(pages[n].reader, offer.revision, NoText,
                                                  "failed", TRUE)
                            ELSE @]
       /\ render(cookie, Form(cookie, r, IF submitted THEN offer ELSE Offer(New, offer.revision),
                              Or(checking, PendingOffer(r)), n, drafts[n].text), drafts)
       /\ UNCHANGED <<profiles, sessions, cookie, logins, tasks, told, edits, trouble>>

-----------------------------------------------------------------------------
(* Edits.                                                                    *)

Idle == [pc |-> "idle", page |-> 0, text |-> NoText, command |-> "none"]

\* The text a form is sent with: the fields are read-only while a save has to
\* be checked.
Typed(n) == IF pages[n].checking # NoOffer THEN {pages[n].text}
            ELSE {pages[n].text} \cup {[by |-> pages[n].reader, text |-> t] : t \in Texts}

\* edit with a valid session: csrf, which belongs to the session, matches.
Edit(s, n) ==
    /\ tasks[s] = Idle
    /\ n \in 1 .. Len(pages)
    /\ edits < MaxEdits
    /\ edits' = edits + 1
    /\ sessions[cookie] # NoReader
    /\ pages[n].session = cookie
    /\ \E text \in Typed(n), command \in {"save", "check", "discard"} :
         tasks' = [tasks EXCEPT ![s] = [pc |-> command, page |-> n, text |-> text,
                                        command |-> command]]
    /\ UNCHANGED <<profiles, submissions, pages, drafts, sessions, cookie, logins, told, trouble>>

\* recovery.rs expired: the form's session is gone, its text is captured.
Expired(n) ==
    /\ n \in 1 .. Len(pages)
    /\ edits < MaxEdits
    /\ edits' = edits + 1
    /\ sessions[cookie] = NoReader \/ pages[n].session # cookie
    /\ drafts[n].present
    /\ \E text \in Typed(n) :
         drafts' = [drafts EXCEPT ![n].text = text, ![n].checking = pages[n].checking]
    /\ UNCHANGED <<profiles, submissions, pages, sessions, cookie, logins, tasks, told, trouble>>

PageOf(s) == pages[tasks[s].page]
\* The save an edit is about.
Target(s) == IF tasks[s].command = "check" THEN Or(PageOf(s).checking, PageOf(s).offer)
             ELSE PageOf(s).offer
RowOf(s) == submissions[Target(s).id]

Say(s, outcome) == told' = told \cup {[id |-> Target(s).id, outcome |-> outcome]}

\* The request ends: the page edit answers with, per outcome.
Answer(s, outcome) ==
    LET form == PageOf(s)
        cleared == IF outcome \in {"saved", "conflict", "discarded"} /\ form.recovery # 0
                   THEN [drafts EXCEPT ![form.recovery] = NoDraft] ELSE drafts
        kept == [form EXCEPT !.text = tasks[s].text]
    IN /\ tasks' = [tasks EXCEPT ![s] = Idle]
       /\ render(form.session,
                 CASE outcome \in {"saved", "conflict", "discarded"} ->
                          Fresh(form.session, form.reader)
                   [] outcome = "failed" ->
                          [kept EXCEPT !.offer = Offer(New, form.offer.revision),
                                       !.checking = NoOffer]
                   [] outcome = "unconfirmed" -> [kept EXCEPT !.checking = Target(s)]
                   [] outcome = "blocked" -> [kept EXCEPT !.checking = PendingOffer(form.reader)]
                   [] outcome = "checking" -> kept, cleared)

Goto(s, pc) == tasks' = [tasks EXCEPT ![s].pc = pc]

\* edit's discard, refused while a save is open.
Discard(s) ==
    /\ tasks[s].pc = "discard"
    /\ Answer(s, CASE PageOf(s).checking # NoOffer -> "checking"
                   [] PageOf(s).checking = NoOffer /\ Pending(PageOf(s).reader) # {} -> "blocked"
                   [] OTHER -> "discarded")
    /\ UNCHANGED <<profiles, submissions, sessions, cookie, logins, told, edits, trouble>>

\* saves.rs prepare: a save id belongs to one text and one revision.
Prepare(s) ==
    LET row == RowOf(s)
        r == PageOf(s).reader
    IN /\ tasks[s].pc = "save"
       /\ \/ /\ PageOf(s).checking # NoOffer
             /\ Answer(s, "checking")
             /\ UNCHANGED submissions
          \/ /\ PageOf(s).checking = NoOffer
             /\ row # NoRow
             /\ row.text \notin {NoText, tasks[s].text}
             /\ tasks' = [tasks EXCEPT ![s] = Idle]
             /\ UNCHANGED <<submissions, pages, drafts>>
          \/ /\ PageOf(s).checking = NoOffer
             /\ row # NoRow
             /\ row.text \in {NoText, tasks[s].text}
             /\ Goto(s, IF row.outcome = "pending" THEN "apply" ELSE "acknowledge")
             /\ UNCHANGED <<submissions, pages, drafts>>
          \/ /\ PageOf(s).checking = NoOffer
             /\ row = NoRow
             /\ Pending(r) # {}
             /\ Answer(s, "blocked")
             /\ UNCHANGED submissions
          \/ /\ PageOf(s).checking = NoOffer
             /\ row = NoRow
             /\ Pending(r) = {}
             /\ submissions' = [submissions EXCEPT ![Target(s).id] =
                                  Row(r, Target(s).revision, tasks[s].text, "pending", FALSE)]
             /\ Goto(s, "apply")
             /\ UNCHANGED <<pages, drafts>>
       /\ UNCHANGED <<profiles, sessions, cookie, logins, told, edits, trouble>>

\* A bug could apply a save over a newer profile.
conflicts_never(r, offer) == FALSE

\* The profile moved on since the form's page was shown.
conflicts(r, offer) == profiles[r].revision # offer.revision

\* saves.rs save, its second transaction.
Apply(s) ==
    LET r == PageOf(s).reader
        open == RowOf(s).outcome = "pending"
        conflict == conflicts(r, Target(s))
    IN /\ tasks[s].pc = "apply"
       /\ profiles' = [profiles EXCEPT ![r] =
                         IF open /\ ~conflict
                         THEN [text |-> tasks[s].text, revision |-> Target(s).revision + 1,
                               imported |-> TRUE]
                         ELSE @]
       /\ submissions' = [submissions EXCEPT ![Target(s).id].outcome =
                            IF open THEN IF conflict THEN "conflict" ELSE "saved" ELSE @]
       /\ Goto(s, "acknowledge")
       /\ UNCHANGED <<pages, drafts, sessions, cookie, logins, told, edits, trouble>>

\* The second transaction fails and is rolled back: the save is checked.
ApplyFails(s) ==
    /\ tasks[s].pc = "apply"
    /\ trouble < MaxTrouble
    /\ trouble' = trouble + 1
    /\ Goto(s, "check")
    /\ UNCHANGED <<profiles, submissions, pages, drafts, sessions, cookie, logins, told, edits>>

\* saves.rs acknowledge: the outcome is told, and no longer open.
Acknowledge(s) ==
    /\ tasks[s].pc = "acknowledge"
    /\ submissions' = [submissions EXCEPT ![Target(s).id].acknowledged = TRUE]
    /\ Say(s, RowOf(s).outcome)
    /\ Answer(s, RowOf(s).outcome)
    /\ UNCHANGED <<profiles, sessions, cookie, logins, edits, trouble>>

\* A bug could answer a check of an unknown save without closing its id.
closed_unrecorded(s) == IF RowOf(s) = NoRow THEN NoRow
                        ELSE [RowOf(s) EXCEPT !.outcome = "failed", !.acknowledged = TRUE]

\* "A terminal rejection prevents a late writer from applying this submission."
closed(s) == IF RowOf(s) = NoRow
             THEN Row(PageOf(s).reader, Target(s).revision, NoText, "failed", TRUE)
             ELSE [RowOf(s) EXCEPT !.outcome = "failed", !.acknowledged = TRUE]

\* saves.rs check.
Check(s) ==
    /\ tasks[s].pc = "check"
    /\ \/ /\ RowOf(s) # NoRow /\ RowOf(s).outcome # "pending"
          /\ Goto(s, "acknowledge")
          /\ UNCHANGED <<submissions, pages, drafts, told>>
       \/ /\ RowOf(s) = NoRow /\ Pending(PageOf(s).reader) # {}
          /\ Answer(s, "blocked")
          /\ UNCHANGED <<submissions, told>>
       \/ /\ RowOf(s) = NoRow => Pending(PageOf(s).reader) = {}
          /\ RowOf(s) # NoRow => RowOf(s).outcome = "pending"
          /\ submissions' = [submissions EXCEPT ![Target(s).id] = closed(s)]
          /\ Say(s, "failed")
          /\ Answer(s, "failed")
    /\ UNCHANGED <<profiles, sessions, cookie, logins, edits, trouble>>

\* A lost commit or a failed query, before or after any transaction.
Fails(s) ==
    /\ tasks[s].pc \in {"save", "apply", "acknowledge", "check"}
    /\ trouble < MaxTrouble
    /\ trouble' = trouble + 1
    /\ Answer(s, "unconfirmed")
    /\ UNCHANGED <<profiles, submissions, sessions, cookie, logins, told, edits>>

-----------------------------------------------------------------------------
(* Sessions.                                                                 *)

\* identity.rs login: a challenge, and the captured draft to return to.
Login(n) ==
    /\ Len(logins) < MaxLogins
    /\ n \in 0 .. Len(pages)
    /\ n # 0 => drafts[n].present /\ drafts[n].text # NoText
    /\ logins' = Append(logins, [open |-> TRUE, draft |-> n])
    /\ UNCHANGED <<profiles, submissions, pages, drafts, sessions, cookie, tasks, told, edits, trouble>>

\* recovery.rs destination: another account's sign-in drops the drafts this
\* browser holds for their owner; the owner's moves them to the new session.
Returned(n, r, session, rows) ==
    [i \in DOMAIN rows |->
        CASE n = 0 \/ ~rows[n].present -> rows[i]
          [] n # 0 /\ rows[n].present /\ pages[n].reader # r ->
                 IF i <= Len(pages) /\ pages[i].reader = pages[n].reader THEN NoDraft ELSE rows[i]
          [] OTHER ->
                 IF i <= Len(pages) /\ pages[i].reader = r /\ rows[i].present
                 THEN [rows[i] EXCEPT !.session = session] ELSE rows[i]]

\* profile.rs import_name: the provider's name, the first time only, and
\* without a revision of its own.
import_name(profile, r) ==
    IF profile.imported THEN profile
    ELSE [profile EXCEPT !.text = Imported(r), !.imported = TRUE]

\* identity.rs callback, for the newest login (its state is in the cookie).
\* The challenge is used up even when the provider refuses the code.
Callback(r) ==
    LET l == Len(logins)
    IN /\ l > 0
       /\ logins[l].open
       /\ logins' = [logins EXCEPT ![l].open = FALSE]
       /\ profiles' = [profiles EXCEPT ![r] = import_name(@, r)]
       /\ sessions' = [sessions EXCEPT ![l] = r]
       /\ drafts' = Returned(logins[l].draft, r, l, drafts)
       /\ cookie' = l
       /\ UNCHANGED <<submissions, pages, tasks, told, edits, trouble>>

\* The provider refuses the sign-in.
CallbackRefused ==
    LET l == Len(logins)
    IN /\ l > 0
       /\ logins[l].open
       /\ trouble < MaxTrouble
       /\ trouble' = trouble + 1
       /\ logins' = [logins EXCEPT ![l].open = FALSE]
       /\ UNCHANGED <<profiles, submissions, pages, drafts, sessions, cookie, tasks, told, edits>>

\* main.rs logout: the session and every draft of it or of the browser.
Logout ==
    /\ sessions[cookie] # NoReader
    /\ trouble < MaxTrouble
    /\ trouble' = trouble + 1
    /\ sessions' = [sessions EXCEPT ![cookie] = NoReader]
    /\ drafts' = [i \in DOMAIN drafts |-> NoDraft]
    /\ cookie' = 0
    /\ UNCHANGED <<profiles, submissions, pages, logins, tasks, told, edits>>

\* A session reaches its expires_at.
SessionExpires ==
    /\ sessions[cookie] # NoReader
    /\ trouble < MaxTrouble
    /\ trouble' = trouble + 1
    /\ sessions' = [sessions EXCEPT ![cookie] = NoReader]
    /\ UNCHANGED <<profiles, submissions, pages, drafts, cookie, logins, tasks, told, edits>>

-----------------------------------------------------------------------------
Init ==
    /\ profiles = [r \in Readers |-> [text |-> Blank, revision |-> 0, imported |-> FALSE]]
    /\ submissions = [id \in 1 .. MaxPages |-> NoRow]
    /\ pages = <<>>
    /\ drafts = [id \in 1 .. MaxPages |-> NoDraft]
    /\ sessions = [l \in 0 .. MaxLogins |-> NoReader]
    /\ cookie = 0
    /\ logins = <<>>
    /\ tasks = [s \in Slots |-> Idle]
    /\ told = {}
    /\ edits = 0
    /\ trouble = 0

Next ==
    \/ Show
    \/ \E n \in 1 .. MaxPages : Restore(n) \/ Expired(n) \/ \E s \in Slots : Edit(s, n)
    \/ \E s \in Slots : \/ Discard(s) \/ Prepare(s) \/ Apply(s) \/ ApplyFails(s)
                        \/ Acknowledge(s) \/ Check(s) \/ Fails(s)
    \/ \E n \in 0 .. MaxPages : Login(n)
    \/ \E r \in Readers : Callback(r)
    \/ CallbackRefused
    \/ Logout
    \/ SessionExpires

Spec == Init /\ [][Next]_vars

-----------------------------------------------------------------------------
(* Properties.                                                               *)

SavesOf(r) == {id \in DOMAIN submissions :
                  submissions[id].owner = r /\ submissions[id].outcome = "saved"}

\* What a reader was told of a save stays true: a save reported as failed or in
\* conflict is never applied, however late its first request runs (saves.rs
\* check), and one reported as saved was.
ToldStaysTrue == \A t \in told : submissions[t.id].outcome = t.outcome

\* Saves are applied one after the other, each to the profile its page showed:
\* none is lost, none is applied twice, and a sign-in's import never replaces
\* what a reader saved (saves.rs save, profile.rs import_name).
SavesAreSerial ==
    \A r \in Readers :
        /\ profiles[r].revision = Cardinality(SavesOf(r))
        /\ {submissions[id].revision : id \in SavesOf(r)} = 0 .. (profiles[r].revision - 1)
        /\ \A id \in SavesOf(r) : submissions[id].revision = profiles[r].revision - 1
                                     => profiles[r].text = submissions[id].text

\* Nobody is shown what another account typed in this browser, whatever
\* accounts sign in and whichever recovery link is followed (recovery.rs
\* restore and destination).
DraftsStayPrivate == \A n \in 1 .. Len(pages) : pages[n].text.by \in {pages[n].reader, NoReader}
=============================================================================
