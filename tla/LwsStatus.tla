----------------------------- MODULE LwsStatus -----------------------------
(***************************************************************************)
(* The lws-status plugin: every session is sent, as one JSON message in     *)
(* several websocket fragments, the list of the sessions that are           *)
(* connected, and again whenever somebody joins or leaves.  Each session    *)
(* walks the shared list at its own pace, one fragment per WRITEABLE        *)
(* callback, while the list changes under it.                               *)
(*                                                                          *)
(* A connection slot stands for the address of its per-session data: a new  *)
(* session may be given the slot a departed one is still remembered by.     *)
(* A message is the entries it lists; its punctuation is left out.          *)
(***************************************************************************)
EXTENDS Naturals, Sequences, SequencesExt

CONSTANTS
  Conns,      \* connection slots
  Null,       \* the end of the list
  MaxJoins    \* bound: sessions established in one behaviour (count_live_pss
              \* only grows, so it counts them)

ASSUME StatusConstants == Null \notin Conns /\ MaxJoins \in Nat

VARIABLES
  live_pss_list,    \* vhd->live_pss_list, newest first
  count_live_pss,   \* vhd->count_live_pss
  pss,              \* the per-session data of every slot
  pollout,          \* sessions with a WRITEABLE callback coming
  \* What the browser sees.
  open,             \* sessions in the middle of a fragmented message
  text,             \* the entries of the message being received
  shown             \* the entries of the last complete message

wireVars == <<open, text, shown>>
vars == <<live_pss_list, count_live_pss, pss, pollout, wireVars>>

Zeroed == [walk |-> "NONE", walk_next |-> Null, subsequent |-> FALSE,
           changed_partway |-> FALSE]
Live == ToSet(live_pss_list)
HeadOf(l) == IF l = <<>> THEN Null ELSE Head(l)

(* walk_next->next, for a session of the list.                               *)
NextOf(c) ==
  LET i == CHOOSE i \in DOMAIN live_pss_list : live_pss_list[i] = c
  IN IF i = Len(live_pss_list) THEN Null ELSE live_pss_list[i + 1]

Init ==
  /\ live_pss_list = <<>>
  /\ count_live_pss = 0
  /\ pss = [c \in Conns |-> Zeroed]
  /\ pollout = {}
  /\ open = {}
  /\ text = [c \in Conns |-> <<>>]
  /\ shown = [c \in Conns |-> <<>>]

(* Mutant: a walk under way is not told that the list changed. *)
NoticedNever(p) == p

Noticed(p) == [p EXCEPT !.changed_partway = TRUE]

(* A walk from the head of list l.                                           *)
Restarted(p, l) ==
  [p EXCEPT !.walk = "INITIAL", !.walk_next = HeadOf(l), !.subsequent = FALSE]

(***************************************************************************)
(* trigger_resend() over the list l: idle sessions start a walk, the others *)
(* are told that the list changed, and everybody gets a callback.           *)
(***************************************************************************)
Resent(c, l) ==
  IF c \notin ToSet(l) THEN Zeroed
  ELSE IF pss[c].walk = "NONE" THEN Restarted(pss[c], l)
  ELSE Noticed(pss[c])

TriggerResend(l) ==
  /\ pss' = [c \in Conns |-> Resent(c, l)]
  /\ pollout' = ToSet(l)

(* LWS_CALLBACK_ESTABLISHED, with the session's data zeroed by the library.  *)
Established(c) ==
  /\ c \notin Live
  /\ count_live_pss < MaxJoins
  /\ count_live_pss' = count_live_pss + 1
  /\ live_pss_list' = Cons(c, live_pss_list)
  /\ TriggerResend(live_pss_list')
  /\ UNCHANGED wireVars

(* LWS_CALLBACK_CLOSED: the session leaves the list (the count is not        *)
(* touched) and its data is freed.                                           *)
Leave(c) ==
  /\ live_pss_list' = RemoveFirst(live_pss_list, c)
  /\ TriggerResend(live_pss_list')
  /\ open' = open \ {c}
  /\ text' = [text EXCEPT ![c] = <<>>]
  /\ shown' = [shown EXCEPT ![c] = <<>>]
  /\ UNCHANGED count_live_pss

Closed(c) == c \in Live /\ Leave(c)

(* The library has a write of its own on the connection, and leaves POLLOUT  *)
(* enabled after it.                                                         *)
LibraryWrite(c) ==
  /\ c \in Live
  /\ pollout' = pollout \cup {c}
  /\ UNCHANGED <<live_pss_list, count_live_pss, pss, wireVars>>

(* SERVER_WRITEABLE with no walk under way returns without a write.          *)
WriteNothing(c) ==
  /\ c \in pollout
  /\ pss[c].walk = "NONE"
  /\ pollout' = pollout \ {c}
  /\ UNCHANGED <<live_pss_list, count_live_pss, pss, wireVars>>

(* WALK_INITIAL: the header, TEXT | NO_FIN.                                  *)
WriteInitial(c) ==
  /\ c \in pollout
  /\ pss[c].walk = "INITIAL"
  /\ pss' = [pss EXCEPT ![c].walk = "LIST", ![c].walk_next = HeadOf(live_pss_list)]
  /\ open' = open \cup {c}
  /\ text' = [text EXCEPT ![c] = <<>>]
  /\ UNCHANGED <<live_pss_list, count_live_pss, pollout, shown>>

StillThere(d) == d \in Live

(* WALK_LIST, the next session is still in the list: its entry,              *)
(* CONTINUATION | NO_FIN.                                                    *)
WriteEntry(c) ==
  LET d == pss[c].walk_next
      next == IF d \in Live THEN NextOf(d) ELSE Null
  IN
  /\ c \in pollout
  /\ pss[c].walk = "LIST"
  /\ d # Null
  /\ StillThere(d)
  /\ text' = [text EXCEPT ![c] = Append(@, d)]
  /\ pss' = [pss EXCEPT ![c].subsequent = TRUE,
                        ![c].walk_next = next,
                        ![c].walk = IF next = Null THEN "FINAL" ELSE "LIST"]
  /\ UNCHANGED <<live_pss_list, count_live_pss, pollout, open, shown>>

(* WALK_LIST, "our next guy went away": at most a separator is sent.         *)
WriteGone(c) ==
  LET d == pss[c].walk_next IN
  /\ c \in pollout
  /\ pss[c].walk = "LIST"
  /\ d # Null
  /\ ~StillThere(d)
  /\ pss' = [pss EXCEPT ![c].subsequent = TRUE, ![c].walk = "FINAL",
                        ![c].changed_partway = TRUE]
  /\ UNCHANGED <<live_pss_list, count_live_pss, pollout, wireVars>>

(* Mutant: the walk that starts over still counts as overtaken. *)
FinishedRestless(p) ==
  IF p.changed_partway THEN Restarted(p, live_pss_list) ELSE [p EXCEPT !.walk = "NONE"]

(* WALK_FINAL: the end of the message, CONTINUATION.  If the list changed    *)
(* meanwhile the walk starts over, otherwise the session is done.            *)
Finished(p) ==
  IF p.changed_partway
    THEN [Restarted(p, live_pss_list) EXCEPT !.changed_partway = FALSE]
    ELSE [p EXCEPT !.walk = "NONE"]

(* "if (pss->walk != WALK_NONE) lws_callback_on_writable(wsi)"               *)
AskedAgain(c, p) == IF p.walk = "NONE" THEN pollout \ {c} ELSE pollout

WriteFinal(c) ==
  /\ c \in pollout
  /\ pss[c].walk = "FINAL" \/ (pss[c].walk = "LIST" /\ pss[c].walk_next = Null)
  /\ pss' = [pss EXCEPT ![c] = Finished(pss[c])]
  /\ pollout' = AskedAgain(c, Finished(pss[c]))
  /\ open' = open \ {c}
  /\ shown' = [shown EXCEPT ![c] = text[c]]
  /\ text' = [text EXCEPT ![c] = <<>>]
  /\ UNCHANGED <<live_pss_list, count_live_pss>>

(* lws_write() fails: the callback returns -1 and the library closes the     *)
(* connection at once.                                                       *)
WriteFail(c) ==
  /\ c \in pollout
  /\ pss[c].walk # "NONE"
  /\ Leave(c)

Write(c) ==
  WriteNothing(c) \/ WriteInitial(c) \/ WriteEntry(c) \/ WriteGone(c) \/ WriteFinal(c)

Next ==
  \E c \in Conns :
    \/ Established(c)
    \/ Closed(c)
    \/ LibraryWrite(c)
    \/ Write(c)
    \/ WriteFail(c)

Spec == Init /\ [][Next]_vars

(* The service loop gives every connection its callback when its socket can  *)
(* take more; peers are assumed to go on reading.                            *)
FairSpec == Spec /\ \A c \in Conns : WF_vars(Write(c))
-----------------------------------------------------------------------------
(* A session that is not walking has been shown exactly the sessions that    *)
(* are connected now, in list order.                                         *)
QuietIsCurrent ==
  \A c \in Live : pss[c].walk = "NONE" => shown[c] = live_pss_list

(* A text frame opens a message only when none is open, and continuation     *)
(* frames are only sent inside one.                                          *)
OneMessageAtATime ==
  \A c \in Live : c \in open <=> pss[c].walk \in {"LIST", "FINAL"}

(***************************************************************************)
(* Whatever a browser was sent is framed as whole messages, and once its    *)
(* walk is over the last one is the list as it is: changed_partway and      *)
(* trigger_resend() leave no change of the list unnoticed and no message    *)
(* cut short, in whichever phase of the walk the change came.               *)
(***************************************************************************)
ShownIsRight == QuietIsCurrent /\ OneMessageAtATime

(* A walk has sent the first sessions of the list, in order, and goes on     *)
(* with the one after them.                                                  *)
SentSoFar(c) ==
  /\ Len(text[c]) <= Len(live_pss_list)
  /\ \A j \in 1..Len(text[c]) : text[c][j] = live_pss_list[j]
  /\ pss[c].walk_next = IF Len(text[c]) = Len(live_pss_list) THEN Null
                        ELSE live_pss_list[Len(text[c]) + 1]

(***************************************************************************)
(* A walk that will not start over is on course: unless it was told that    *)
(* the list changed, what it has sent is the beginning of the list as it is *)
(* and the pointer it goes on with is the entry after it.  A walk_next that *)
(* was freed, or freed and given to a new session (which the search of the  *)
(* list cannot tell), is only ever met by a walk that starts over.          *)
(***************************************************************************)
UntoldIsOnCourse ==
  \A c \in Live : ~pss[c].changed_partway =>
    /\ pss[c].walk = "LIST" => SentSoFar(c)
    /\ pss[c].walk = "FINAL" => text[c] = live_pss_list

(***************************************************************************)
(* Once nobody joins or leaves any more, every browser ends up showing the  *)
(* list as it is, and is not sent it again.                                 *)
(***************************************************************************)
Converges ==
  <>[](\A c \in Live : pss[c].walk = "NONE" /\ shown[c] = live_pss_list)
=============================================================================
