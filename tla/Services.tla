------------------------------- MODULE Services -------------------------------
(***************************************************************************)
(* Parts of one server that share no state: what a user may use (Usage),   *)
(* the chats of guests (Guests), the tracker (Tracker), accounts (SignIn), *)
(* the choice of a WhatsApp account (CentralAccount) and what DeepTutor    *)
(* keeps (DeepTutor).  No step of one reads or writes a table of another,  *)
(* and no property is about two of them, so it is enough to let one move   *)
(* while the others rest.                                                  *)
(***************************************************************************)
EXTENDS Usage, Guests, Tracker, SignIn, CentralAccount, DeepTutor

VARIABLE moving

vars == <<moving, usageVars, guestVars, trackerVars, signInVars, centralVars,
          tutorVars>>

Init ==
  /\ moving \in {"usage", "guests", "tracker", "signIn", "central", "tutor"}
  /\ UsageInit /\ GuestInit /\ TrackerInit /\ SignInInit /\ CentralInit /\ TutorInit
  /\ entitled => moving = "usage"   \* what rests, rests in one state
  /\ (\E e \in Entries : LiveEntry(e)) => moving = "tracker"
  /\ (\E o \in Visits : objects[o].inPlace) => moving = "tutor"

Next ==
  /\ UNCHANGED moving
  /\ \/ /\ moving = "usage" /\ UsageNext
        /\ UNCHANGED <<guestVars, trackerVars, signInVars, centralVars, tutorVars>>
     \/ /\ moving = "guests" /\ GuestNext
        /\ UNCHANGED <<usageVars, trackerVars, signInVars, centralVars, tutorVars>>
     \/ /\ moving = "tracker" /\ TrackerNext
        /\ UNCHANGED <<usageVars, guestVars, signInVars, centralVars, tutorVars>>
     \/ /\ moving = "signIn" /\ SignInNext
        /\ UNCHANGED <<usageVars, guestVars, trackerVars, centralVars, tutorVars>>
     \/ /\ moving = "central" /\ CentralNext
        /\ UNCHANGED <<usageVars, guestVars, trackerVars, signInVars, tutorVars>>
     \/ /\ moving = "tutor" /\ TutorNext
        /\ UNCHANGED <<usageVars, guestVars, trackerVars, signInVars, centralVars>>

Spec == Init /\ [][Next]_vars

-----------------------------------------------------------------------------

\* What every part keeps of its own state: types, the books of the day, the count of a
\* guest, approvals that have their entry, entries that say what was approved, whole
\* users, one central account of an owner, and DeepTutor answers that were true once.
ServicesInv ==
  /\ UsageInv /\ GuestInv
  /\ TrackerInv /\ EntriesTell
  /\ AccountInv
  /\ CentralInv
  /\ TutorInv

=============================================================================
