------------------------------ MODULE ShareLinks ------------------------------
(***************************************************************************)
(* Share links: `sotto share`, the public page that opens one, and their   *)
(* revocation, beside the sessions of SignIn they are created and revoked  *)
(* with.  The value and the key in the URL fragment stay out of it: what   *)
(* matters is how often a link answers, and to whom it is still open.      *)
(***************************************************************************)
EXTENDS SignIn

CONSTANTS
    MaxLinks,           \* bound on links created
    MaxViews            \* MAX_VIEWS of a link

ASSUME LinksAssumption == MaxLinks \in Nat /\ MaxViews \in Nat \ {0}

VARIABLES
    links,              \* share_links: a sequence-like function of rows
    fetches,            \* claimed views on their way to a reader
    opened,             \* how often each link's content was received
    closed              \* views granted when the link was revoked or ran out

shareVars == <<links, fetches, opened, closed>>
vars == <<signInVars, shareVars>>

Link == 1 .. MaxLinks

NoLink == [owner |-> "none", max |-> 0, views |-> 0, open |-> FALSE]

Created(l) == links[l] # NoLink

Init ==
    /\ SignInInit
    /\ links = [l \in Link |-> NoLink]
    /\ fetches = [l \in Link |-> 0]
    /\ opened = [l \in Link |-> 0]
    /\ closed = [l \in Link |-> MaxViews]

-----------------------------------------------------------------------------

(* POST /shares with the stored session, which the request extractor        *)
(* resolves before the handler runs.  Whether the command hears the token   *)
(* makes no difference to the server: a link nobody was told stays open.    *)
CreateShare(l, n) ==
    /\ ~Created(l)
    /\ \A k \in Link : k < l => Created(k)
    /\ n \in 1 .. MaxViews
    /\ \E s \in SessionOf(stored) :
          links' = [links EXCEPT ![l] =
              [owner |-> s.user, max |-> n, views |-> 0, open |-> TRUE]]
    /\ UNCHANGED <<signInVars, fetches, opened, closed>>

(* A slip the runs notice: the bound is compared with the view being taken. *)
Claimable(l) == links[l].open /\ links[l].views <= links[l].max

(* Neither revoked, expired nor used up.                                    *)
Fetchable(l) == links[l].open /\ links[l].views < links[l].max

(* GET /shares/{token}: the check and the count are one UPDATE ... RETURNING *)
(* that the answer follows.                                                 *)
FetchShare(l) ==
    /\ Fetchable(l)
    /\ links' = [links EXCEPT ![l].views = @ + 1]
    /\ fetches' = [fetches EXCEPT ![l] = @ + 1]
    /\ UNCHANGED <<signInVars, opened, closed>>

(* The answer arrives, or the view is burnt for nothing.                    *)
AnswerFetch(l, arrives) ==
    /\ fetches[l] > 0
    /\ fetches' = [fetches EXCEPT ![l] = @ - 1]
    /\ opened' = IF arrives THEN [opened EXCEPT ![l] = @ + 1] ELSE opened
    /\ UNCHANGED <<signInVars, links, closed>>

Close(l) ==
    /\ links[l].open
    /\ links' = [links EXCEPT ![l].open = FALSE]
    /\ closed' = [closed EXCEPT ![l] = links[l].views]
    /\ UNCHANGED <<signInVars, fetches, opened>>

(* DELETE /shares/{token} by a session of the link's creator.               *)
RevokeShare(l, s) == LiveSession(s) /\ s.user = links[l].owner /\ Close(l)

(* expires_at passes.                                                       *)
ExpireShare(l) == Close(l)

-----------------------------------------------------------------------------

ShareStep(l) ==
    \/ \E n \in 1 .. MaxViews : CreateShare(l, n)
    \/ FetchShare(l)
    \/ \E arrives \in BOOLEAN : AnswerFetch(l, arrives)
    \/ \E s \in sessions : RevokeShare(l, s)
    \/ ExpireShare(l)

Next ==
    \/ SignInNext /\ UNCHANGED shareVars
    \/ \E l \in Link : ShareStep(l)

Spec == Init /\ [][Next]_vars

-----------------------------------------------------------------------------
(* Properties *)

(* Readers get a link's content at most as often as its creator allowed,    *)
(* answers still under way counted, and once it is revoked or has expired   *)
(* not once more than had been granted by then.                             *)
ViewsBounded ==
    \A l \in Link :
        Created(l) => /\ opened[l] + fetches[l] <= links[l].max
                      /\ opened[l] + fetches[l] <= closed[l]

=============================================================================
