----------------------------- MODULE OAuthClient -----------------------------
(***************************************************************************)
(* GoogleOAuthClient and TokenStore (src/oauth): the credentials of the     *)
(* Google account, and the requests that are under way for them. One record *)
(* holds the client's fields; the operators say what a call makes of it, and *)
(* the module Account calls them.                                           *)
(*                                                                         *)
(* The code tells a late answer from a current one by a generation counter, *)
(* which the request remembers. Here a request is current until a new       *)
(* generation makes it stale. The account lookup's own counter moves only   *)
(* when its request is taken out of `replies` as well.                      *)
(***************************************************************************)
EXTENDS FiniteSets

Request == {"exchange", "refresh", "revoke", "email"}

Client ==
  [access : {"none", "fresh", "stale"},    \* access_token_; stale: about to expire
   authorizing : BOOLEAN,
   waiting : BOOLEAN,                      \* refreshing_
   paused : BOOLEAN,
   pending : BOOLEAN,                      \* account_lookup_pending_
   shared : BOOLEAN,                       \* account_refresh_reply_ is the refresh
   server : {"off", "live", "old"},        \* the loopback server; old: of a past generation
   replies : SUBSET Request,
   stale : SUBSET Request]

NewClient ==
  [access |-> "none", authorizing |-> FALSE, waiting |-> FALSE, paused |-> FALSE,
   pending |-> FALSE, shared |-> FALSE, server |-> "off", replies |-> {}, stale |-> {}]

IsBusy(c) == c.authorizing \/ c.waiting \/ c.replies # {}

\* ++generation_
NextGeneration(c) ==
  [c EXCEPT !.stale = c.replies \ {"email"},
            !.server = IF @ = "live" THEN "old" ELSE @]

MutantWithout(c, r) == [c EXCEPT !.replies = @ \ {r}]

Without(c, r) == [c EXCEPT !.replies = @ \ {r}, !.stale = @ \ {r}]

MutantCancelAccountLookup(c) ==
  LET d == IF c.shared THEN NextGeneration([Without(c, "refresh") EXCEPT !.shared = FALSE]) ELSE c
  IN  Without(d, "email")

\* Aborting the refresh a lookup sent takes it away from a synchronisation
\* that waits for it, too.
CancelAccountLookup(c) ==
  LET d == IF c.shared THEN NextGeneration([Without(c, "refresh") EXCEPT !.shared = FALSE]) ELSE c
  IN  [Without(d, "email") EXCEPT !.pending = FALSE]

MutantCancelAuthorization(c) ==
  [CancelAccountLookup(c) EXCEPT !.authorizing = FALSE, !.server = "off"]

\* The code exchange that was sent cannot be called back: it becomes stale.
CancelAuthorization(c) ==
  [NextGeneration(CancelAccountLookup(c)) EXCEPT !.authorizing = FALSE, !.server = "off"]

SetPaused(c, p) == [IF p THEN CancelAccountLookup(c) ELSE c EXCEPT !.paused = p]

\* Authorize, when the loopback port can be bound; a paused or busy client does
\* nothing and says nothing.
Authorize(c) ==
  LET d == CancelAccountLookup(c)
  IN  IF d.paused \/ IsBusy(d) THEN d
      ELSE [d EXCEPT !.authorizing = TRUE, !.server = "live"]

CanRefresh(c, token) == ~c.paused /\ c.replies = {} /\ token

\* RefreshAccessToken, when it can: the refresh belongs to a lookup that waits.
SendRefresh(c) == [c EXCEPT !.replies = @ \cup {"refresh"}, !.shared = c.pending]

\* AccessTokenRefreshed: a lookup that waits asks for the account.
Refreshed(c) ==
  [Without(c, "refresh") EXCEPT
     !.access = "fresh", !.shared = FALSE,
     !.replies = IF c.pending THEN @ \cup {"email"} ELSE @]

\* AccessTokenRefreshFailed: a lookup that waits is over.
RefreshFailed(c) == [c EXCEPT !.pending = FALSE, !.shared = FALSE]

Current(c, r) == r \in c.replies \ c.stale /\ ~c.paused

\* RevokeTokens: a busy client keeps its credentials, silently.
RevokeTokens(c, token) ==
  LET d == CancelAccountLookup(c)
  IN  IF d.paused \/ IsBusy(d) \/ (~token /\ d.access = "none") THEN d
      ELSE [d EXCEPT !.replies = @ \cup {"revoke"}]
=============================================================================
