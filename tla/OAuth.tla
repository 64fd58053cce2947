--------------------------------- MODULE OAuth ---------------------------------
(* The tokens of a drive that signs in with OAuth (common/drive_util/oauth.go),  *)
(* in its data store (storage/drive_data.go).  Each drive that is created, and   *)
(* each page that sets one up, has a token source of its own, loaded from the    *)
(* store; a source that refreshes its token stores it.  The provider gives a new *)
(* refresh token with each refresh and takes the old one back.                   *)
EXTENDS Naturals, FiniteSets

CONSTANTS
  Grantors,      \* who set the drive up
  Sources,     \* token sources
  Clients,     \* requests to the provider
  MaxTokens,   \* bound: tokens issued
  MaxPages     \* bound: pages shown

ASSUME OAuthAssumption == MaxTokens \in Nat /\ MaxPages \in Nat /\ "none" \notin Sources

VARIABLES
  exists,     \* the drive is in the table
  token, state,  \* its data, 0 for none
  issued,     \* tokens are numbered as they are issued
  good,       \* the ones that can still be refreshed
  source,     \* has: its token; knows: the one it stored; alive: it has not expired
  hand,       \* the token and the source of a request between Token and storeToken
  page,       \* an admin's: the state it was shown, what it does, the token it got
  pages,
  apart,      \* a token was not stored (an error, or a crash), or put over a newer one,
              \* or stored by a drive that was deleted
  erased      \* the tokens issued when the drive was last deleted

dataVars == <<exists, token, state>>
markVars == <<apart, erased>>
oauthVars == <<dataVars, issued, good, source, hand, page, pages, markVars>>

NoSource == [has |-> 0, knows |-> 0, alive |-> FALSE]
EmptyHand == [token |-> 0, of |-> "none"]
NoPage == [state |-> 0, does |-> "none", token |-> 0]

OAuthInit ==
  /\ exists = TRUE /\ token = 0 /\ state = 0 /\ issued = 0 /\ good = {}
  /\ source = [s \in Sources |-> NoSource] /\ hand = [c \in Clients |-> EmptyHand]
  /\ page = [a \in Grantors |-> NoPage] /\ pages = 0
  /\ apart = FALSE /\ erased = 0

\* storeToken (the function): four keys in one transaction, or an error.
StoreToken(t) ==
  /\ \/ token' = t /\ apart' = (apart \/ ~exists \/ t <= erased \/ t < token)
     \/ token' = token /\ apart' = TRUE
  /\ UNCHANGED erased
-----------------------------------------------------------------------------
\* OAuthInitConfig: a new state, which the pages shown before do not know.
ShowPage(a) ==
  /\ exists /\ page[a] = NoPage /\ pages < MaxPages
  /\ pages' = pages + 1 /\ state' = pages'
  /\ page' = [page EXCEPT ![a] = [state |-> pages', does |-> "shown", token |-> 0]]
  /\ UNCHANGED <<exists, token, issued, good, source, hand, markVars>>

\* OAuthInit, with the code for a page: state mismatch, or on to the exchange.
CheckState(a) ==
  /\ exists /\ page[a].does = "shown"
  /\ page' = [page EXCEPT ![a] = IF @.state = state THEN [@ EXCEPT !.does = "exchange"] ELSE NoPage]
  /\ UNCHANGED <<dataVars, issued, good, source, hand, pages, markVars>>

Exchange(a) ==
  /\ page[a].does = "exchange" /\ issued < MaxTokens
  /\ issued' = issued + 1 /\ good' = good \cup {issued'}
  /\ page' = [page EXCEPT ![a] = [state |-> @.state, does |-> "store", token |-> issued']]
  /\ UNCHANGED <<dataVars, source, hand, pages, markVars>>

StoreExchanged(a) ==
  /\ page[a].does = "store"
  /\ StoreToken(page[a].token) /\ page' = [page EXCEPT ![a] = NoPage]
  /\ UNCHANGED <<exists, state, issued, good, source, hand, pages>>

\* OAuthGet: a reload makes the drive anew; OAuthInitConfig does the same for its page.
MakeSource(s) ==
  /\ exists /\ token # 0
  /\ source' = [source EXCEPT ![s] = [has |-> token, knows |-> 0, alive |-> TRUE]]
  /\ UNCHANGED <<dataVars, issued, good, hand, page, pages, markVars>>

\* The last request of a drive that was replaced has ended.
DropSource(s) ==
  /\ source[s] # NoSource /\ \A c \in Clients : hand[c].of # s
  /\ source' = [source EXCEPT ![s] = NoSource]
  /\ UNCHANGED <<dataVars, issued, good, hand, page, pages, markVars>>

AccessExpires(s) ==
  /\ source[s].alive
  /\ source' = [source EXCEPT ![s].alive = FALSE]
  /\ UNCHANGED <<dataVars, issued, good, hand, page, pages, markVars>>

\* Token: the one it has, or a refreshed one.
TakeToken(c, s) ==
  /\ hand[c] = EmptyHand /\ source[s].alive
  /\ hand' = [hand EXCEPT ![c] = [token |-> source[s].has, of |-> s]]
  /\ UNCHANGED <<dataVars, issued, good, source, page, pages, markVars>>

Refresh(c, s) ==
  /\ hand[c] = EmptyHand /\ source[s].has \in good /\ ~source[s].alive /\ issued < MaxTokens
  /\ issued' = issued + 1 /\ good' = (good \ {source[s].has}) \cup {issued'}
  /\ source' = [source EXCEPT ![s].has = issued', ![s].alive = TRUE]
  /\ hand' = [hand EXCEPT ![c] = [token |-> issued', of |-> s]]
  /\ UNCHANGED <<dataVars, page, pages, markVars>>

\* Mutant: only the first token of a source is stored.
KeepFirst(c) ==
  /\ hand[c] # EmptyHand
  /\ IF source[hand[c].of].knows # 0 THEN UNCHANGED <<token, markVars, source>>
     ELSE /\ source' = [source EXCEPT ![hand[c].of].knows = hand[c].token]
          /\ StoreToken(hand[c].token)
  /\ hand' = [hand EXCEPT ![c] = EmptyHand]
  /\ UNCHANGED <<exists, state, issued, good, page, pages>>

\* tokenSource.storeToken: not the one it stored last, though the store may have
\* another; it is remembered as stored before it is.
KeepToken(c) ==
  /\ hand[c] # EmptyHand
  /\ IF source[hand[c].of].knows = hand[c].token THEN UNCHANGED <<token, markVars, source>>
     ELSE /\ source' = [source EXCEPT ![hand[c].of].knows = hand[c].token]
          /\ StoreToken(hand[c].token)
  /\ hand' = [hand EXCEPT ![c] = EmptyHand]
  /\ UNCHANGED <<exists, state, issued, good, page, pages>>

\* deleteDrive: the data is removed even if the row is not; the running drive stays until
\* the next reload.
DeleteDriveData ==
  /\ exists /\ exists' \in BOOLEAN /\ token' = 0 /\ state' = 0 /\ erased' = issued
  /\ UNCHANGED <<issued, good, source, hand, page, pages, apart>>

\* A drive of the same name is made.
AddDriveAnew ==
  /\ ~exists /\ exists' = TRUE
  /\ UNCHANGED <<token, state, issued, good, source, hand, page, pages, markVars>>

CrashOAuth ==
  /\ \E s \in Sources : source[s] # NoSource
  /\ source' = [s \in Sources |-> NoSource] /\ hand' = [c \in Clients |-> EmptyHand]
  /\ page' = [a \in Grantors |-> IF page[a].does = "shown" THEN page[a] ELSE NoPage]
  /\ apart' = (apart \/ \E c \in Clients : hand[c] # EmptyHand)
  /\ UNCHANGED <<dataVars, issued, good, pages, erased>>

OAuthNext ==
  \/ \E a \in Grantors : ShowPage(a) \/ CheckState(a) \/ Exchange(a) \/ StoreExchanged(a)
  \/ \E s \in Sources : MakeSource(s) \/ DropSource(s) \/ AccessExpires(s)
                        \/ \E c \in Clients : TakeToken(c, s) \/ Refresh(c, s)
  \/ \E c \in Clients : KeepToken(c)
  \/ DeleteDriveData \/ AddDriveAnew \/ CrashOAuth

OAuthSpec == OAuthInit /\ [][OAuthNext]_oauthVars
-----------------------------------------------------------------------------
\* The type invariant; a token that somebody has was issued, and one that is in use
\* belongs to a source.
OAuthTypeOK ==
  /\ exists \in BOOLEAN /\ issued \in 0..MaxTokens /\ token \in 0..issued /\ good \subseteq 1..issued
  /\ pages \in 0..MaxPages /\ state \in 0..pages
  /\ source \in [Sources -> [has : 0..issued, knows : 0..issued, alive : BOOLEAN]]
  /\ hand \in [Clients -> [token : 0..issued, of : Sources \cup {"none"}]]
  /\ page \in [Grantors -> [state : 0..pages, does : {"none", "shown", "exchange", "store"}, token : 0..issued]]
  /\ apart \in BOOLEAN /\ erased \in 0..issued
  /\ \A c \in Clients : hand[c].of # "none" => source[hand[c].of].has # 0

\* The token that is stored can be refreshed, so that the drive works after the next
\* start, unless a newer one could not be stored, a request that was overtaken (or a
\* source that had stored none yet) put its token over a newer one, or one that began
\* before the drive was deleted stored its own after.
StoredRefreshes ==
  ~apart /\ token # 0 /\ (\A c \in Clients : hand[c] = EmptyHand) => token \in good

\* A deleted drive leaves no token for the next one of its name, unless the running
\* drive stored one since.
DeletedIsForgotten == ~exists /\ ~apart => token = 0 /\ state = 0

\* The token that is kept is the one the drive needs, and goes with the drive.
TokensHold == OAuthTypeOK /\ StoredRefreshes /\ DeletedIsForgotten
=============================================================================
