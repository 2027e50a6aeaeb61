----------------------------- MODULE WalletStore -----------------------------
(***************************************************************************)
(* The wallet state all screens of the canonical frontend share              *)
(* (hooks/useWallet.ts).  A timer and window focus ask Freighter for the     *)
(* account; the user connects, disconnects and retries.  Every question is   *)
(* answered at some later time, or never, and in any order: requestSeq tells *)
(* which answer still counts.  What Freighter answers is abstracted to the   *)
(* status it leads to.                                                       *)
(***************************************************************************)
EXTENDS Naturals

CONSTANT MaxRequests   \* bound on the questions asked, for TLC

ASSUME WalletStoreAssumption == MaxRequests \in Nat

VARIABLES
  installed,          \* window.freighterApi is there
  watched,            \* some component uses the store: the poll timer runs
  wallet,             \* the status shown; "failed" is disconnected with an error
  userDisconnected,
  requestSeq,
  reads               \* the questions without an answer: their number and asker

walletVars == <<installed, watched, wallet, userDisconnected, requestSeq, reads>>

\* What readWallet makes of Freighter's answer: no account, an error, a refusal or a
\* locked wallet, an account, an account on a network the app does not expect.
Answers == {"disconnected", "failed", "rejected", "connected", "wrong-network"}

WalletStatus == Answers \cup {"not-installed", "connecting"}

WalletInit ==
  /\ installed \in BOOLEAN /\ watched = FALSE
  /\ wallet = "disconnected" /\ userDisconnected = FALSE
  /\ requestSeq = 0 /\ reads = {}

\* A pause that forgets the explicit disconnect.
Mut_pollPaused == wallet = "connecting"

\* Poll results must not clobber an in-flight connect or an explicit disconnect.
pollPaused == wallet = "connecting" \/ userDisconnected

Ask(asker) ==
  /\ requestSeq < MaxRequests
  /\ requestSeq' = requestSeq + 1
  /\ reads' = reads \cup {[seq |-> requestSeq + 1, by |-> asker]}

\* That the extension is missing is known at once.
PollNow ==
  IF installed
  THEN Ask("poll") /\ UNCHANGED wallet
  ELSE wallet' = "not-installed" /\ UNCHANGED <<requestSeq, reads>>

\* A poll that does not ask whether polling is paused.
Mut_checkConnection ==
  /\ watched
  /\ PollNow
  /\ UNCHANGED <<installed, watched, userDisconnected>>

\* The timer, window focus, a tab made visible.
checkConnection ==
  /\ watched /\ ~pollPaused
  /\ PollNow
  /\ UNCHANGED <<installed, watched, userDisconnected>>

\* Freighter answers a poll: an outdated or paused one changes nothing.
PollAnswered(r, answer) ==
  /\ r \in reads /\ r.by = "poll"
  /\ reads' = reads \ {r}
  /\ wallet' = IF r.seq = requestSeq /\ ~pollPaused THEN answer ELSE wallet
  /\ UNCHANGED <<installed, watched, userDisconnected, requestSeq>>

\* Connect, in the header and beside an invoice to pay: offered unless an account is
\* linked or a connect is in flight, so also where there is no wallet to ask.
CanConnect == watched /\ wallet \notin {"connecting", "connected", "wrong-network"}

connectWallet ==
  /\ CanConnect
  /\ userDisconnected' = FALSE
  /\ IF installed
     THEN Ask("connect") /\ wallet' = "connecting"
     ELSE /\ requestSeq < MaxRequests /\ requestSeq' = requestSeq + 1
          /\ wallet' = "not-installed" /\ UNCHANGED reads
  /\ UNCHANGED <<installed, watched>>

\* A disconnect, or a newer connect, while it waited wins.
ConnectAnswered(r, answer) ==
  /\ r \in reads /\ r.by = "connect"
  /\ reads' = reads \ {r}
  /\ wallet' = IF r.seq = requestSeq THEN answer ELSE wallet
  /\ UNCHANGED <<installed, watched, userDisconnected, requestSeq>>

\* Disconnect, offered while an account is linked.
disconnectWallet ==
  /\ watched /\ wallet \in {"connected", "wrong-network"}
  /\ requestSeq < MaxRequests
  /\ userDisconnected' = TRUE /\ requestSeq' = requestSeq + 1
  /\ wallet' = "disconnected"
  /\ UNCHANGED <<installed, watched, reads>>

\* The first component to watch the wallet polls at once; while nobody watched,
\* nothing paused the poll.
subscribe ==
  /\ ~watched /\ watched' = TRUE
  /\ ~pollPaused /\ PollNow
  /\ UNCHANGED <<installed, userDisconnected>>

\* The last component that watched goes away: start fresh next time.
unsubscribe ==
  /\ watched /\ watched' = FALSE
  /\ requestSeq < MaxRequests /\ requestSeq' = requestSeq + 1
  /\ wallet' = "disconnected" /\ userDisconnected' = FALSE
  /\ UNCHANGED <<installed, reads>>

\* The extension injects its API after the page started, or is removed.
ExtensionChanges ==
  /\ installed' = ~installed
  /\ UNCHANGED <<watched, wallet, userDisconnected, requestSeq, reads>>

WalletNext ==
  \/ checkConnection \/ connectWallet \/ disconnectWallet \/ subscribe \/ unsubscribe
  \/ \E r \in reads, answer \in Answers : PollAnswered(r, answer) \/ ConnectAnswered(r, answer)
  \/ ExtensionChanges

WalletSpec == WalletInit /\ [][WalletNext]_walletVars

-----------------------------------------------------------------------------
WalletTypeOK ==
  /\ installed \in BOOLEAN /\ watched \in BOOLEAN /\ userDisconnected \in BOOLEAN
  /\ wallet \in WalletStatus
  /\ requestSeq \in Nat
  /\ reads \subseteq [seq : Nat, by : {"poll", "connect"}]

\* An explicit disconnect sticks: until the user connects again, no answer that was
\* on its way, to a poll or to a connect, brings an account back on the screen.
DisconnectSticks == userDisconnected => wallet = "disconnected"

\* "Connecting" is never a dead end: the question whose answer ends it is still in
\* flight and still the one that counts, whatever polls ran in between.
ConnectingHasOwner ==
  wallet = "connecting" => [seq |-> requestSeq, by |-> "connect"] \in reads

-----------------------------------------------------------------------------
\* The inductive invariant behind both.
WalletInv ==
  /\ WalletTypeOK /\ DisconnectSticks /\ ConnectingHasOwner
  /\ \A r \in reads : r.seq <= requestSeq
  /\ userDisconnected => \A r \in reads : r.seq # requestSeq
=============================================================================
