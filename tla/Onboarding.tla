----------------------------- MODULE Onboarding -----------------------------
(***************************************************************************)
(* The onboarding wizard of both frontends: wallet, verify, invoice, done.   *)
(* Its state lives in the page and, after every change, in localStorage,     *)
(* which the tabs of a browser share; a page that is opened or reloaded      *)
(* starts from what is stored there.  The canonical wizard takes the address *)
(* from the wallet store, the legacy one asks the extension itself.          *)
(***************************************************************************)
EXTENDS Naturals

CONSTANTS
  Tab,       \* the browser's tabs
  Account,   \* the accounts of the wallet extension
  NoAccount, \* the empty address
  MaxAsked   \* bound on the legacy wizard's clicks on Connect without an answer

ASSUME OnboardingAssumption == NoAccount \notin Account /\ MaxAsked \in Nat

VARIABLES
  legacy,     \* which of the two wizards the tabs show
  blocked,    \* localStorage throws: reads find nothing, writes are dropped
  stored,     \* localStorage: the wizard's state, INITIAL_WIZARD_STATE when there is none
  onboarded,  \* localStorage: finished or closed once (canonical)
  shown,      \* shown[t]: the tab shows the wizard
  wizard,     \* wizard[t]: its state in the page
  connected,  \* connected[t]: the address of the tab's wallet store (canonical)
  asked,      \* asked[t]: how many answers of the extension the tab waits for (legacy)
  keyless     \* history: the tabs that were answered without an address (legacy)

wizardVars == <<legacy, blocked, stored, onboarded, shown, wizard, connected, asked, keyless>>

\* The amount and the recipient are left out: they decide whether "Create Invoice"
\* succeeds, and nothing else.
WizardState == [step : 0 .. 3, wallet : Account \cup {NoAccount}, verified : BOOLEAN, created : BOOLEAN]

INITIAL_WIZARD_STATE == [step |-> 0, wallet |-> NoAccount, verified |-> FALSE, created |-> FALSE]

WizardInit ==
  /\ legacy \in BOOLEAN /\ blocked \in BOOLEAN
  /\ stored = INITIAL_WIZARD_STATE /\ onboarded = FALSE
  /\ shown = [t \in Tab |-> FALSE] /\ wizard = [t \in Tab |-> INITIAL_WIZARD_STATE]
  /\ connected = [t \in Tab |-> NoAccount] /\ asked = [t \in Tab |-> 0] /\ keyless = {}

loadWizardState == IF blocked THEN INITIAL_WIZARD_STATE ELSE stored
saveWizardState(s) == stored' = IF blocked THEN stored ELSE s
clearWizardState == saveWizardState(INITIAL_WIZARD_STATE)

isOnboardingComplete == ~blocked /\ onboarded

\* The canonical wizard remembers that it was finished or closed.
markOnboardingComplete == onboarded' = (onboarded \/ (~legacy /\ ~blocked))

\* A handler sets the state; the effect that follows the render stores it.
SetState(t, s) ==
  /\ wizard' = [wizard EXCEPT ![t] = s]
  /\ saveWizardState(s)
  /\ UNCHANGED <<legacy, blocked, onboarded, shown>>

\* An effect that takes whatever the wallet store says.
Mut_PickUp(s, a) == [s EXCEPT !.wallet = a, !.step = IF @ = 0 THEN 1 ELSE @]

\* The effect on the wallet's address: it moves on from the wallet step only.
PickUp(s, a) ==
  IF a = NoAccount THEN s ELSE [s EXCEPT !.wallet = a, !.step = IF @ = 0 THEN 1 ELSE @]

\* The wizard is mounted: it loads the state and runs its effects.
Mount(t, a) ==
  /\ shown' = [shown EXCEPT ![t] = TRUE]
  /\ wizard' = [wizard EXCEPT ![t] = IF legacy THEN loadWizardState ELSE PickUp(loadWizardState, a)]
  /\ saveWizardState(wizard'[t])
  /\ asked' = [asked EXCEPT ![t] = 0]

\* "Setup guide", or the route of the legacy wizard.
openWizard(t) ==
  /\ ~shown[t] /\ Mount(t, connected[t])
  /\ UNCHANGED <<legacy, blocked, onboarded, connected, keyless>>

\* The close button and Escape: not in the legacy wizard, which is left by navigating away.
closeWizard(t) ==
  /\ shown[t] /\ shown' = [shown EXCEPT ![t] = FALSE]
  /\ markOnboardingComplete
  /\ asked' = [asked EXCEPT ![t] = 0]
  /\ UNCHANGED <<legacy, blocked, stored, wizard, connected, keyless>>

\* The tab is loaded again, or for the first time; the wallet store starts empty.
LoadTab(t) ==
  /\ connected' = [connected EXCEPT ![t] = NoAccount]
  /\ IF legacy \/ ~isOnboardingComplete
       THEN Mount(t, NoAccount)
       ELSE /\ shown' = [shown EXCEPT ![t] = FALSE] /\ asked' = [asked EXCEPT ![t] = 0]
            /\ UNCHANGED <<stored, wizard>>
  /\ UNCHANGED <<legacy, blocked, onboarded, keyless>>

\* The wallet store of a tab connects, changes its account or disconnects.
WalletChanges(t, a) ==
  /\ ~legacy /\ connected[t] # a /\ connected' = [connected EXCEPT ![t] = a]
  /\ IF shown[t]
       THEN SetState(t, PickUp(wizard[t], a))
       ELSE UNCHANGED <<legacy, blocked, onboarded, shown, wizard, stored>>
  /\ UNCHANGED <<asked, keyless>>

\* The legacy "Connect Freighter Wallet", offered while there is no address.
handleConnectWallet(t) ==
  /\ legacy /\ shown[t] /\ wizard[t].step = 0 /\ wizard[t].wallet = NoAccount
  /\ asked[t] < MaxAsked /\ asked' = [asked EXCEPT ![t] = @ + 1]
  /\ UNCHANGED <<legacy, blocked, stored, onboarded, shown, wizard, connected, keyless>>

\* The extension answers.  The answer is stored and the wizard goes on, whether it
\* names an address or not: an extension that does not share one answers with an empty
\* string.  "currentStep" is the one at the click, so the answer to a second click goes
\* back to the second step.
ConnectAnswers(t, a) ==
  /\ legacy /\ asked[t] > 0 /\ asked' = [asked EXCEPT ![t] = @ - 1]
  /\ SetState(t, [wizard[t] EXCEPT !.wallet = a, !.step = 1])
  /\ keyless' = IF a = NoAccount THEN keyless \cup {t} ELSE keyless
  /\ UNCHANGED connected

ConnectFails(t) ==
  /\ asked[t] > 0 /\ asked' = [asked EXCEPT ![t] = @ - 1]
  /\ UNCHANGED <<legacy, blocked, stored, onboarded, shown, wizard, connected, keyless>>

\* The buttons of the steps.  A refused click only shows a message.
Click(t) == shown[t] /\ UNCHANGED <<connected, asked, keyless>>

handleVerifyAddress(t) ==
  /\ Click(t) /\ wizard[t].step = 1 /\ ~wizard[t].verified /\ wizard[t].wallet # NoAccount
  /\ SetState(t, [wizard[t] EXCEPT !.verified = TRUE, !.step = 2])

handleCreateInvoice(t) ==
  /\ Click(t) /\ wizard[t].step = 2 /\ ~wizard[t].created
  /\ SetState(t, [wizard[t] EXCEPT !.created = TRUE, !.step = 3])

\* The last step has no Next.
canProceedToNext(s) ==
  \/ s.step = 0 /\ s.wallet # NoAccount
  \/ s.step = 1 /\ s.verified
  \/ s.step = 2 /\ s.created

handleNext(t) ==
  /\ Click(t) /\ canProceedToNext(wizard[t])
  /\ SetState(t, [wizard[t] EXCEPT !.step = @ + 1])

handleBack(t) ==
  /\ Click(t) /\ wizard[t].step > 0
  /\ SetState(t, [wizard[t] EXCEPT !.step = @ - 1])

\* The stored state goes, whatever other tabs are doing; the wizard closes.
handleFinish(t) ==
  /\ shown[t] /\ wizard[t].step = 3
  /\ clearWizardState
  /\ shown' = [shown EXCEPT ![t] = FALSE] /\ markOnboardingComplete
  /\ asked' = [asked EXCEPT ![t] = 0]
  /\ UNCHANGED <<legacy, blocked, wizard, connected, keyless>>

WizardNext ==
  \E t \in Tab :
    \/ openWizard(t) \/ closeWizard(t) \/ LoadTab(t)
    \/ \E a \in Account \cup {NoAccount} : WalletChanges(t, a)
    \/ handleConnectWallet(t) \/ ConnectFails(t)
    \/ \E a \in Account \cup {NoAccount} : ConnectAnswers(t, a)
    \/ handleVerifyAddress(t) \/ handleCreateInvoice(t)
    \/ handleNext(t) \/ handleBack(t) \/ handleFinish(t)

WizardSpec == WizardInit /\ [][WizardNext]_wizardVars

-----------------------------------------------------------------------------
\* What a state has passed: an address before the second step (unless a tab was
\* answered without one), its verification before the third, an invoice before the last.
Earned(s, without) ==
  /\ s.step > 0 => s.wallet # NoAccount \/ without # {}
  /\ s.step > 1 => s.verified
  /\ s.step > 2 => s.created

\* No step is skipped: neither going back and forth, nor a wallet that disconnects or
\* answers late, nor a reload, nor what another tab stored or cleared in between lets
\* the merchant past a step that was not completed.  The legacy wizard's first step has
\* one exception, an extension that answers without an address; the canonical wizard
\* has none.
StepsEarned ==
  /\ Earned(stored, keyless) /\ \A t \in Tab : Earned(wizard[t], keyless)
  /\ keyless # {} => legacy
=============================================================================
