------------------------------ MODULE WalletPicker ----------------------------
(***************************************************************************)
(* Which wallet extension a page works with: the detection and the stored  *)
(* choice of frontend/src/lib/wallets.ts, and the connecting and switching *)
(* of components/ui/wallet-selector.tsx and layout/dashboard-shell.tsx.    *)
(*                                                                         *)
(* An extension comes into the page at its own time.  It announces itself  *)
(* (EIP-6963, under an identifier new on every page), or puts a provider   *)
(* object in slots of the window, over whatever another one put there, or  *)
(* both.  In the injected object it may set the flags of another wallet.   *)
(* Which chains a wallet can sign for is left out: it only greys entries   *)
(* of the list out.                                                        *)
(***************************************************************************)
EXTENDS Naturals, SequencesExt

CONSTANTS
    Browsers,     \* the sets of extensions installed together
    Kit,          \* what each extension brings: announces, the brand of the name (rdns) it
                  \* announces itself under, or "no"; same, whether with the object it injects;
                  \* the brand that object's flags show; its class, or uuid; and the slots it
                  \* fills, of "quai", "pelagus", "ethereum" and "providers"
    Pickers,      \* what the user can ask with at the same time: the dashboard has two wallet
                  \* pickers, a payment page has one and a button for Blip
    Unchosen,     \* no wallet
    Overlapping,  \* bound: the browsers whose user asks twice at a time
    MaxReloads    \* bound: how often the page is loaded again

ASSUME WalletAssumption ==
    /\ DOMAIN Kit = UNION Browsers
    /\ Unchosen \notin DOMAIN Kit
    /\ MaxReloads \in Nat

VARIABLES
    browser,     \* the extensions installed
    injected,    \* those that are in the page, the earliest first
    reloads,
    storedId,    \* tripplepay:active-wallet, of localStorage
    asking,      \* what each picker is busy with, and the entry of the list it is about
    mismatch,    \* the entry whose account differs from the session's, if the user is asked
    signing,     \* the entry that is signing in, if any
    picked       \* the extension whose entry was stored last

pickerVars == <<browser, injected, reloads, storedId, asking, mismatch, signing, picked>>

NotAsking == [step |-> "rest"]

PickerInit ==
    /\ browser \in Browsers
    /\ injected = <<>>
    /\ reloads = 0
    /\ storedId = Unchosen
    /\ asking = [p \in Pickers |-> NotAsking]
    /\ mismatch = NotAsking
    /\ signing = NotAsking
    /\ picked = Unchosen

-----------------------------------------------------------------------------
(* detectWallets.                                                          *)

Filling(slot) == {e \in ToSet(injected) : slot \in Kit[e].slots}

\* What is in a slot of the window, if anything: the object of whoever came last.
InSlot(slot) ==
    {injected[i] : i \in {k \in DOMAIN injected :
        /\ injected[k] \in Filling(slot)
        /\ \A j \in DOMAIN injected : injected[j] \in Filling(slot) => j <= k}}

Injected(e) == <<e, "injected">>
Announced(e) == IF Kit[e].same THEN Injected(e) ELSE <<e, "announced">>

\* found: the list so far, and the objects it has dealt with.
Seen(found, brand) ==
    brand # "generic" /\ \E i \in DOMAIN found.list : found.list[i].brand = brand

Listed(found, object, brand, id) ==
    [list |-> Append(found.list, [of |-> object[1], brand |-> brand, id |-> id]),
     objects |-> found.objects \cup {object}]

AddAnnounced(found, e) ==
    IF Announced(e) \in found.objects THEN found
    ELSE Listed(found, Announced(e), Kit[e].announces, <<"eip6963", e, reloads>>)

\* Mutant of InjectedId: without the object's class.
BrandOnly(e, brand) == <<brand>>

InjectedId(e, brand) == <<brand, Kit[e].class>>

\* identify: what is in Pelagus' own slot is Pelagus, or else Blip.
Identify(e, slot) ==
    IF slot = "pelagus" /\ Kit[e].flags # "blip" THEN "pelagus" ELSE Kit[e].flags

\* push, of an object found in a slot.
Push(found, e, slot) ==
    LET brand == Identify(e, slot)
    IN  IF Injected(e) \in found.objects \/ Seen(found, brand) THEN found
        ELSE Listed(found, Injected(e), brand, InjectedId(e, brand))

\* Who is met in a channel: who announces itself, or is in the slot, or is one of the providers
\* of what is in window.ethereum.
Met(channel) ==
    CASE channel = "announcements" -> {e \in ToSet(injected) : Kit[e].announces # "no"}
      [] channel = "providers" -> IF InSlot("ethereum") = {} THEN {} ELSE Filling("providers")
      [] OTHER -> InSlot(channel)

Enter(found, e, channel) ==
    IF e \notin Met(channel) THEN found
    ELSE IF channel = "announcements" THEN AddAnnounced(found, e)
    ELSE Push(found, e, channel)

\* The channel is gone through, in the order in which extensions came.
GoThrough(found, channel) ==
    LET after[n \in 0 .. Len(injected)] ==
            IF n = 0 THEN found ELSE Enter(after[n - 1], injected[n], channel)
    IN  after[Len(injected)]

BlipId == <<"blip", "quai">>

\* Blip in window.quai: the other slots hold aliases of it.
AddBlip(found, blip) ==
    LET aliases == {Injected(e) : e \in InSlot("pelagus") \cup InSlot("ethereum")}
        added == IF Seen(found, "blip") THEN found
                 ELSE Listed(found, Injected(blip), "blip", BlipId)
    IN  [list |-> added.list, objects |-> added.objects \cup aliases]

BlipThere == {e \in InSlot("quai") : Kit[e].flags = "blip"}

\* Those that announced themselves come first; then Quai's own slots; window.ethereum last.
Detected ==
    LET first == GoThrough([list |-> <<>>, objects |-> {}], "announcements")
        second == IF BlipThere # {} THEN AddBlip(first, CHOOSE blip \in BlipThere : TRUE)
                  ELSE GoThrough(first, "quai")
        third == GoThrough(second, "pelagus")
    IN  GoThrough(GoThrough(third, "ethereum"), "providers").list

-----------------------------------------------------------------------------
(* The stored choice.                                                      *)

\* getActiveWallet: the first entry with the stored id.
Active ==
    LET list == Detected
    IN  {i \in DOMAIN list :
            /\ storedId # Unchosen
            /\ list[i].id = storedId
            /\ \A j \in 1 .. i - 1 : list[j].id # storedId}

\* getActiveWallet, called by everything that is on the page: an id that no wallet of the list
\* has is forgotten, unless the list is empty.
Look ==
    /\ storedId # Unchosen
    /\ Active = {}
    /\ Detected # <<>>
    /\ storedId' = Unchosen
    /\ UNCHANGED <<browser, injected, reloads, asking, mismatch, signing, picked>>

-----------------------------------------------------------------------------
(* Connecting and switching, from the list as it was drawn.  The wallet is *)
(* asked and awaited before anything is stored, and each picker is busy    *)
(* with one request of its own.                                            *)

AtRest ==
    /\ \A p \in Pickers : asking[p] = NotAsking
    /\ mismatch = NotAsking
    /\ signing = NotAsking

MayAsk(p) == asking[p] = NotAsking /\ (browser \in Overlapping \/ AtRest)

Ask(p, step, entry) ==
    /\ asking' = [asking EXCEPT ![p] = [step |-> step, entry |-> entry]]
    /\ UNCHANGED <<browser, injected, reloads, storedId, mismatch, signing, picked>>

\* connect, of an entry of the list.
Connect(p) ==
    LET list == Detected
    IN  /\ MayAsk(p)
        /\ \E i \in DOMAIN list : Ask(p, "connect", list[i])

\* The button for Blip, in its own browser: whatever the list says.
ConnectBlip(p) ==
    /\ MayAsk(p)
    /\ \E e \in BlipThere : Ask(p, "blip", [of |-> e, brand |-> "blip", id |-> BlipId])

\* switchChain, of the wallet that is active now: ensureNetwork.
SwitchChain(p) ==
    LET list == Detected
    IN  /\ MayAsk(p)
        /\ \E i \in Active : Ask(p, "switch", list[i])

Unask(p) == asking' = [asking EXCEPT ![p] = NotAsking]

\* storeWalletId
Choose(entry) ==
    /\ storedId' = entry.id
    /\ picked' = entry.of

\* The wallet gives an account, which is that of the session if there is one; or it is on the
\* network, and its id is stored again, whatever has been connected since it was asked.
Answered(p) ==
    /\ asking[p] # NotAsking
    /\ Choose(asking[p].entry)
    /\ Unask(p)
    /\ UNCHANGED <<browser, injected, reloads, mismatch, signing>>

\* The page is signed in with another account: the user is asked first, in one dialog.
AnotherAccount(p) ==
    /\ asking[p].step = "connect"
    /\ mismatch' = [step |-> "mismatch", entry |-> asking[p].entry]
    /\ Unask(p)
    /\ UNCHANGED <<browser, injected, reloads, storedId, signing, picked>>

\* Declined, on another network, locked, or timed out: nothing is stored.
NotConnected(p) ==
    /\ asking[p] # NotAsking
    /\ Unask(p)
    /\ UNCHANGED <<browser, injected, reloads, storedId, mismatch, signing, picked>>

\* confirmSwitchAccount: the wallet is asked to sign the login, once at a time.
SwitchAccount ==
    /\ mismatch # NotAsking
    /\ signing = NotAsking
    /\ signing' = mismatch
    /\ UNCHANGED <<browser, injected, reloads, storedId, asking, mismatch, picked>>

\* It has signed: the dialog closes, whichever it is by now.
SignedIn ==
    /\ signing # NotAsking
    /\ Choose(signing.entry)
    /\ signing' = NotAsking
    /\ mismatch' = NotAsking
    /\ UNCHANGED <<browser, injected, reloads, asking>>

\* The login fails; the dialog stays.
NotSignedIn ==
    /\ signing # NotAsking
    /\ signing' = NotAsking
    /\ UNCHANGED <<browser, injected, reloads, storedId, asking, mismatch, picked>>

\* The merchant stays with the account; a login under way goes on.
CloseDialog ==
    /\ mismatch # NotAsking
    /\ mismatch' = NotAsking
    /\ UNCHANGED <<browser, injected, reloads, storedId, asking, signing, picked>>

-----------------------------------------------------------------------------
(* The browser.                                                            *)

\* An extension comes into the page.
Inject(e) ==
    /\ e \in browser \ ToSet(injected)
    /\ injected' = Append(injected, e)
    /\ UNCHANGED <<browser, reloads, storedId, asking, mismatch, signing, picked>>

\* Only what is in localStorage stays.
ReloadPage ==
    /\ reloads < MaxReloads
    /\ reloads' = reloads + 1
    /\ injected' = <<>>
    /\ asking' = [p \in Pickers |-> NotAsking]
    /\ mismatch' = NotAsking
    /\ signing' = NotAsking
    /\ UNCHANGED <<browser, storedId, picked>>

PickerNext ==
    \/ \E p \in Pickers :
          \/ Connect(p) \/ ConnectBlip(p) \/ SwitchChain(p)
          \/ Answered(p) \/ AnotherAccount(p) \/ NotConnected(p)
    \/ SwitchAccount \/ SignedIn \/ NotSignedIn \/ CloseDialog
    \/ Look
    \/ \E e \in browser : Inject(e)
    \/ ReloadPage

-----------------------------------------------------------------------------
(* Properties.                                                             *)

PickerTypeOK ==
    /\ injected \in Seq(browser)
    /\ IsInjective(injected)
    /\ picked \in browser \cup {Unchosen}
    /\ storedId # Unchosen => picked # Unchosen
    /\ \A p \in Pickers : asking[p].step \in {"rest", "connect", "blip", "switch"}
    /\ {mismatch.step, signing.step} \subseteq {"rest", "mismatch"}
    /\ \A request \in {asking[p] : p \in Pickers} \cup {mismatch, signing} :
          request # NotAsking => request.entry.of \in ToSet(injected)

\* The brands an extension is listed under for the object it injects.
Brands(e) == {Identify(e, slot) : slot \in Kit[e].slots}

\* Another extension whose injected object cannot be told from this one's.
HasTwin(e) ==
    \E d \in browser \ {e} :
        /\ Brands(d) \cap Brands(e) # {}
        /\ \/ Kit[d].class = Kit[e].class
           \/ {Kit[d].flags, Kit[e].flags} = {"blip"}

\* Whatever order extensions come into the page in, whatever they overwrite or pretend to be,
\* and whichever requests overlap: the wallet that sign-in and payments use is the one that
\* a connection, a sign-in or a network switch stored last, through reloads too, unless that
\* one has a twin; a wallet that announces itself is on the list,
\* under its own name; and one that shows the same brand everywhere is on it once.
WalletsKeptApart ==
    LET list == Detected
    IN  /\ \A i \in Active : list[i].of = picked \/ HasTwin(picked)
        /\ \A e \in ToSet(injected) : Kit[e].announces # "no" =>
              \E i \in DOMAIN list : list[i].of = e /\ list[i].brand = Kit[e].announces
        /\ \A i, j \in DOMAIN list : i # j /\ list[i].of = list[j].of =>
              \/ list[i].brand # list[j].brand
              \/ list[i].brand = "generic"

=============================================================================
