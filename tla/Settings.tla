------------------------------ MODULE Settings ------------------------------
(***************************************************************************)
(* The shop's settings, rows of text under a key, and what is done on      *)
(* their word: what a gift card is sold for and how long it lasts, whether *)
(* a paid order books itself, what a parcel is declared as, the menu, the  *)
(* tax.  Each has its own screen, which validates; one endpoint writes any *)
(* key as it is given.  Texts are abstracted to what their readers make of *)
(* them.                                                                   *)
(***************************************************************************)
EXTENDS Handlers

CONSTANTS
    Config,       \* usable texts of the gift card setting ...
    Terms,        \* ... [Config -> [denominations, min, max, years]], amounts in paise
    BuiltIn,      \* DEFAULT_GIFT_CARD_CONFIG
    Amount,       \* what customers ask for, in paise
    Rupee,        \* paise to a rupee (100 in the code)
    Code,         \* what generateCode may return
    Attempts      \* codes tried for a card issued by hand (5 in the code)

ASSUME SettingsAssumption ==
    /\ BuiltIn \in Config /\ Config \cap {"absent", "unusable"} = {}
    /\ \A c \in Config :   \* giftCardConfigSchema
          LET t == Terms[c] IN
          /\ t.denominations \subseteq Nat \ {0} /\ t.denominations # {}
          /\ {t.min, t.max} \subseteq Nat \ {0} /\ t.min <= t.max
          /\ \A a \in t.denominations \cup {t.min, t.max} : a % Rupee = 0
          /\ t.years \in 1 .. 10
    /\ Amount \subseteq Nat /\ Rupee \in Nat \ {0} /\ Attempts \in Nat \ {0}

VARIABLES
    setting,      \* [Key -> its row's text, or "absent"]
    card,         \* [Code -> [amount, years] or None]
    \* History.
    shown         \* the gift card pages there have been

settings == <<setting, card, shown>>

Key == {"gift_card", "parcel", "auto_book", "menu", "tax", "studio_number"}

\* "unusable": not JSON, not of the shape, not a number.
Usable(k) ==
    CASE k = "gift_card"     -> Config
      [] k = "auto_book"     -> {"true", "false"}
      [] k = "studio_number" -> {"", "typed"}
      [] OTHER               -> {"set"}
Text(k) == Usable(k) \cup {"unusable"}

-----------------------------------------------------------------------------
(* Readers: a row that is not there, or not usable, is not the end of it. *)

readGiftCardConfig(s) == IF s["gift_card"] \in Config THEN s["gift_card"] ELSE BuiltIn

readParcelDefaults(s) == IF s["parcel"] = "set" THEN "set" ELSE "built_in"
loadCharges(s)        == IF s["tax"] = "set" THEN "set" ELSE "no_tax"

-----------------------------------------------------------------------------
(* Writers *)

Upsert(k, text) == setting' = [setting EXCEPT ![k] = text] /\ shown' = shown \cup {readGiftCardConfig(setting')}

\* PUT /admin/gift-cards/config/page, .../parcel-defaults, .../auto-book, .../navigation.
PutValidated(j, k) ==
    /\ Begin(j, Idle) /\ \E text \in Usable(k) : Upsert(k, text)
    /\ UNCHANGED card
writeGiftCardConfig(j) == PutValidated(j, "gift_card")
PutParcelDefaults(j)   == PutValidated(j, "parcel")
PutAutoBook(j)         == PutValidated(j, "auto_book")
PutNavigation(j)       == PutValidated(j, "menu")

\* PATCH /admin/settings: any keys at once, as they come, if each has a row.
\* Bound: one or two.
PatchSettings(j) ==
    \E k, l \in Key :
        /\ {setting[k], setting[l]} \cap {"absent"} = {} /\ Begin(j, Idle)
        /\ \E t \in Text(k), u \in Text(l) : setting' = [setting EXCEPT ![k] = t, ![l] = u]
        /\ shown' = shown \cup {readGiftCardConfig(setting')}
        /\ UNCHANGED card

\* At every boot: a number somebody typed is not a deploy's business.
ensureContactSettings ==
    /\ subject = "settings" /\ setting["studio_number"] = "absent"
    /\ Upsert("studio_number", "") /\ Beside("boot") /\ UNCHANGED card

-----------------------------------------------------------------------------
(* Gift cards *)

\* A denomination, or whole rupees within the limits.
assertPurchasableAmount(amount, config) ==
    \/ amount \in Terms[config].denominations
    \/ amount >= Terms[config].min /\ amount <= Terms[config].max /\ amount % Rupee = 0

\* The settings are read once, before the transaction.
SellBegin(j, op, amount) ==
    LET config == readGiftCardConfig(setting) IN
    /\ assertPurchasableAmount(amount, config)
    /\ Begin(j, [op |-> op, amount |-> amount, years |-> Terms[config].years, attempt |-> 1])
    /\ UNCHANGED settings

purchaseGiftCard(j, amount) == SellBegin(j, "sell", amount)
issueGiftCard(j, amount)    == SellBegin(j, "issue", amount)

Allocate(j) ==
    \E code \in Code :
        /\ job[j].op \in {"sell", "issue"} /\ card[code] = None /\ Goto(j, Idle)
        /\ card' = [card EXCEPT ![code] = [amount |-> job[j].amount, years |-> job[j].years]]
        /\ UNCHANGED <<setting, shown>>

\* The code is taken: a purchase fails, one issued by hand is tried again.
Collide(j) ==
    /\ job[j].op \in {"sell", "issue"} /\ \E code \in Code : card[code] # None
    /\ Goto(j, IF At(j, "issue") /\ job[j].attempt < Attempts
               THEN [job[j] EXCEPT !.attempt = @ + 1] ELSE Idle)
    /\ UNCHANGED settings

SettingsNext(j) ==
    \/ writeGiftCardConfig(j) \/ PutParcelDefaults(j) \/ PutAutoBook(j) \/ PutNavigation(j)
    \/ PatchSettings(j)
    \/ \E amount \in Amount : purchaseGiftCard(j, amount) \/ issueGiftCard(j, amount)
    \/ Allocate(j) \/ Collide(j)

\* A fresh database; one seeded before a release added the studio's number is
\* the same.
seedSettings ==
    /\ setting = [k \in Key |-> IF k \in {"menu", "tax"} THEN "set" ELSE "absent"]
    /\ card = [code \in Code |-> None]
    /\ shown = {BuiltIn}

-----------------------------------------------------------------------------

\* A gift card is worth what one page offered and lasts as long as that page
\* said, whatever is edited while it is being sold.
SoldAsShown ==
    \A code \in Code : card[code] # None =>
        \E c \in shown : /\ assertPurchasableAmount(card[code].amount, c)
                         /\ card[code].years = Terms[c].years

\* Whatever text is stored, nothing is sold, weighed or taxed on the word of one
\* that its reader does not understand.
Understood ==
    /\ readGiftCardConfig(setting) \in Config
    /\ "unusable" \notin {readParcelDefaults(setting), loadCharges(setting)}

=============================================================================
