------------------------- MODULE AndroidClientProofs -------------------------
(***************************************************************************)
(* For any number of taps and of new instances of the activity, no frame   *)
(* of the Android screen is half in one language.                          *)
(***************************************************************************)
EXTENDS AndroidClient, TLAPS

\* The remembered Context was made for the language that its first key names.
ContextFitsItsKeys ==
  context # None =>
    /\ context.keys \in AppLocales \X SystemLocales
    /\ context.strings = context.keys[1]

AndroidInv ==
  /\ locale \in AppLocales /\ base \in SystemLocales
  /\ ContextFitsItsKeys
  /\ ScreenIsOneLanguage

\* What remember(locale, baseConfiguration) yields is in the current language,
\* whether it is the old Context or a new one.
LEMMA LocalizedContextFits ==
  ASSUME AndroidInv
  PROVE  /\ LocalizedContext.keys = <<locale, base>>
         /\ LocalizedContext.strings = locale
<1>1. CASE context # None /\ context.keys = <<locale, base>>
  BY <1>1 DEF LocalizedContext, AndroidInv, ContextFitsItsKeys
<1>2. CASE ~(context # None /\ context.keys = <<locale, base>>)
  BY <1>2 DEF LocalizedContext
<1> QED
  BY <1>1, <1>2

LEMMA AndroidStep == AndroidInv /\ [AndroidNext]_androidVars => AndroidInv'
<1> SUFFICES ASSUME AndroidInv, [AndroidNext]_androidVars PROVE AndroidInv'
  OBVIOUS
<1>1. CASE Compose
  <2>1. /\ context' = LocalizedContext /\ UNCHANGED <<locale, base>>
        /\ frame' = [texts |-> LocalizedContext.strings, tag |-> locale,
                     direction |-> Direction(locale), button |-> Other(locale)]
    BY <1>1 DEF Compose
  <2>2. /\ LocalizedContext.keys = <<locale, base>>
        /\ LocalizedContext.strings = locale
    BY LocalizedContextFits
  <2>3. ContextFitsItsKeys'
    BY <2>1, <2>2 DEF AndroidInv, ContextFitsItsKeys
  <2>4. ScreenIsOneLanguage'
    BY <2>1, <2>2 DEF ScreenIsOneLanguage
  <2> QED
    BY <2>1, <2>3, <2>4 DEF AndroidInv
<1>2. CASE Toggle
  BY <1>2 DEF Toggle, Other, AppLocales, AndroidInv, ContextFitsItsKeys, ScreenIsOneLanguage
<1>3. CASE onCreate
  BY <1>3 DEF onCreate, AppLocales, AndroidInv, ContextFitsItsKeys, ScreenIsOneLanguage
<1>4. CASE UNCHANGED androidVars
  BY <1>4 DEF androidVars, AndroidInv, ContextFitsItsKeys, ScreenIsOneLanguage
<1> QED
  BY <1>1, <1>2, <1>3, <1>4 DEF AndroidNext

\* No frame is half in one language, for any number of taps and recreations.
THEOREM ScreenAlwaysOneLanguage == AndroidSpec => []ScreenIsOneLanguage
<1>1. AndroidInit => AndroidInv
  BY DEF AndroidInit, AndroidInv, ContextFitsItsKeys, ScreenIsOneLanguage, AppLocales
<1>2. AndroidInv => ScreenIsOneLanguage
  BY DEF AndroidInv
<1> QED
  BY <1>1, <1>2, AndroidStep, PTL DEF AndroidSpec
=============================================================================
