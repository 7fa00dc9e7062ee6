----------------------------- MODULE HomeProofs -----------------------------
(***************************************************************************)
(* Theorems about the parts of Home, for every value of the constants that *)
(* BoundsAssumption allows.                                                *)
(***************************************************************************)
EXTENDS Home, SequenceLemmas, FiniteSetTheorems, TLAPS

-----------------------------------------------------------------------------
(* HeightSheet *)

\* HeightOffered is not inductive: what a page or a sheet can draw, it can
\* draw after more builds, and a picker that was built once lists each option
\* once.
HeightInv ==
    /\ Sheet!TypeOK
    /\ form # "none" => builds >= 1
    /\ form \in {"wizard", "photo"} => Sheet!Drawn
    /\ form = "sheet" /\ ~Sheet!Drawn => index = height
    /\ ~relisted => /\ height # Unset => height < Options
                    /\ index # Unset => index < Options
                    /\ picker \in {0, 1}

\* More builds list no fewer options.
LEMMA MoreBuildsList ==
    ASSUME NEW n \in Nat, NEW m \in Nat, n <= m
    PROVE  Options * n \in Nat /\ Options * m \in Nat /\ Options * n <= Options * m
<1>1. Options \in Nat
  BY BoundsAssumption
<1>2. Options * m = Options * n + Options * (m - n)
  BY <1>1
<1>3. Options * n \in Nat /\ Options * (m - n) \in Nat
  BY <1>1
<1>. QED  BY <1>1, <1>2, <1>3

\* The type of the sheet, in the numbers that the provers count with.
LEMMA SheetFacts ==
    ASSUME Sheet!TypeOK
    PROVE  /\ Options \in Nat \ {0} /\ MaxBuilds \in Nat \ {0}
           /\ Sheet!Indices \subseteq Nat
           /\ height # Unset => height \in Nat
           /\ index # Unset => index \in Nat
           /\ builds \in Nat /\ builds <= MaxBuilds /\ picker \in Nat /\ picker <= builds
           /\ Sheet!Rebuilt \in Nat /\ Sheet!Rebuilt <= MaxBuilds /\ builds <= Sheet!Rebuilt
           /\ relisted \in BOOLEAN
<1>1. Options \in Nat \ {0} /\ MaxBuilds \in Nat \ {0}
  BY BoundsAssumption
<1>2. Options * MaxBuilds \in Nat
  BY <1>1
<1>3. Sheet!Indices \subseteq Nat
  BY <1>2 DEF Sheet!Indices
<1>4. (height # Unset => height \in Nat) /\ (index # Unset => index \in Nat)
  BY <1>3 DEF Sheet!TypeOK
<1>5. builds \in Nat /\ builds <= MaxBuilds /\ picker \in Nat /\ picker <= builds
  BY <1>1 DEF Sheet!TypeOK
<1>6. relisted \in BOOLEAN
  BY DEF Sheet!TypeOK
<1>. QED  BY <1>1, <1>3, <1>4, <1>5, <1>6 DEF Sheet!Rebuilt

\* What was drawn is drawn after one more build.
LEMMA StillDrawn ==
    ASSUME Sheet!TypeOK, builds' \in Nat, builds <= builds', index' = index, Sheet!Drawn
    PROVE  Sheet!Drawn'
<1>1. builds \in Nat /\ (index # Unset => index \in Nat)
  BY SheetFacts
<1>2. Options * builds \in Nat /\ Options * builds' \in Nat
      /\ Options * builds <= Options * builds'
  BY <1>1, MoreBuildsList
<1>. QED  BY <1>1, <1>2 DEF Sheet!Drawn

LEMMA HeightInit == Init => HeightInv
<1>. SUFFICES ASSUME Sheet!Init
              PROVE  HeightInv
  BY DEF Init
<1>1. Options \in Nat \ {0} /\ MaxBuilds \in Nat \ {0}
  BY BoundsAssumption
<1>2. height = Unset /\ index = Unset /\ picker = 0
  BY DEF Sheet!Init
<1>3. \/ field = "height" /\ form = "wizard" /\ builds = 1
      \/ field = "weight" /\ form = "none" /\ builds = 0
  BY DEF Sheet!Init
<1>4. relisted \in BOOLEAN
  BY Zenon DEF Sheet!Init
<1>5. Sheet!TypeOK
  BY <1>1, <1>2, <1>3, <1>4 DEF Sheet!TypeOK
<1>. QED  BY <1>1, <1>2, <1>3, <1>5 DEF HeightInv, Sheet!Drawn

LEMMA HeightStep == HeightInv /\ [Next]_vars => HeightInv'
<1>. SUFFICES ASSUME HeightInv, [Next]_vars
              PROVE  HeightInv'
  OBVIOUS
<1>a. /\ Sheet!TypeOK
      /\ Options \in Nat \ {0} /\ MaxBuilds \in Nat \ {0}
      /\ height # Unset => height \in Nat
      /\ index # Unset => index \in Nat
      /\ builds \in Nat /\ builds <= MaxBuilds /\ picker \in Nat /\ picker <= builds
      /\ Sheet!Rebuilt \in Nat /\ Sheet!Rebuilt <= MaxBuilds /\ builds <= Sheet!Rebuilt
      /\ relisted \in BOOLEAN
  BY SheetFacts DEF HeightInv
<1>1. CASE UNCHANGED sheetVars
  BY <1>1 DEF HeightInv, sheetVars, Sheet!TypeOK, Sheet!Indices, Sheet!Drawn
<1>2. CASE Sheet!Rebuild
  <2>1. builds' \in Nat /\ builds' <= MaxBuilds /\ builds <= builds' /\ builds' >= 1
        /\ UNCHANGED <<field, height, form, index, picker, relisted>>
    BY <1>2, <1>a DEF Sheet!Rebuild, HeightInv
  <2>2. Sheet!TypeOK'
    BY <1>a, <2>1 DEF Sheet!TypeOK, Sheet!Indices
  <2>3. Sheet!Drawn => Sheet!Drawn'
    BY <1>a, <2>1, StillDrawn
  <2>. QED  BY <2>1, <2>2, <2>3 DEF HeightInv
<1>3. CASE Sheet!OpenPicker \/ Sheet!RebuildPicker
  <2>1. /\ form \in {"wizard", "sheet"} /\ picker' = builds
        /\ UNCHANGED <<field, height, form, builds, index>>
    BY <1>3 DEF Sheet!OpenPicker, Sheet!RebuildPicker, Sheet!ListAll, HeightInv, Sheet!TypeOK
  <2>2. relisted' \in BOOLEAN /\ (~relisted' => ~relisted /\ ~(builds > 1))
    BY <1>3, <1>a, Zenon DEF Sheet!OpenPicker, Sheet!RebuildPicker, Sheet!ListAll
  <2>3. Sheet!TypeOK'
    BY <1>a, <2>1, <2>2 DEF Sheet!TypeOK, Sheet!Indices
  <2>4. ~relisted' => picker' \in {0, 1}
    BY <1>a, <2>1, <2>2
  <2>. QED  BY <2>1, <2>2, <2>3, <2>4 DEF HeightInv, Sheet!Drawn
<1>4. ASSUME NEW i \in Sheet!Indices, Sheet!Turn(i)
      PROVE  HeightInv'
  <2>1. /\ i \in 0 .. Options * picker - 1 /\ picker # 0 /\ index' = i
        /\ builds' = Sheet!Rebuilt /\ UNCHANGED <<field, height, form, picker, relisted>>
    BY <1>4 DEF Sheet!Turn, Sheet!Listed
  <2>2. i \in Nat
    BY <1>a, SheetFacts
  <2>3. Sheet!TypeOK'
    BY <1>a, <2>1 DEF Sheet!TypeOK, Sheet!Indices
  <2>4. Sheet!Drawn'
    <3>1. picker <= builds' /\ builds' \in Nat
      BY <1>a, <2>1
    <3>2. Options * picker \in Nat /\ Options * builds' \in Nat
          /\ Options * picker <= Options * builds'
      BY <1>a, <3>1, MoreBuildsList
    <3>. QED  BY <2>1, <2>2, <3>2 DEF Sheet!Drawn
  <2>5. ~relisted => i < Options
    <3>1. ~relisted => picker = 1
      BY <2>1 DEF HeightInv
    <3>. QED  BY <1>a, <2>1, <2>2, <3>1
  <2>. QED  BY <1>a, <2>1, <2>3, <2>4, <2>5 DEF HeightInv
<1>5. CASE Sheet!ClosePicker
  <2>1. /\ picker' = 0 /\ height' = (IF form = "sheet" THEN index ELSE height)
        /\ UNCHANGED <<field, form, builds, index, relisted>>
    BY <1>5 DEF Sheet!ClosePicker
  <2>2. Sheet!TypeOK'
    BY <1>a, <2>1 DEF Sheet!TypeOK, Sheet!Indices
  <2>. QED  BY <2>1, <2>2 DEF HeightInv, Sheet!Drawn
<1>6. CASE Sheet!Continue
  <2>1. /\ form = "wizard" /\ form' = "photo" /\ height' = index /\ picker = 0
        /\ UNCHANGED <<field, builds, index, picker, relisted>>
    BY <1>6 DEF Sheet!Continue
  <2>2. Sheet!TypeOK'
    BY <1>a, <2>1 DEF Sheet!TypeOK, Sheet!Indices
  <2>. QED  BY <2>1, <2>2 DEF HeightInv, Sheet!Drawn
<1>7. CASE Sheet!Back
  <2>1. /\ form = "photo" /\ form' = "wizard"
        /\ UNCHANGED <<field, height, builds, index, picker, relisted>>
    BY <1>7 DEF Sheet!Back
  <2>2. Sheet!TypeOK'
    BY <1>a, <2>1 DEF Sheet!TypeOK, Sheet!Indices
  <2>. QED  BY <2>1, <2>2 DEF HeightInv, Sheet!Drawn
\* Nothing is chosen on what is new or gone.
<1>8. ASSUME form' \in {"none", "wizard"}, builds' \in {0, 1}, form' # "none" => builds' = 1,
             index' = Unset, picker' = 0, height' \in {height, Unset},
             UNCHANGED <<field, relisted>>
      PROVE  HeightInv'
  <2>1. Sheet!TypeOK'
    BY <1>8, <1>a DEF Sheet!TypeOK, Sheet!Indices
  <2>. QED  BY <1>8, <2>1 DEF HeightInv, Sheet!Drawn
<1>9. CASE Sheet!Reenter \/ Sheet!Register \/ Sheet!Close \/ Sheet!Kill
  <2>1. form = "photo" => picker = 0
    BY <1>a DEF Sheet!TypeOK
  <2>. QED  BY <1>8, <1>9, <2>1 DEF Sheet!Reenter, Sheet!Register, Sheet!Close, Sheet!Kill
<1>10. CASE Sheet!Open
  <2>1. /\ form' = "sheet" /\ builds' = 1 /\ index' = height
        /\ UNCHANGED <<field, height, picker, relisted>>
    BY <1>10 DEF Sheet!Open
  <2>2. picker = 0
    BY <1>10, <1>a DEF Sheet!Open, Sheet!TypeOK
  <2>3. Sheet!TypeOK'
    BY <1>a, <2>1, <2>2 DEF Sheet!TypeOK, Sheet!Indices
  <2>. QED  BY <2>1, <2>2, <2>3 DEF HeightInv
<1>11. CASE Sheet!Cancel
  <2>1. /\ form = "sheet" /\ picker = 0 /\ index' = Unset /\ height' = Unset
        /\ builds' = Sheet!Rebuilt /\ UNCHANGED <<field, form, picker, relisted>>
    BY <1>11 DEF Sheet!Cancel
  <2>2. Sheet!TypeOK'
    BY <1>a, <2>1 DEF Sheet!TypeOK, Sheet!Indices
  <2>. QED  BY <1>a, <2>1, <2>2 DEF HeightInv, Sheet!Drawn
<1>. QED
  BY <1>1, <1>2, <1>3, <1>4, <1>5, <1>6, <1>7, <1>9, <1>10, <1>11
     DEF Next, vars, SheetMoves, Sheet!Next,
         LanguagesMove, FiltersMove, LikedByMoves, DialogsMove, SyncMoves

LEMMA HeightInvOffers == HeightInv => HeightOffered
<1>. SUFFICES ASSUME HeightInv
              PROVE  /\ ~relisted /\ height # Unset => height < Options
                     /\ form # "none" /\ ~Sheet!Drawn
                        => relisted /\ form = "sheet" /\ index = height
  BY DEF HeightOffered, Sheet!HeightOffered
<1>1. ASSUME form # "none", ~Sheet!Drawn
      PROVE  relisted /\ form = "sheet" /\ index = height
  <2>1. form = "sheet" /\ index = height
    BY <1>1 DEF HeightInv, Sheet!TypeOK
  <2>2. /\ builds \in Nat /\ builds >= 1 /\ index # Unset /\ index \in Nat
        /\ ~(index < Options * builds) /\ Options \in Nat
    BY <1>1, SheetFacts DEF HeightInv, Sheet!Drawn
  <2>3. Options * 1 <= Options * builds /\ Options * builds \in Nat
    BY <2>2, MoreBuildsList
  <2>4. relisted
    BY <2>2, <2>3 DEF HeightInv
  <2>. QED  BY <2>1, <2>4
<1>. QED  BY <1>1 DEF HeightInv

(***************************************************************************)
(* A height that the wizard or the sheet has given to the model is one of  *)
(* those offered, and whatever is open can draw its own, for any number of *)
(* options and builds, unless a picker has listed the options of two       *)
(* builds; after that only a sheet throws, over the height it opened with  *)
(* (page_select_height.dart:28-35, 189; widget_profile_fields.dart:207-291).*)
(***************************************************************************)
THEOREM HeightIsOffered == Spec => []HeightOffered
BY HeightInit, HeightStep, HeightInvOffers, PTL DEF Spec

-----------------------------------------------------------------------------
(* KnownLanguages *)

LanguagesInv == known \in Seq(Codes) /\ switchedOff \in BOOLEAN /\ LanguagesOnce

LEMMA LanguagesInit == Init => LanguagesInv
<1>. SUFFICES ASSUME Languages!Init
              PROVE  LanguagesInv
  BY DEF Init
<1>a. PICK s \in Languages!SetToSeqs(Codes) : \E n \in DOMAIN s :
         n <= MaxLanguages /\ known = SubSeq(s, 1, n)
  BY DEF Languages!Init
<1>1. PICK n \in DOMAIN s : n <= MaxLanguages /\ known = SubSeq(s, 1, n)
  BY <1>a
<1>2. ~switchedOff /\ switchedOff \in BOOLEAN
  BY Zenon DEF Languages!Init
<1>3. Cardinality(Codes) \in Nat
  BY FiniteAssumption, FS_CardinalityType
<1>b. Languages!Cardinality(Codes) = Cardinality(Codes)
  BY DEF Languages!Cardinality, Cardinality
<1>4. /\ s \in [1 .. Cardinality(Codes) -> Codes]
      /\ \A i, j \in 1 .. Cardinality(Codes) : i # j => s[i] # s[j]
  BY <1>b DEF Languages!SetToSeqs
<1>5. n \in Nat \ {0} /\ n <= Cardinality(Codes)
  BY <1>3, <1>4
<1>6. \A i \in 1 .. n : s[i] \in Codes
  BY <1>3, <1>4, <1>5
<1>7. /\ known \in Seq(Codes) /\ Len(known) = IF 1 <= n THEN n - 1 + 1 ELSE 0
      /\ \A i \in 1 .. n - 1 + 1 : known[i] = s[1 + i - 1]
  BY <1>1, <1>5, <1>6, SubSeqProperties
<1>8. Len(known) = n
  BY <1>5, <1>7
<1>9. ASSUME NEW i \in 1 .. n  PROVE known[i] = s[i] /\ i \in 1 .. Cardinality(Codes)
  <2>1. 1 + i - 1 = i /\ i \in 1 .. n - 1 + 1
    BY <1>5
  <2>. QED  BY <1>3, <1>5, <1>7, <2>1
<1>10. DOMAIN known = 1 .. n
  BY <1>7, <1>8, SeqFacts
<1>11. Languages!IsInjective(known)
  BY <1>4, <1>9, <1>10 DEF Languages!IsInjective
<1>12. n \in 1 .. MaxLanguages
  BY <1>1, <1>5, BoundsAssumption
<1>. QED  BY <1>2, <1>7, <1>8, <1>11, <1>12 DEF LanguagesInv, LanguagesOnce, Languages!LanguagesOnce

LEMMA LanguagesStep == LanguagesInv /\ [Next]_vars => LanguagesInv'
<1>. SUFFICES ASSUME LanguagesInv, [Next]_vars
              PROVE  LanguagesInv'
  OBVIOUS
<1>a. /\ known \in Seq(Codes) /\ switchedOff \in BOOLEAN
      /\ Len(known) \in 1 .. MaxLanguages
      /\ ~switchedOff => Languages!IsInjective(known)
  BY DEF LanguagesInv, LanguagesOnce, Languages!LanguagesOnce
<1>1. CASE UNCHANGED languageVars
  BY <1>a, <1>1 DEF LanguagesInv, LanguagesOnce, Languages!LanguagesOnce, languageVars
<1>2. ASSUME NEW code \in Codes, Languages!Toggle(code)
      PROVE  LanguagesInv'
  <2>1. /\ switchedOff' \in BOOLEAN
        /\ ~switchedOff' => ~switchedOff /\ ~Languages!On(code)
    BY <1>2, Zenon DEF Languages!Toggle
  <2>2. CASE Len(known) < MaxLanguages
    <3>1. known' = Append(known, code)
      BY <1>2, <2>2 DEF Languages!Toggle, Languages!Toggled
    <3>2. /\ known' \in Seq(Codes) /\ Len(known') = Len(known) + 1
          /\ DOMAIN known' = 1 .. Len(known) + 1
          /\ \A i \in 1 .. Len(known) : known'[i] = known[i]
          /\ known'[Len(known) + 1] = code
      BY <1>a, <3>1, AppendFacts
    <3>3. Len(known') \in 1 .. MaxLanguages
      BY <1>a, <2>2, <3>2, BoundsAssumption
    <3>4. ASSUME ~switchedOff'  PROVE Languages!IsInjective(known)'
      <4>1. DOMAIN known = 1 .. Len(known) /\ Len(known) \in Nat
        BY <1>a, SeqFacts
      <4>2. \A i \in 1 .. Len(known) : known[i] # code
        BY <2>1, <3>4, <4>1 DEF Languages!On, Languages!ToSet
      <4>3. \A i, j \in 1 .. Len(known) : known[i] = known[j] => i = j
        BY <1>a, <2>1, <3>4, <4>1 DEF Languages!IsInjective
      <4>. QED  BY <3>2, <4>1, <4>2, <4>3 DEF Languages!IsInjective
    <3>. QED  BY <2>1, <3>2, <3>3, <3>4
              DEF LanguagesInv, LanguagesOnce, Languages!LanguagesOnce
  <2>3. CASE ~(Len(known) < MaxLanguages)
    <3>1. known' = known
      BY <1>2, <2>3 DEF Languages!Toggle, Languages!Toggled
    <3>. QED  BY <1>a, <2>1, <3>1 DEF LanguagesInv, LanguagesOnce, Languages!LanguagesOnce
  <2>. QED  BY <2>2, <2>3
<1>. QED
  BY <1>1, <1>2 DEF Next, vars, LanguagesMove, Languages!Next,
                    SheetMoves, FiltersMove, LikedByMoves, DialogsMove, SyncMoves

(***************************************************************************)
(* A profile has a language and no more than the maximum, and each of them *)
(* once as long as no switch was turned off, for any languages and any     *)
(* maximum (page_profile_languages.dart:147-168).                          *)
(***************************************************************************)
THEOREM LanguagesAreOnce == Spec => []LanguagesOnce
<1>1. LanguagesInv => LanguagesOnce
  BY DEF LanguagesInv
<1>. QED  BY LanguagesInit, LanguagesStep, <1>1, PTL DEF Spec

-----------------------------------------------------------------------------
(* FilterPrefs *)

\* The last write, among those of s, of one end, if there is one.
LastOf(s, end, i) ==
    /\ i \in DOMAIN s /\ s[i].end = end
    /\ \A j \in DOMAIN s : j > i => s[j].end # end
NoneOf(s, end) == \A i \in DOMAIN s : s[i].end # end

\* FiltersKept says something only when nothing is under way.  While there
\* is, what is in memory, or still to come, of each end is known from its last
\* write; and a page that was never opened on half a range shows no such one.
Expected(s) ==
    /\ \A i \in DOMAIN s : LastOf(s, "min", i) =>
          s[i].age = prefs.min /\ (~torn => s[i].then = kept.max)
    /\ NoneOf(s, "min") => disk.min = prefs.min /\ (~torn => prefs.max = kept.max)
    /\ \A i \in DOMAIN s : LastOf(s, "max", i) => s[i].age = prefs.max
    /\ NoneOf(s, "max") => disk.max = prefs.max

FilterInv ==
    /\ Filters!TypeOK
    /\ Expected(writes)
    /\ ~torn => prefs.min = kept.min
    /\ ~early => /\ Filters!Ordered(kept)
                 /\ shown # NoPage => Filters!Ordered(shown)

LEMMA FilterInit == Init => FilterInv
<1>. SUFFICES ASSUME Filters!Init
              PROVE  FilterInv
  BY DEF Init
<1>1. /\ prefs \in Filters!Ranges /\ Filters!Ordered(prefs) /\ disk = prefs /\ kept = prefs
      /\ writes = << >> /\ shown = NoPage
  BY DEF Filters!Init
<1>2. torn \in BOOLEAN /\ early \in BOOLEAN
  BY Zenon DEF Filters!Init
<1>3. MaxWrites \in Nat
  BY BoundsAssumption
<1>. QED  BY <1>1, <1>2, <1>3 DEF FilterInv, Filters!TypeOK, Expected, NoneOf, LastOf

\* A write is appended: it is the last of its end, and changes no other's.
LEMMA LastAppended ==
    ASSUME NEW s \in Seq(Filters!Writes), NEW w \in Filters!Writes
    PROVE  /\ ~NoneOf(Append(s, w), w.end)
           /\ \A i \in DOMAIN Append(s, w) :
                 LastOf(Append(s, w), w.end, i) => Append(s, w)[i] = w
<1>1. /\ Len(s) \in Nat
      /\ DOMAIN Append(s, w) = 1 .. Len(s) + 1
      /\ Append(s, w)[Len(s) + 1] = w
  BY AppendFacts, SeqFacts
<1>. QED  BY <1>1 DEF NoneOf, LastOf

LEMMA OtherAppended ==
    ASSUME NEW s \in Seq(Filters!Writes), NEW w \in Filters!Writes,
           NEW end, end # w.end
    PROVE  /\ NoneOf(Append(s, w), end) => NoneOf(s, end)
           /\ \A i \in DOMAIN Append(s, w) : LastOf(Append(s, w), end, i) =>
                 i \in DOMAIN s /\ LastOf(s, end, i) /\ Append(s, w)[i] = s[i]
<1>1. /\ Len(s) \in Nat /\ DOMAIN s = 1 .. Len(s)
      /\ DOMAIN Append(s, w) = 1 .. Len(s) + 1
      /\ \A i \in 1 .. Len(s) : Append(s, w)[i] = s[i]
      /\ Append(s, w)[Len(s) + 1] = w
  BY AppendFacts, SeqFacts
<1>. QED  BY <1>1 DEF NoneOf, LastOf

\* The oldest write has gone.
LEMMA LastTailed ==
    ASSUME NEW s \in Seq(Filters!Writes), s # << >>
    PROVE  LET t == Tail(s) IN
           \A end :
              /\ NoneOf(t, end) => NoneOf(s, end) \/ LastOf(s, end, 1)
              /\ \A i \in DOMAIN t : LastOf(t, end, i) =>
                    /\ i + 1 \in DOMAIN s /\ LastOf(s, end, i + 1)
                    /\ t[i] = s[i + 1]
<1>. DEFINE t == Tail(s)
<1>1. /\ Len(s) \in Nat \ {0} /\ DOMAIN s = 1 .. Len(s)
      /\ DOMAIN t = 1 .. Len(s) - 1
      /\ \A i \in 1 .. Len(s) - 1 : t[i] = s[i + 1]
  BY TailFacts, SeqFacts
<1>. HIDE DEF t
<1>2. \A i \in DOMAIN s : i = 1 \/ (i - 1 \in DOMAIN t /\ t[i - 1] = s[i])
  <2>. SUFFICES ASSUME NEW i \in DOMAIN s, i # 1
                PROVE  i - 1 \in DOMAIN t /\ t[i - 1] = s[i]
    OBVIOUS
  <2>1. i - 1 \in 1 .. Len(s) - 1 /\ (i - 1) + 1 = i
    BY <1>1
  <2>. QED  BY <1>1, <2>1
<1>3. ASSUME NEW end, NoneOf(t, end)  PROVE NoneOf(s, end) \/ LastOf(s, end, 1)
  <2>1. \A i \in DOMAIN s : i # 1 => s[i].end # end
    BY <1>2, <1>3 DEF NoneOf
  <2>2. 1 \in DOMAIN s /\ \A i \in DOMAIN s : i > 1 => i # 1
    BY <1>1
  <2>3. CASE s[1].end = end
    BY <2>1, <2>2, <2>3 DEF LastOf
  <2>4. CASE s[1].end # end
    BY <2>1, <2>4 DEF NoneOf
  <2>. QED  BY <2>3, <2>4
<1>4. ASSUME NEW end, NEW i \in DOMAIN t, LastOf(t, end, i)
      PROVE  /\ i + 1 \in DOMAIN s /\ LastOf(s, end, i + 1)
             /\ t[i] = s[i + 1]
  <2>1. i + 1 \in DOMAIN s /\ t[i] = s[i + 1] /\ s[i + 1].end = end
    BY <1>1, <1>4 DEF LastOf
  <2>2. ASSUME NEW j \in DOMAIN s, j > i + 1  PROVE s[j].end # end
    <3>1. j - 1 \in DOMAIN t /\ t[j - 1] = s[j] /\ j - 1 > i
      BY <1>1, <1>2, <2>2
    <3>. QED  BY <1>4, <3>1 DEF LastOf
  <2>. QED  BY <2>1, <2>2 DEF LastOf
<1>. QED  BY <1>3, <1>4 DEF t

LEMMA FilterStep == FilterInv /\ [Next]_vars => FilterInv'
<1>. SUFFICES ASSUME FilterInv, [Next]_vars
              PROVE  FilterInv'
  OBVIOUS
<1>a. /\ {prefs, disk, kept} \subseteq Filters!Ranges
      /\ writes \in Seq(Filters!Writes) /\ Len(writes) <= MaxWrites
      /\ shown \in Filters!Ranges \cup {NoPage}
      /\ torn \in BOOLEAN /\ early \in BOOLEAN
  BY DEF FilterInv, Filters!TypeOK
<1>b. Ages \subseteq Nat /\ MaxWrites \in Nat
  BY BoundsAssumption
<1>1. CASE UNCHANGED filterVars
  BY <1>1 DEF FilterInv, Expected, Filters!TypeOK, filterVars
<1>2. CASE Filters!OpenFilters
  <2>1. /\ shown' = prefs /\ UNCHANGED <<prefs, disk, writes, kept, torn>>
        /\ shown = NoPage
    BY <1>2 DEF Filters!OpenFilters
  <2>2. /\ early' \in BOOLEAN
        /\ ~early' => ~early /\ Filters!Ordered(prefs)
    BY <1>2, Zenon DEF Filters!OpenFilters
  <2>3. shown' \in Filters!Ranges \cup {NoPage}
    BY <1>a, <2>1
  <2>. QED  BY <1>a, <2>1, <2>2, <2>3 DEF FilterInv, Expected, Filters!TypeOK, Filters!Ordered
<1>3. ASSUME NEW r \in Filters!Ranges, Filters!Move(r)
      PROVE  FilterInv'
  BY <1>3 DEF FilterInv, Expected, Filters!TypeOK, Filters!Ordered, Filters!Move
<1>4. CASE Filters!SaveFilters
  <2>. DEFINE w == [end |-> "min", age |-> shown.min, then |-> shown.max]
  <2>1. /\ shown \in Filters!Ranges /\ shown # NoPage /\ Len(writes) < MaxWrites
        /\ shown' = NoPage /\ kept' = shown /\ UNCHANGED <<disk, early>>
        /\ writes' = Append(writes, w)
    BY <1>4, <1>a DEF Filters!SaveFilters
  <2>2. torn' \in BOOLEAN /\ ~torn'
    BY <1>4, Zenon DEF Filters!SaveFilters
  <2>3. /\ prefs' = [prefs EXCEPT !.min = shown.min]
        /\ shown.min \in Ages /\ shown.max \in Ages
    BY <1>4, <2>1 DEF Filters!SaveFilters, Filters!Ranges
  <2>4. prefs' \in Filters!Ranges /\ prefs'.min = shown.min /\ prefs'.max = prefs.max
    BY <1>a, <2>3 DEF Filters!Ranges
  <2>5. w \in Filters!Writes /\ w.end = "min" /\ w.age = shown.min /\ w.then = shown.max
    BY <2>3 DEF Filters!Writes
  <2>. HIDE DEF w
  <2>6. /\ writes' \in Seq(Filters!Writes) /\ Len(writes') <= MaxWrites
    BY <1>a, <1>b, <2>1, <2>5, AppendFacts
  <2>7. /\ ~NoneOf(writes', "min")
        /\ \A i \in DOMAIN writes' : LastOf(writes', "min", i) => writes'[i] = w
        /\ NoneOf(writes', "max") => NoneOf(writes, "max")
        /\ \A i \in DOMAIN writes' : LastOf(writes', "max", i) =>
              i \in DOMAIN writes /\ LastOf(writes, "max", i) /\ writes'[i] = writes[i]
    <3>a. writes \in Seq(Filters!Writes) /\ w \in Filters!Writes /\ writes' = Append(writes, w)
      BY <1>a, <2>1, <2>5
    <3>1. "max" # w.end
      BY <2>5
    <3>2. /\ NoneOf(writes', "max") => NoneOf(writes, "max")
          /\ \A i \in DOMAIN writes' : LastOf(writes', "max", i) =>
                i \in DOMAIN writes /\ LastOf(writes, "max", i) /\ writes'[i] = writes[i]
      BY <3>a, <3>1, OtherAppended
    <3>3. /\ ~NoneOf(writes', w.end)
          /\ \A i \in DOMAIN writes' : LastOf(writes', w.end, i) => writes'[i] = w
      BY <3>a, LastAppended
    <3>. QED  BY <2>5, <3>1, <3>2, <3>3
  <2>8. Expected(writes)'
    BY <2>1, <2>4, <2>5, <2>7 DEF Expected, FilterInv
  <2>9. Filters!TypeOK'
    BY <1>a, <2>1, <2>2, <2>4, <2>6 DEF Filters!TypeOK
  <2>. QED  BY <2>1, <2>2, <2>4, <2>8, <2>9 DEF FilterInv, Filters!Ordered
<1>5. CASE Filters!Leave
  BY <1>5 DEF FilterInv, Expected, Filters!TypeOK, Filters!Ordered, Filters!Leave
<1>6. CASE Filters!Stored
  <2>. DEFINE w == Head(writes)
  <2>1. /\ writes # << >> /\ disk' = [disk EXCEPT ![w.end] = w.age]
        /\ UNCHANGED <<shown, kept, torn, early>>
    BY <1>6 DEF Filters!Stored
  <2>2. /\ w = writes[1] /\ w \in Filters!Writes /\ 1 \in DOMAIN writes
        /\ Tail(writes) \in Seq(Filters!Writes) /\ Len(Tail(writes)) < MaxWrites
        /\ Len(Tail(writes)) \in Nat
    <3>1. Len(writes) \in Nat \ {0} /\ DOMAIN writes = 1 .. Len(writes) /\ w = writes[1]
          /\ \A i \in DOMAIN writes : writes[i] \in Filters!Writes
      BY <1>a, <2>1, SeqFacts
    <3>2. Tail(writes) \in Seq(Filters!Writes) /\ Len(Tail(writes)) = Len(writes) - 1
      BY <1>a, <2>1, TailFacts
    <3>. QED  BY <1>a, <1>b, <3>1, <3>2
  <2>3. \A end :
          /\ NoneOf(Tail(writes), end) => NoneOf(writes, end) \/ LastOf(writes, end, 1)
          /\ \A i \in DOMAIN Tail(writes) : LastOf(Tail(writes), end, i) =>
                /\ i + 1 \in DOMAIN writes /\ LastOf(writes, end, i + 1)
                /\ Tail(writes)[i] = writes[i + 1]
    BY <1>a, <2>1, LastTailed
  <2>4. w.age \in Ages /\ w.then \in Ages /\ w.end \in {"min", "max"}
    BY <2>2 DEF Filters!Writes
  <2>5. CASE w.end = "min"
    <3>. DEFINE v == Filters!MaxOf(w)
                s == Tail(writes)
    <3>1. v.age = w.then /\ v.end = "max" /\ v \in Filters!Writes
      BY <2>4 DEF Filters!MaxOf, Filters!Writes
    <3>2. prefs' = [prefs EXCEPT !.max = v.age] /\ writes' = Append(s, v)
      BY <1>6, <2>5 DEF Filters!Stored
    <3>3. prefs' \in Filters!Ranges /\ prefs'.min = prefs.min /\ prefs'.max = w.then
      BY <1>a, <2>4, <3>1, <3>2 DEF Filters!Ranges
    <3>4. disk' \in Filters!Ranges /\ disk'.min = w.age
      BY <1>a, <2>1, <2>4, <2>5 DEF Filters!Ranges
    <3>. HIDE DEF v
    <3>5. /\ ~NoneOf(writes', "max")
          /\ \A i \in DOMAIN writes' : LastOf(writes', "max", i) => writes'[i] = v
          /\ NoneOf(writes', "min") => NoneOf(s, "min")
          /\ \A i \in DOMAIN writes' : LastOf(writes', "min", i) =>
                i \in DOMAIN s /\ LastOf(s, "min", i) /\ writes'[i] = s[i]
      <4>a. s \in Seq(Filters!Writes) /\ v \in Filters!Writes /\ writes' = Append(s, v)
        BY <2>2, <3>1, <3>2
      <4>. HIDE DEF s
      <4>1. "min" # v.end
        BY <3>1
      <4>2. /\ NoneOf(writes', "min") => NoneOf(s, "min")
            /\ \A i \in DOMAIN writes' : LastOf(writes', "min", i) =>
                  i \in DOMAIN s /\ LastOf(s, "min", i) /\ writes'[i] = s[i]
        BY <4>a, <4>1, OtherAppended
      <4>3. /\ ~NoneOf(writes', v.end)
            /\ \A i \in DOMAIN writes' : LastOf(writes', v.end, i) => writes'[i] = v
        BY <4>a, LastAppended
      <4>. QED  BY <3>1, <4>1, <4>2, <4>3
    <3>6. writes' \in Seq(Filters!Writes) /\ Len(writes') <= MaxWrites
      BY <1>b, <2>2, <3>1, <3>2, AppendFacts
    <3>7. NoneOf(writes', "min") => LastOf(writes, "min", 1)
      BY <2>2, <2>3, <2>5, <3>5 DEF NoneOf
    <3>8. \A i \in DOMAIN writes' : LastOf(writes', "min", i) =>
             writes'[i].age = prefs.min /\ (~torn => writes'[i].then = kept.max)
      BY <2>3, <3>5 DEF Expected, FilterInv
    <3>9. NoneOf(writes', "min") => w.age = prefs.min /\ (~torn => w.then = kept.max)
      BY <2>2, <3>7 DEF Expected, FilterInv
    <3>10. Expected(writes)'
      BY <2>1, <3>1, <3>3, <3>4, <3>5, <3>8, <3>9 DEF Expected
    <3>11. Filters!TypeOK'
      BY <1>a, <2>1, <3>3, <3>4, <3>6 DEF Filters!TypeOK
    <3>. QED  BY <2>1, <3>3, <3>10, <3>11 DEF FilterInv, Filters!Ordered
  <2>6. CASE w.end # "min"
    <3>1. writes' = Tail(writes) /\ prefs' = prefs /\ w.end = "max"
      BY <1>6, <2>4, <2>6 DEF Filters!Stored
    <3>2. disk' \in Filters!Ranges /\ disk'.max = w.age /\ disk'.min = disk.min
      BY <1>a, <2>1, <2>4, <3>1 DEF Filters!Ranges
    <3>3. NoneOf(writes', "min") => NoneOf(writes, "min")
      BY <2>2, <2>3, <3>1 DEF LastOf
    <3>4. NoneOf(writes', "max") => w.age = prefs.max
      <4>1. NoneOf(writes', "max") => LastOf(writes, "max", 1)
        BY <2>2, <2>3, <3>1 DEF NoneOf
      <4>. QED  BY <2>2, <4>1 DEF Expected, FilterInv
    <3>5. Expected(writes)'
      BY <2>1, <2>3, <3>1, <3>2, <3>3, <3>4 DEF Expected, FilterInv
    <3>6. Filters!TypeOK'
      BY <1>a, <1>b, <2>1, <2>2, <3>1, <3>2 DEF Filters!TypeOK
    <3>. QED  BY <2>1, <3>1, <3>5, <3>6 DEF FilterInv, Filters!Ordered
  <2>. QED  BY <2>5, <2>6
<1>7. CASE Filters!Kill
  <2>1. prefs' = disk /\ writes' = << >> /\ shown' = NoPage /\ UNCHANGED <<disk, kept, early>>
    BY <1>7 DEF Filters!Kill
  <2>2. torn' \in BOOLEAN /\ (~torn' => ~torn /\ writes = << >>)
    BY <1>7, Zenon DEF Filters!Kill
  <2>3. writes = << >> => NoneOf(writes, "min") /\ NoneOf(writes, "max")
    BY DEF NoneOf
  <2>4. writes' \in Seq(Filters!Writes) /\ Len(writes') <= MaxWrites
    BY <1>b, <2>1
  <2>5. Expected(writes)'
    BY <2>1, <2>2, <2>3 DEF Expected, FilterInv, LastOf
  <2>. QED  BY <1>a, <2>1, <2>2, <2>3, <2>4, <2>5 DEF FilterInv, Expected, Filters!TypeOK, Filters!Ordered
<1>. QED
  BY <1>1, <1>2, <1>3, <1>4, <1>5, <1>6, <1>7
     DEF Next, vars, FiltersMove, Filters!Next, Filters!InPage,
         SheetMoves, LanguagesMove, LikedByMoves, DialogsMove, SyncMoves

(***************************************************************************)
(* With no write under way the stored range is, both ends, the one saved   *)
(* last, unless the app ended in mid-save, and it is not upside down       *)
(* unless the page was opened on half a range: for any ages and any number *)
(* of overlapping saves (filters.dart:41-45).                              *)
(***************************************************************************)
THEOREM FiltersAreKept == Spec => []FiltersKept
<1>1. ASSUME FilterInv  PROVE FiltersKept
  <2>1. writes = << >> => NoneOf(writes, "min") /\ NoneOf(writes, "max")
    BY DEF NoneOf
  <2>2. writes = << >> => prefs.min = disk.min /\ prefs.max = disk.max
    BY <1>1, <2>1 DEF FilterInv, Expected
  <2>3. writes = << >> /\ ~torn => prefs.min = kept.min /\ prefs.max = kept.max
    BY <1>1, <2>1 DEF FilterInv, Expected
  <2>4. prefs \in Filters!Ranges /\ disk \in Filters!Ranges /\ kept \in Filters!Ranges
    BY <1>1 DEF FilterInv, Filters!TypeOK
  <2>5. \A r, q \in Filters!Ranges : r.min = q.min /\ r.max = q.max => r = q
    BY DEF Filters!Ranges
  <2>6. writes = << >> => prefs = disk
    BY <2>2, <2>4, <2>5
  <2>7. writes = << >> /\ ~torn => prefs = kept
    BY <2>3, <2>4, <2>5
  <2>. QED  BY <1>1, <2>6, <2>7 DEF FilterInv, FiltersKept, Filters!FiltersKept
<1>. QED  BY FilterInit, FilterStep, <1>1, PTL DEF Spec

-----------------------------------------------------------------------------
(* HomeDialogs *)

NoAnswer(s) == \A i \in DOMAIN s : s[i].kind # "answer"
OneAnswer(s) == \E i \in DOMAIN s :
    /\ s[i].kind = "answer"
    /\ \A j \in DOMAIN s : s[j].kind = "answer" => j = i
\* A message on its way will have Home shown without its dialog: the last
\* answer, or an event, which has the listener ask again.
GoodNews(s) == \E i \in DOMAIN s :
    /\ s[i].online
    /\ s[i].kind = "event" \/ \A j \in DOMAIN s : j > i => s[j].kind # "answer"

DialogsTyped ==
    /\ online \in BOOLEAN /\ connection \in BOOLEAN /\ streaming \in BOOLEAN
    /\ listening \in BOOLEAN /\ location \in BOOLEAN /\ timing \in BOOLEAN
    /\ missed \in BOOLEAN /\ failedAgain \in BOOLEAN
    /\ place \in {"denied", "blind", "seen"}
    /\ checks \in Nat /\ checks <= MaxPending
    /\ inbox \in Seq(Dialogs!Messages) /\ Len(inbox) <= MaxPending
    /\ statuses \in Nat /\ strays \in Nat /\ statuses + strays <= MaxPending
    /\ asked \in Nat /\ asked <= MaxPending
    /\ listening => streaming
    /\ timing => location

\* Until a widget of this Home listens there is one answer to come, or it has
\* come and shown the dialog.
Waited ==
    \/ checks = 1 /\ NoAnswer(inbox) /\ ~connection
    \/ checks = 0 /\ OneAnswer(inbox) /\ ~connection
    \/ checks = 0 /\ NoAnswer(inbox)

\* From then on a phone that is online is about to be told so.
Told ==
    \/ checks > 0
    \/ GoodNews(inbox)
    \/ NoAnswer(inbox) /\ (connection => missed)

DialogsInv ==
    /\ DialogsTyped
    /\ location => timing \/ failedAgain \/ asked > 0
    /\ ~listening => Waited
    /\ listening /\ online => Told

LEMMA NewsAppended ==
    ASSUME NEW s \in Seq(Dialogs!Messages), NEW m \in Dialogs!Messages
    PROVE  /\ Append(s, m) \in Seq(Dialogs!Messages)
           /\ Len(Append(s, m)) = Len(s) + 1 /\ Len(s) \in Nat
           /\ m.online => GoodNews(Append(s, m))
           /\ m.kind = "event" /\ NoAnswer(s) => NoAnswer(Append(s, m))
           /\ m.kind = "event" /\ OneAnswer(s) => OneAnswer(Append(s, m))
           /\ m.kind = "answer" /\ NoAnswer(s) => OneAnswer(Append(s, m))
<1>. DEFINE t == Append(s, m)
<1>1. /\ Len(s) \in Nat /\ DOMAIN s = 1 .. Len(s)
      /\ t \in Seq(Dialogs!Messages) /\ Len(t) = Len(s) + 1
      /\ DOMAIN t = 1 .. Len(s) + 1
      /\ \A i \in 1 .. Len(s) : t[i] = s[i]
      /\ t[Len(s) + 1] = m
  BY AppendFacts, SeqFacts
<1>. HIDE DEF t
<1>2. m.online => GoodNews(t)
  BY <1>1 DEF GoodNews
<1>3. m.kind = "event" /\ NoAnswer(s) => NoAnswer(t)
  BY <1>1 DEF NoAnswer
<1>4. ASSUME m.kind = "event", OneAnswer(s)  PROVE OneAnswer(t)
  <2>1. PICK i \in DOMAIN s : s[i].kind = "answer" /\ \A j \in DOMAIN s : s[j].kind = "answer" => j = i
    BY <1>4 DEF OneAnswer
  <2>2. i \in DOMAIN t /\ t[i] = s[i]
    BY <1>1
  <2>3. \A j \in DOMAIN t : j \in DOMAIN s \/ t[j] = m
    BY <1>1
  <2>4. \A j \in DOMAIN t : t[j].kind = "answer" => j = i
    BY <1>1, <1>4, <2>1, <2>3
  <2>. QED  BY <2>1, <2>2, <2>4 DEF OneAnswer
<1>5. m.kind = "answer" /\ NoAnswer(s) => OneAnswer(t)
  BY <1>1 DEF OneAnswer, NoAnswer
<1>. QED  BY <1>1, <1>2, <1>3, <1>4, <1>5 DEF t

LEMMA NewsTailed ==
    ASSUME NEW s \in Seq(Dialogs!Messages), s # << >>
    PROVE  /\ Head(s) \in Dialogs!Messages /\ Tail(s) \in Seq(Dialogs!Messages)
           /\ Len(Tail(s)) = Len(s) - 1 /\ Len(s) \in Nat
           /\ NoAnswer(s) => NoAnswer(Tail(s)) /\ Head(s).kind # "answer"
           /\ OneAnswer(s) => IF Head(s).kind = "answer" THEN NoAnswer(Tail(s))
                                                         ELSE OneAnswer(Tail(s))
           /\ GoodNews(s) => \/ GoodNews(Tail(s))
                             \/ /\ Head(s).online
                                /\ Head(s).kind = "event" \/ NoAnswer(Tail(s))
<1>. DEFINE t == Tail(s)
            m == Head(s)
<1>1. /\ Len(s) \in Nat \ {0} /\ DOMAIN s = 1 .. Len(s)
      /\ t \in Seq(Dialogs!Messages) /\ Len(t) = Len(s) - 1
      /\ DOMAIN t = 1 .. Len(s) - 1
      /\ \A i \in 1 .. Len(s) - 1 : t[i] = s[i + 1]
      /\ m = s[1] /\ m \in Dialogs!Messages
  BY TailFacts, SeqFacts
<1>. HIDE DEF t, m
<1>2. \A i \in DOMAIN s : i = 1 \/ (i - 1 \in DOMAIN t /\ t[i - 1] = s[i])
  <2>. SUFFICES ASSUME NEW i \in DOMAIN s, i # 1
                PROVE  i - 1 \in DOMAIN t /\ t[i - 1] = s[i]
    OBVIOUS
  <2>1. i - 1 \in 1 .. Len(s) - 1 /\ (i - 1) + 1 = i
    BY <1>1
  <2>. QED  BY <1>1, <2>1
<1>3. \A i \in DOMAIN t : i + 1 \in DOMAIN s /\ i + 1 # 1 /\ t[i] = s[i + 1]
  BY <1>1
<1>a. 1 \in DOMAIN s
  BY <1>1
<1>4. NoAnswer(s) => NoAnswer(t) /\ m.kind # "answer"
  BY <1>1, <1>3, <1>a DEF NoAnswer
<1>5. ASSUME OneAnswer(s), m.kind = "answer"  PROVE NoAnswer(t)
  <2>1. PICK i \in DOMAIN s : s[i].kind = "answer" /\ \A j \in DOMAIN s : s[j].kind = "answer" => j = i
    BY <1>5 DEF OneAnswer
  <2>2. i = 1
    BY <1>1, <1>5, <1>a, <2>1
  <2>. QED  BY <1>3, <2>1, <2>2 DEF NoAnswer
<1>6. ASSUME OneAnswer(s), m.kind # "answer"  PROVE OneAnswer(t)
  <2>1. PICK i \in DOMAIN s : s[i].kind = "answer" /\ \A j \in DOMAIN s : s[j].kind = "answer" => j = i
    BY <1>6 DEF OneAnswer
  <2>2. i - 1 \in DOMAIN t /\ t[i - 1] = s[i]
    BY <1>1, <1>2, <1>6, <2>1
  <2>3. ASSUME NEW j \in DOMAIN t, t[j].kind = "answer"  PROVE j = i - 1
    <3>1. j + 1 = i
      BY <1>3, <2>1, <2>3
    <3>. QED  BY <1>1, <2>3, <3>1
  <2>. QED  BY <2>1, <2>2, <2>3 DEF OneAnswer
<1>7. ASSUME GoodNews(s)
      PROVE  GoodNews(t) \/ (m.online /\ (m.kind = "event" \/ NoAnswer(t)))
  <2>1. PICK i \in DOMAIN s :
           /\ s[i].online
           /\ s[i].kind = "event" \/ \A j \in DOMAIN s : j > i => s[j].kind # "answer"
    BY <1>7 DEF GoodNews
  <2>2. CASE i = 1
    <3>1. \A j \in DOMAIN t : j + 1 > 1
      BY <1>1
    <3>. QED  BY <1>1, <1>3, <2>1, <2>2, <3>1 DEF NoAnswer
  <2>3. CASE i # 1
    <3>1. i - 1 \in DOMAIN t /\ t[i - 1] = s[i]
      BY <1>2, <2>3
    <3>2. \A j \in DOMAIN t : j > i - 1 => j + 1 > i
      BY <1>1
    <3>. QED  BY <1>3, <2>1, <3>1, <3>2 DEF GoodNews
  <2>. QED  BY <2>2, <2>3
<1>. QED  BY <1>1, <1>4, <1>5, <1>6, <1>7 DEF t, m

LEMMA DialogsInit == Init => DialogsInv
<1>. SUFFICES ASSUME Dialogs!Init
              PROVE  DialogsInv
  BY DEF Init
<1>1. /\ online \in BOOLEAN /\ place \in {"denied", "blind", "seen"}
      /\ checks = 1 /\ inbox = << >> /\ statuses = 0 /\ strays = 0 /\ asked = 1
  BY DEF Dialogs!Init
<1>2. /\ connection \in BOOLEAN /\ streaming \in BOOLEAN /\ listening \in BOOLEAN
      /\ location \in BOOLEAN /\ timing \in BOOLEAN /\ missed \in BOOLEAN
      /\ failedAgain \in BOOLEAN
      /\ ~connection /\ ~listening /\ ~location /\ ~timing
  BY Zenon DEF Dialogs!Init
<1>3. MaxPending \in Nat \ {0}
  BY BoundsAssumption
<1>4. NoAnswer(inbox)
  BY <1>1 DEF NoAnswer
<1>. QED  BY <1>1, <1>2, <1>3, <1>4 DEF DialogsInv, DialogsTyped, Waited

\* The steps of the two parts of Home's dialogs.
LEMMA DialogsRestart == DialogsInv /\ Dialogs!Restart => DialogsInv'
<1>. SUFFICES ASSUME DialogsInv, Dialogs!Restart
              PROVE  DialogsInv'
  OBVIOUS
<1>1. /\ online' = online /\ place' = place
      /\ checks' = 1 /\ inbox' = << >> /\ statuses' = 0 /\ strays' = 0 /\ asked' = 1
  BY DEF Dialogs!Restart, Dialogs!Start
<1>2. /\ connection' \in BOOLEAN /\ listening' \in BOOLEAN
      /\ location' \in BOOLEAN /\ timing' \in BOOLEAN /\ missed' \in BOOLEAN
      /\ failedAgain' \in BOOLEAN
      /\ ~connection' /\ ~listening' /\ ~location' /\ ~timing'
  BY Zenon DEF Dialogs!Restart, Dialogs!Start
<1>3. streaming' \in BOOLEAN
  BY Zenon DEF Dialogs!Restart, DialogsInv, DialogsTyped
<1>4. MaxPending \in Nat \ {0}
  BY BoundsAssumption
<1>5. NoAnswer(inbox')
  BY <1>1 DEF NoAnswer
<1>. QED  BY <1>1, <1>2, <1>3, <1>4, <1>5 DEF DialogsInv, DialogsTyped, Waited

LEMMA ConnectionStep ==
    DialogsInv /\ (Dialogs!Network \/ Dialogs!Check \/ Dialogs!Deliver \/ Dialogs!ListenTick)
    => DialogsInv'
<1>. SUFFICES ASSUME DialogsInv, \/ Dialogs!Network \/ Dialogs!Check
                                 \/ Dialogs!Deliver \/ Dialogs!ListenTick
              PROVE  DialogsInv'
  OBVIOUS
<1>a. DialogsTyped /\ MaxPending \in Nat \ {0}
  BY BoundsAssumption DEF DialogsInv
<1>b. UNCHANGED <<place, location, timing, statuses, strays, asked, failedAgain>>
  BY DEF Dialogs!Network, Dialogs!Check, Dialogs!Deliver, Dialogs!ListenTick,
         Dialogs!locationVars
<1>. DEFINE Typed ==
       /\ online' \in BOOLEAN /\ connection' \in BOOLEAN /\ streaming' \in BOOLEAN
       /\ listening' \in BOOLEAN /\ missed' \in BOOLEAN
       /\ checks' \in Nat /\ checks' <= MaxPending
       /\ inbox' \in Seq(Dialogs!Messages) /\ Len(inbox') <= MaxPending
       /\ listening' => streaming'
<1>c. ASSUME Typed, ~listening' => Waited', listening' /\ online' => Told'
      PROVE  DialogsInv'
  BY <1>a, <1>b, <1>c DEF DialogsInv, DialogsTyped
<1>d. \A k \in {"answer", "event"}, on \in BOOLEAN :
         /\ [kind |-> k, online |-> on] \in Dialogs!Messages
         /\ [kind |-> k, online |-> on].kind = k
         /\ [kind |-> k, online |-> on].online = on
  BY DEF Dialogs!Messages
<1>1. CASE Dialogs!Network
  <2>1. /\ online' \in BOOLEAN
        /\ UNCHANGED <<connection, streaming, listening, checks, missed>>
    BY <1>1, Zenon DEF Dialogs!Network
  <2>2. CASE streaming
    <3>. DEFINE m == [kind |-> "event", online |-> online']
    <3>1. Len(inbox) < MaxPending /\ inbox' = Append(inbox, m)
      BY <1>1, <2>2 DEF Dialogs!Network, Dialogs!Send
    <3>2. m \in Dialogs!Messages /\ m.kind = "event" /\ m.online = online'
      BY <1>d, <2>1
    <3>. HIDE DEF m
    <3>3. /\ inbox' \in Seq(Dialogs!Messages) /\ Len(inbox') = Len(inbox) + 1
          /\ Len(inbox) \in Nat
          /\ m.online => GoodNews(inbox')
          /\ NoAnswer(inbox) => NoAnswer(inbox')
          /\ OneAnswer(inbox) => OneAnswer(inbox')
      BY <1>a, <3>1, <3>2, NewsAppended DEF DialogsTyped
    <3>4. online' => GoodNews(inbox')
      BY <3>2, <3>3
    <3>5. Typed
      BY <1>a, <2>1, <3>1, <3>3 DEF DialogsTyped
    <3>. HIDE DEF Typed
    <3>6. ~listening' => Waited'
      BY <2>1, <3>3 DEF DialogsInv, Waited
    <3>7. listening' /\ online' => Told'
      BY <3>4 DEF Told
    <3>. QED  BY <1>c, <3>5, <3>6, <3>7
  <2>3. CASE ~streaming
    <3>1. inbox' = inbox
      BY <1>1, <2>3 DEF Dialogs!Network
    <3>2. ~listening'
      BY <1>a, <2>1, <2>3 DEF DialogsTyped
    <3>3. Typed
      BY <1>a, <2>1, <3>1 DEF DialogsTyped
    <3>. HIDE DEF Typed
    <3>4. Waited'
      BY <2>1, <3>1, <3>2 DEF DialogsInv, Waited
    <3>. QED  BY <1>c, <3>2, <3>3, <3>4
  <2>. QED  BY <2>2, <2>3
<1>2. CASE Dialogs!Check
  <2>. DEFINE m == [kind |-> "answer", online |-> online]
  <2>1. /\ checks > 0 /\ Len(inbox) < MaxPending /\ checks' = checks - 1
        /\ inbox' = Append(inbox, m)
        /\ UNCHANGED <<online, connection, streaming, listening, missed>>
    BY <1>2 DEF Dialogs!Check, Dialogs!Send
  <2>2. m \in Dialogs!Messages /\ m.kind = "answer" /\ m.online = online
    BY <1>a, <1>d DEF DialogsTyped
  <2>. HIDE DEF m
  <2>3. /\ inbox' \in Seq(Dialogs!Messages) /\ Len(inbox') = Len(inbox) + 1
        /\ Len(inbox) \in Nat
        /\ m.online => GoodNews(inbox')
        /\ NoAnswer(inbox) => OneAnswer(inbox')
    BY <1>a, <2>1, <2>2, NewsAppended DEF DialogsTyped
  <2>4. Typed
    BY <1>a, <2>1, <2>3 DEF DialogsTyped
  <2>. HIDE DEF Typed
  <2>5. ~listening' => Waited'
    BY <1>a, <2>1, <2>3 DEF DialogsInv, DialogsTyped, Waited
  <2>6. listening' /\ online' => Told'
    BY <2>1, <2>2, <2>3 DEF Told
  <2>. QED  BY <1>c, <2>4, <2>5, <2>6
<1>3. CASE Dialogs!Deliver
  <2>. DEFINE m == Head(inbox)
              s == Tail(inbox)
  <2>1. /\ inbox # << >> /\ inbox' = s
        /\ UNCHANGED <<online, streaming, listening>>
    BY <1>3 DEF Dialogs!Deliver
  <2>2. /\ m \in Dialogs!Messages /\ s \in Seq(Dialogs!Messages)
        /\ Len(s) = Len(inbox) - 1 /\ Len(inbox) \in Nat
        /\ NoAnswer(inbox) => NoAnswer(s) /\ m.kind # "answer"
        /\ OneAnswer(inbox) => IF m.kind = "answer" THEN NoAnswer(s) ELSE OneAnswer(s)
        /\ GoodNews(inbox) => GoodNews(s) \/ (m.online /\ (m.kind = "event" \/ NoAnswer(s)))
    BY <1>a, <2>1, NewsTailed DEF DialogsTyped
  <2>3. m.online \in BOOLEAN
    BY <2>2 DEF Dialogs!Messages
  <2>4. CASE m.kind = "answer"
    <3>1. /\ connection' \in BOOLEAN /\ missed' \in BOOLEAN /\ checks' = checks
          /\ m.online => ~connection'
      <4>1. /\ connection' = ~m.online /\ missed' = (missed /\ connection') /\ checks' = checks
        BY <1>3, <2>4 DEF Dialogs!Deliver
      <4>. HIDE DEF m
      <4>. QED  BY <4>1, Zenon
    <3>2. Typed
      BY <1>a, <2>1, <2>2, <3>1 DEF DialogsTyped
    <3>3. ~listening' => Waited'
      <4>1. ASSUME ~listening  PROVE NoAnswer(s) /\ checks = 0
        BY <1>a, <2>2, <2>4, <4>1 DEF DialogsInv, Waited
      <4>. QED  BY <2>1, <3>1, <4>1 DEF Waited
    <3>4. listening' /\ online' => Told'
      <4>1. ASSUME Told  PROVE Told'
        <5>1. checks > 0 \/ GoodNews(inbox)
          BY <2>2, <2>4, <4>1 DEF Told
        <5>2. checks > 0 \/ GoodNews(s) \/ (m.online /\ NoAnswer(s))
          BY <2>2, <2>4, <5>1
        <5>. QED  BY <2>1, <3>1, <5>2 DEF Told
      <4>. QED  BY <2>1, <4>1 DEF DialogsInv
    <3>. HIDE DEF Typed
    <3>. QED  BY <1>c, <3>2, <3>3, <3>4
  <2>5. CASE m.kind = "event"
    <3>1. /\ connection' = connection /\ missed' = missed
          /\ checks' \in Nat /\ checks' <= MaxPending
          /\ listening /\ m.online => checks' > 0
          /\ checks > 0 => checks' > 0
          /\ ~listening => checks' = checks
      BY <1>3, <1>a, <2>5 DEF Dialogs!Deliver, Dialogs!Heard, DialogsTyped
    <3>2. Typed
      BY <1>a, <2>1, <2>2, <3>1 DEF DialogsTyped
    <3>3. ~listening' => Waited'
      BY <2>1, <2>2, <2>5, <3>1 DEF DialogsInv, Waited
    <3>4. ASSUME listening', online'  PROVE Told'
      <4>1. listening /\ Told
        BY <2>1, <3>4 DEF DialogsInv
      <4>2. checks' > 0 \/ GoodNews(s) \/ (NoAnswer(s) /\ (connection => missed))
        BY <2>2, <2>5, <3>1, <4>1 DEF Told
      <4>. QED  BY <2>1, <3>1, <4>2 DEF Told
    <3>. HIDE DEF Typed
    <3>. QED  BY <1>c, <3>2, <3>3, <3>4
  <2>. QED  BY <2>2, <2>4, <2>5 DEF Dialogs!Messages
<1>4. CASE Dialogs!ListenTick
  <2>1. /\ connection /\ ~listening
        /\ UNCHANGED <<online, connection, checks>>
    BY <1>4 DEF Dialogs!ListenTick
  <2>2. listening' \in BOOLEAN /\ streaming' \in BOOLEAN /\ listening' /\ streaming'
    BY <1>4, Zenon DEF Dialogs!ListenTick
  <2>3. checks = 0 /\ NoAnswer(inbox)
    BY <2>1 DEF DialogsInv, Waited
  <2>. DEFINE m == [kind |-> "event", online |-> online]
  <2>4. ASSUME Len(inbox) < MaxPending, inbox' = Append(inbox, m), missed' = missed
        PROVE  DialogsInv'
    <3>1. m \in Dialogs!Messages /\ m.online = online
      BY <1>a, <1>d DEF DialogsTyped
    <3>. HIDE DEF m
    <3>2. /\ inbox' \in Seq(Dialogs!Messages) /\ Len(inbox') = Len(inbox) + 1
          /\ Len(inbox) \in Nat
          /\ m.online => GoodNews(inbox')
      BY <1>a, <2>4, <3>1, NewsAppended DEF DialogsTyped
    <3>3. Typed
      BY <1>a, <2>1, <2>2, <2>4, <3>2 DEF DialogsTyped
    <3>. HIDE DEF Typed
    <3>4. online' => Told'
      BY <2>1, <3>1, <3>2 DEF Told
    <3>. QED  BY <1>c, <2>2, <3>3, <3>4
  <2>5. ASSUME inbox' = inbox, missed' = online
        PROVE  DialogsInv'
    <3>1. Typed
      BY <1>a, <2>1, <2>2, <2>5 DEF DialogsTyped
    <3>2. online' => Told'
      BY <2>1, <2>3, <2>5 DEF Told
    <3>. HIDE DEF Typed
    <3>. QED  BY <1>c, <2>2, <3>1, <3>2
  <2>6. \/ Len(inbox) < MaxPending /\ inbox' = Append(inbox, m) /\ missed' = missed
        \/ inbox' = inbox /\ missed' = online
    BY <1>4 DEF Dialogs!ListenTick, Dialogs!Send
  <2>. QED  BY <2>4, <2>5, <2>6
<1>. QED  BY <1>1, <1>2, <1>3, <1>4

LEMMA LocationStep ==
    DialogsInv /\ ( \/ Dialogs!Place \/ Dialogs!StatusTick \/ Dialogs!StatusAnswer
                    \/ Dialogs!StrayAnswer \/ Dialogs!LocationFound
                    \/ Dialogs!LocationFails \/ Dialogs!LocationUnknown )
    => DialogsInv'
<1>. SUFFICES ASSUME DialogsInv,
                     \/ Dialogs!Place \/ Dialogs!StatusTick \/ Dialogs!StatusAnswer
                     \/ Dialogs!StrayAnswer \/ Dialogs!LocationFound
                     \/ Dialogs!LocationFails \/ Dialogs!LocationUnknown
              PROVE  DialogsInv'
  OBVIOUS
<1>a. DialogsTyped /\ (location => timing \/ failedAgain \/ asked > 0)
  BY DEF DialogsInv
<1>b. UNCHANGED <<online, connection, streaming, listening, checks, inbox, missed>>
  BY DEF Dialogs!Place, Dialogs!StatusTick, Dialogs!StatusAnswer, Dialogs!StrayAnswer,
         Dialogs!LocationFound, Dialogs!LocationFails, Dialogs!LocationUnknown,
         Dialogs!connectionVars
<1>. DEFINE Typed ==
       /\ location' \in BOOLEAN /\ timing' \in BOOLEAN /\ failedAgain' \in BOOLEAN
       /\ place' \in {"denied", "blind", "seen"}
       /\ statuses' \in Nat /\ strays' \in Nat /\ statuses' + strays' <= MaxPending
       /\ asked' \in Nat /\ asked' <= MaxPending
       /\ timing' => location'
       /\ location' => timing' \/ failedAgain' \/ asked' > 0
<1>c. ASSUME Typed  PROVE DialogsInv'
  <2>1. DialogsTyped'
    BY <1>a, <1>b, <1>c DEF DialogsTyped
  <2>2. Waited = Waited' /\ Told = Told'
    BY <1>b DEF Waited, Told
  <2>. QED  BY <1>b, <1>c, <2>1, <2>2 DEF DialogsInv
<1>d. MaxPending \in Nat
  BY BoundsAssumption
<1>e. Dialogs!Granted => /\ asked' \in Nat /\ asked' <= MaxPending /\ asked' >= asked
                         /\ place # "denied" => asked' > 0
  BY <1>a, <1>d DEF Dialogs!Granted, DialogsTyped
<1>1. CASE Dialogs!Place
  <2>1. Typed
    BY <1>1, <1>a DEF Dialogs!Place, Dialogs!locationVars, DialogsTyped
  <2>. QED  BY <1>c, <2>1
<1>2. CASE Dialogs!StatusTick
  <2>1. Typed
    BY <1>2, <1>a, <1>d DEF Dialogs!StatusTick, DialogsTyped
  <2>. QED  BY <1>c, <2>1
<1>3. CASE Dialogs!StatusAnswer
  <2>1. /\ statuses > 0 /\ statuses' = statuses - 1
        /\ UNCHANGED <<place, location, strays, failedAgain>> /\ Dialogs!Granted
    BY <1>3 DEF Dialogs!StatusAnswer
  <2>2. /\ timing' \in BOOLEAN /\ (timing' => timing)
        /\ place = "denied" => timing' = timing
    BY <1>3, <1>a, Zenon DEF Dialogs!StatusAnswer, DialogsTyped
  <2>3. Typed
    BY <1>a, <1>d, <1>e, <2>1, <2>2 DEF DialogsTyped
  <2>. QED  BY <1>c, <2>3
<1>4. CASE Dialogs!StrayAnswer
  <2>1. /\ strays > 0 /\ strays' = strays - 1 /\ Dialogs!Granted
        /\ UNCHANGED <<place, location, timing, statuses, failedAgain>>
    BY <1>4 DEF Dialogs!StrayAnswer
  <2>2. Typed
    BY <1>a, <1>d, <1>e, <2>1 DEF DialogsTyped
  <2>. QED  BY <1>c, <2>2
<1>5. CASE Dialogs!LocationFound
  <2>1. /\ asked > 0 /\ asked' = asked - 1 /\ place' = place
        /\ statuses' = 0 /\ strays' = strays + statuses
    BY <1>5 DEF Dialogs!LocationFound
  <2>2. /\ location' \in BOOLEAN /\ timing' \in BOOLEAN /\ failedAgain' \in BOOLEAN
        /\ ~location' /\ ~timing'
    BY <1>5, Zenon DEF Dialogs!LocationFound
  <2>3. Typed
    BY <1>a, <1>d, <2>1, <2>2 DEF DialogsTyped
  <2>. QED  BY <1>c, <2>3
<1>6. CASE Dialogs!LocationFails
  <2>1. /\ asked > 0 /\ asked' = asked - 1
        /\ UNCHANGED <<place, statuses, strays>>
    BY <1>6 DEF Dialogs!LocationFails
  <2>2. /\ location' \in BOOLEAN /\ timing' \in BOOLEAN /\ failedAgain' \in BOOLEAN
        /\ location' /\ (timing' \/ failedAgain')
    BY <1>6, <1>a, Zenon DEF Dialogs!LocationFails, Dialogs!Failed, DialogsTyped
  <2>3. Typed
    BY <1>a, <1>d, <2>1, <2>2 DEF DialogsTyped
  <2>. QED  BY <1>c, <2>3
<1>7. CASE Dialogs!LocationUnknown
  <2>1. /\ asked > 0 /\ asked' = asked - 1
        /\ UNCHANGED <<place, location, timing, statuses, strays>>
    BY <1>7 DEF Dialogs!LocationUnknown
  <2>2. failedAgain' \in BOOLEAN /\ (location => timing \/ failedAgain')
    BY <1>7, <1>a, Zenon DEF Dialogs!LocationUnknown, DialogsTyped
  <2>3. Typed
    BY <1>a, <1>d, <2>1, <2>2 DEF DialogsTyped
  <2>. QED  BY <1>c, <2>3
<1>. QED  BY <1>1, <1>2, <1>3, <1>4, <1>5, <1>6, <1>7

LEMMA DialogsStep == DialogsInv /\ [Next]_vars => DialogsInv'
<1>. SUFFICES ASSUME DialogsInv, [Next]_vars
              PROVE  DialogsInv'
  OBVIOUS
<1>1. CASE UNCHANGED dialogVars
  BY <1>1 DEF dialogVars, DialogsInv, DialogsTyped, Waited, Told
<1>2. CASE Dialogs!Next
  BY <1>2, DialogsRestart, ConnectionStep, LocationStep DEF Dialogs!Next, Dialogs!AtHome
<1>. QED
  BY <1>1, <1>2 DEF Next, vars, DialogsMove,
                    SheetMoves, LanguagesMove, FiltersMove, LikedByMoves, SyncMoves

(***************************************************************************)
(* A dialog over Home that should go is about to be looked at again,       *)
(* unless the widget of the connection listened too late or the retry of   *)
(* the location's failed: for any number of answers and events on their    *)
(* way (widget_no_connection.dart:21-35, widget_geolocation.dart:24-27).   *)
(***************************************************************************)
THEOREM DialogsAreExplained == Spec => []DialogsExplained
<1>1. ASSUME DialogsInv  PROVE DialogsExplained
  <2>1. /\ statuses \in Nat /\ strays \in Nat /\ asked \in Nat /\ checks \in Nat
        /\ location => timing \/ failedAgain \/ asked > 0
        /\ listening /\ online => Told
    BY <1>1 DEF DialogsInv, DialogsTyped
  <2>2. location /\ statuses + strays + asked = 0 => timing \/ failedAgain
    BY <2>1
  <2>3. inbox = << >> => ~GoodNews(inbox)
    BY DEF GoodNews
  <2>4. connection /\ online /\ checks = 0 /\ inbox = << >> => ~listening \/ missed
    BY <2>1, <2>3 DEF Told
  <2>. QED  BY <2>2, <2>4 DEF DialogsExplained, Dialogs!DialogsExplained
<1>. QED  BY DialogsInit, DialogsStep, <1>1, PTL DEF Spec

-----------------------------------------------------------------------------
(* ProfileSync *)

SyncTyped ==
    /\ doc \in Sync!Profiles
    /\ queue \in [Devices -> Seq(Sync!Profiles)]
    /\ model \in [Devices -> Sync!Profiles \cup {NoModel}]
    /\ filtering \in [Devices -> BOOLEAN]
    /\ saves \in Nat /\ saves <= MaxSaves
    /\ edited \in [Devices -> SUBSET Sync!Fields]
    /\ wanted \in Sync!Profiles
    /\ fresh \in [Devices -> BOOLEAN]
    /\ conflict \in BOOLEAN

\* Nobody else's save is on its way to the server of a device that is fresh.
FreshAlone == \A d \in Devices : fresh[d] => model[d] \in Sync!Profiles /\ Sync!OthersIdle(d)

\* The document p holds what was saved last, or has lost it by not reading it.
Saved(p) == \A f \in Sync!Fields :
    \/ p[f] = wanted[f]
    \/ f \in Unread /\ p[f] = Null

\* SavedEditsKept says something only when everything is delivered; until then,
\* without a conflict, the saves under way are of one device, and the last one
\* holds what was saved.
NothingLost == ~conflict =>
    /\ \A d, e \in Devices : queue[d] # << >> /\ queue[e] # << >> => d = e
    /\ \A d \in Devices : queue[d] # << >> => Saved(queue[d][Len(queue[d])])
    /\ Sync!Settled => Saved(doc)

SyncInv ==
    /\ SyncTyped
    /\ FreshAlone
    /\ ModelIsStored
    /\ NothingLost

LEMMA SyncInit == Init => SyncInv
<1>. SUFFICES ASSUME Sync!Init
              PROVE  SyncInv
  BY DEF Init
<1>1. PICK v \in Values : doc = [f \in Sync!Fields |-> IF f \in Loud THEN v ELSE Null]
  BY DEF Sync!Init
<1>2. doc \in Sync!Profiles
  BY <1>1 DEF Sync!Profiles
<1>3. /\ queue = [d \in Devices |-> << >>] /\ model = [d \in Devices |-> NoModel]
      /\ saves = 0 /\ edited = [d \in Devices |-> {}] /\ wanted = doc
  BY DEF Sync!Init
<1>4. /\ filtering \in [Devices -> BOOLEAN] /\ fresh \in [Devices -> BOOLEAN]
      /\ \A d \in Devices : ~fresh[d]
  BY DEF Sync!Init
<1>5. conflict \in BOOLEAN
  BY Zenon DEF Sync!Init
<1>6. queue \in [Devices -> Seq(Sync!Profiles)]
  BY <1>3
<1>7. MaxSaves \in Nat
  BY BoundsAssumption
<1>8. SyncTyped
  BY <1>2, <1>3, <1>4, <1>5, <1>6, <1>7 DEF SyncTyped
<1>9. FreshAlone /\ ModelIsStored
  BY <1>4 DEF FreshAlone, ModelIsStored, Sync!ModelIsStored
<1>10. NothingLost
  BY <1>3 DEF NothingLost, Saved
<1>. QED  BY <1>8, <1>9, <1>10 DEF SyncInv

\* The document as a device sees it, when it is known to be fresh.
LEMMA StoredTyped ==
    ASSUME SyncTyped, NEW d \in Devices
    PROVE  /\ Sync!Stored(d) \in Sync!Profiles
           /\ queue[d] # << >> => Sync!Stored(d) = queue[d][Len(queue[d])]
           /\ queue[d] = << >> => Sync!Stored(d) = doc
<1>1. queue[d] \in Seq(Sync!Profiles) /\ doc \in Sync!Profiles
  BY DEF SyncTyped
<1>2. queue[d] # << >> => Len(queue[d]) \in DOMAIN queue[d]
  BY <1>1
<1>. QED  BY <1>1, <1>2, SeqFacts DEF Sync!Stored, Sync!Last

\* Every profile that is saved is a device's own, changed in edited fields.
LEMMA SetUserKeeps ==
    ASSUME SyncInv, NEW d \in Devices, NEW m \in Sync!Profiles, NEW fields \in SUBSET Sync!Fields,
           Sync!SetUser(d, m, fields), doc' = doc, filtering' \in [Devices -> BOOLEAN],
           model' \in [Devices -> Sync!Profiles \cup {NoModel}], model'[d] = m,
           edited[d] \subseteq fields,
           \A f \in Sync!Fields \ fields : m[f] = model[d][f]
    PROVE  SyncInv'
<1>a. SyncTyped /\ FreshAlone /\ ModelIsStored /\ NothingLost
  BY DEF SyncInv
<1>b. MaxSaves \in Nat
  BY BoundsAssumption
<1>1. /\ saves < MaxSaves /\ saves' = saves + 1
      /\ queue' = [queue EXCEPT ![d] = Append(queue[d], m)]
      /\ edited' = [edited EXCEPT ![d] = {}]
  BY DEF Sync!SetUser, Sync!ToMap
<1>2. conflict' \in BOOLEAN /\ (~conflict' => ~conflict /\ fresh[d])
  BY Zenon DEF Sync!SetUser
<1>3. /\ fresh' \in [Devices -> BOOLEAN]
      /\ \A e \in Devices : fresh'[e] => e = d /\ Sync!OthersIdle(d)
  BY DEF Sync!SetUser
<1>4. wanted' = [f \in Sync!Fields |->
                   IF conflict' THEN Null ELSE IF f \in fields THEN m[f] ELSE wanted[f]]
  BY DEF Sync!SetUser
<1>5. wanted' \in Sync!Profiles
  BY <1>a, <1>4 DEF SyncTyped, Sync!Profiles
<1>6. /\ queue[d] \in Seq(Sync!Profiles)
      /\ queue' \in [Devices -> Seq(Sync!Profiles)]
      /\ queue'[d] = Append(queue[d], m)
      /\ queue'[d] # << >> /\ queue'[d][Len(queue'[d])] = m
      /\ \A e \in Devices \ {d} : queue'[e] = queue[e]
  <2>1. queue \in [Devices -> Seq(Sync!Profiles)]
    BY <1>a DEF SyncTyped
  <2>2. /\ Append(queue[d], m) \in Seq(Sync!Profiles) /\ Append(queue[d], m) # << >>
        /\ Append(queue[d], m)[Len(Append(queue[d], m))] = m
    BY <2>1, AppendFacts
  <2>. QED  BY <1>1, <2>1, <2>2
<1>7. SyncTyped'
  BY <1>a, <1>b, <1>1, <1>2, <1>3, <1>5, <1>6 DEF SyncTyped
<1>8. FreshAlone'
  BY <1>3, <1>6 DEF FreshAlone, Sync!OthersIdle
<1>9. ModelIsStored'
  <2>. SUFFICES ASSUME NEW e \in Devices, fresh'[e], NEW f \in Sync!Fields
                PROVE  model'[e][f] = Sync!Stored(e)'[f]
    BY DEF ModelIsStored, Sync!ModelIsStored
  <2>1. e = d
    BY <1>3
  <2>2. Sync!Stored(d)' = m
    BY <1>6 DEF Sync!Stored, Sync!Last
  <2>. QED  BY <2>1, <2>2
<1>10. NothingLost'
  <2>. SUFFICES ASSUME ~conflict'
                PROVE  /\ \A e, g \in Devices : queue'[e] # << >> /\ queue'[g] # << >> => e = g
                       /\ Saved(m)'
    BY <1>6 DEF NothingLost, Sync!Settled
  <2>1. ~conflict /\ fresh[d] /\ Sync!OthersIdle(d)
    BY <1>a, <1>2 DEF FreshAlone
  <2>2. \A e \in Devices \ {d} : queue[e] = << >>
    BY <2>1 DEF Sync!OthersIdle
  <2>3. Saved(Sync!Stored(d))
    <3>1. queue[d] = << >> => Sync!Settled
      BY <2>2 DEF Sync!Settled
    <3>. QED  BY <1>a, <2>1, <3>1, StoredTyped DEF NothingLost
  <2>4. ASSUME NEW f \in Sync!Fields
        PROVE  m[f] = wanted'[f] \/ (f \in Unread /\ m[f] = Null)
    <3>1. CASE f \in fields
      BY <1>4, <3>1
    <3>2. CASE f \notin fields
      <4>1. m[f] = model[d][f] /\ f \notin edited[d] /\ wanted'[f] = wanted[f]
        BY <1>4, <3>2
      <4>2. model[d][f] = Sync!Stored(d)[f] \/ (f \in Unread /\ model[d][f] = Null)
        BY <1>a, <2>1, <4>1 DEF ModelIsStored, Sync!ModelIsStored
      <4>3. Sync!Stored(d)[f] = wanted[f] \/ (f \in Unread /\ Sync!Stored(d)[f] = Null)
        BY <2>3 DEF Saved
      <4>. QED  BY <4>1, <4>2, <4>3
    <3>. QED  BY <3>1, <3>2
  <2>. QED  BY <1>6, <2>2, <2>4 DEF Saved
<1>. QED  BY <1>7, <1>8, <1>9, <1>10 DEF SyncInv

\* What is saved stays as it is: nothing of the documents changes.
LEMMA NothingSaved ==
    ASSUME SyncInv, NEW d \in Devices,
           UNCHANGED <<doc, queue, saves, wanted, conflict>>,
           filtering' \in [Devices -> BOOLEAN],
           model' \in [Devices -> Sync!Profiles \cup {NoModel}],
           edited' \in [Devices -> SUBSET Sync!Fields],
           fresh' \in [Devices -> BOOLEAN],
           \A e \in Devices \ {d} : model'[e] = model[e] /\ edited'[e] = edited[e]
                                    /\ fresh'[e] = fresh[e],
           fresh'[d] => model'[d] \in Sync!Profiles /\ Sync!OthersIdle(d),
           fresh'[d] => \A f \in Sync!Fields :
               \/ model'[d][f] = Sync!Stored(d)[f]
               \/ f \in Sync!Quiet /\ f \in edited'[d]
               \/ f \in Unread /\ model'[d][f] = Null
    PROVE  SyncInv'
<1>a. SyncTyped /\ FreshAlone /\ ModelIsStored /\ NothingLost
  BY DEF SyncInv
<1>1. SyncTyped'
  BY <1>a DEF SyncTyped
<1>2. FreshAlone'
  BY <1>a DEF FreshAlone, Sync!OthersIdle
<1>3. ModelIsStored'
  <2>. SUFFICES ASSUME NEW e \in Devices, fresh'[e], NEW f \in Sync!Fields
                PROVE  \/ model'[e][f] = Sync!Stored(e)[f]
                       \/ f \in Sync!Quiet /\ f \in edited'[e]
                       \/ f \in Unread /\ model'[e][f] = Null
    BY DEF ModelIsStored, Sync!ModelIsStored, Sync!Stored
  <2>1. CASE e = d
    BY <2>1
  <2>2. CASE e # d
    BY <1>a, <2>2 DEF ModelIsStored, Sync!ModelIsStored
  <2>. QED  BY <2>1, <2>2
<1>4. NothingLost'
  BY <1>a DEF NothingLost, Sync!Settled, Saved
<1>. QED  BY <1>1, <1>2, <1>3, <1>4 DEF SyncInv

LEMMA SyncStep == SyncInv /\ [Next]_vars => SyncInv'
<1>. SUFFICES ASSUME SyncInv, [Next]_vars
              PROVE  SyncInv'
  OBVIOUS
<1>a. SyncTyped /\ FreshAlone /\ ModelIsStored /\ NothingLost
  BY DEF SyncInv
<1>b. \A d \in Devices :
         /\ model[d] \in Sync!Profiles \cup {NoModel} /\ edited[d] \subseteq Sync!Fields
         /\ filtering[d] \in BOOLEAN /\ fresh[d] \in BOOLEAN
  BY <1>a DEF SyncTyped
<1>1. CASE UNCHANGED syncVars
  BY <1>1 DEF syncVars, SyncInv, SyncTyped, FreshAlone, NothingLost, Saved, Sync!Settled,
              ModelIsStored, Sync!ModelIsStored, Sync!OthersIdle, Sync!Stored
<1>2. ASSUME NEW d \in Devices, Sync!GetCurrentUser(d)
      PROVE  SyncInv'
  <2>. DEFINE m == Sync!FromDocument(Sync!Stored(d))
  <2>1. /\ model' = [model EXCEPT ![d] = m]
        /\ fresh' = [fresh EXCEPT ![d] = Sync!OthersIdle(d)]
        /\ UNCHANGED <<doc, queue, filtering, saves, edited, wanted, conflict>>
    BY <1>2 DEF Sync!GetCurrentUser
  <2>2. Sync!Stored(d) \in Sync!Profiles
    BY <1>a, StoredTyped
  <2>3. m \in Sync!Profiles
    BY <2>2 DEF Sync!FromDocument, Sync!Profiles
  <2>4. \A f \in Sync!Fields : m[f] = Sync!Stored(d)[f] \/ (f \in Unread /\ m[f] = Null)
    BY DEF Sync!FromDocument
  <2>5. Sync!OthersIdle(d) \in BOOLEAN
    BY DEF Sync!OthersIdle
  <2>6. fresh' \in [Devices -> BOOLEAN] /\ (fresh'[d] => Sync!OthersIdle(d))
        /\ \A e \in Devices \ {d} : fresh'[e] = fresh[e]
    BY <1>a, <2>1, <2>5 DEF SyncTyped
  <2>. HIDE DEF m
  <2>7. /\ model' \in [Devices -> Sync!Profiles \cup {NoModel}] /\ model'[d] = m
        /\ \A e \in Devices \ {d} : model'[e] = model[e]
    BY <1>a, <2>1, <2>3 DEF SyncTyped
  <2>8. filtering' \in [Devices -> BOOLEAN] /\ edited' \in [Devices -> SUBSET Sync!Fields]
    BY <1>a, <2>1 DEF SyncTyped
  <2>. QED  BY <2>1, <2>3, <2>4, <2>6, <2>7, <2>8, NothingSaved
<1>3. ASSUME NEW d \in Devices, Sync!OpenFilters(d) \/ Sync!Back(d)
      PROVE  SyncInv'
  <2>1. /\ UNCHANGED <<doc, queue, model, saves, edited, wanted, fresh, conflict>>
        /\ filtering' \in [Devices -> BOOLEAN]
    BY <1>a, <1>3 DEF Sync!OpenFilters, Sync!Back, SyncTyped
  <2>. QED
    BY <1>a, <2>1 DEF SyncInv, SyncTyped, FreshAlone, NothingLost, Saved, Sync!Settled,
                      ModelIsStored, Sync!ModelIsStored, Sync!OthersIdle, Sync!Stored
<1>4. ASSUME NEW d \in Devices, NEW f \in Loud \cup Unread, NEW v \in Values \cup {Null},
             Sync!SetField(d, f, v)
      PROVE  SyncInv'
  <2>. DEFINE m == [model[d] EXCEPT ![f] = v]
              fields == edited[d] \cup {f}
  <2>1. model[d] \in Sync!Profiles /\ f \in Sync!Fields
    BY <1>4, <1>b DEF Sync!SetField, Sync!Running, Sync!Fields
  <2>2. model' = [model EXCEPT ![d] = m] /\ doc' = doc /\ filtering' = filtering
    BY <1>4 DEF Sync!SetField
  <2>3. /\ m \in Sync!Profiles
        /\ \A g \in Sync!Fields \ fields : m[g] = model[d][g]
    BY <2>1 DEF Sync!Profiles
  <2>4. fields \in SUBSET Sync!Fields /\ edited[d] \subseteq fields
    BY <1>b, <2>1
  <2>5. /\ model' \in [Devices -> Sync!Profiles \cup {NoModel}] /\ model'[d] = m
        /\ filtering' \in [Devices -> BOOLEAN]
    BY <1>a, <2>2, <2>3 DEF SyncTyped
  <2>6. Sync!SetUser(d, m, fields)
    BY <1>4, <2>5 DEF Sync!SetField, Sync!Notify
  <2>. HIDE DEF m, fields
  <2>. QED  BY <2>2, <2>3, <2>4, <2>5, <2>6, SetUserKeeps
<1>5. ASSUME NEW d \in Devices, NEW q \in Sync!Quiet, NEW v \in Values \cup {Null},
             model[d] # NoModel, model' = [model EXCEPT ![d][q] = v],
             edited' = [edited EXCEPT ![d] = @ \cup {q}],
             UNCHANGED <<doc, queue, filtering, saves, wanted, fresh, conflict>>
      PROVE  SyncInv'
  <2>. DEFINE m == [model[d] EXCEPT ![q] = v]
  <2>1. model[d] \in Sync!Profiles /\ q \in Sync!Fields
    BY <1>5, <1>b DEF Sync!Fields
  <2>2. /\ m \in Sync!Profiles
        /\ \A g \in Sync!Fields \ {q} : m[g] = model[d][g]
    BY <2>1 DEF Sync!Profiles
  <2>3. model' = [model EXCEPT ![d] = m]
    BY <1>5
  <2>. HIDE DEF m
  <2>4. /\ model' \in [Devices -> Sync!Profiles \cup {NoModel}] /\ model'[d] = m
        /\ \A e \in Devices \ {d} : model'[e] = model[e]
    BY <1>a, <2>2, <2>3 DEF SyncTyped
  <2>5. /\ edited' \in [Devices -> SUBSET Sync!Fields] /\ edited'[d] = edited[d] \cup {q}
        /\ \A e \in Devices \ {d} : edited'[e] = edited[e]
    BY <1>5, <1>a, <2>1 DEF SyncTyped
  <2>6. fresh[d] => Sync!OthersIdle(d)
    BY <1>a DEF FreshAlone
  <2>7. ASSUME fresh[d], NEW g \in Sync!Fields
        PROVE  \/ model'[d][g] = Sync!Stored(d)[g]
               \/ g \in Sync!Quiet /\ g \in edited'[d]
               \/ g \in Unread /\ model'[d][g] = Null
    BY <1>a, <1>5, <2>2, <2>4, <2>5, <2>7 DEF ModelIsStored, Sync!ModelIsStored
  <2>8. filtering' \in [Devices -> BOOLEAN] /\ fresh' \in [Devices -> BOOLEAN]
    BY <1>a, <1>5 DEF SyncTyped
  <2>. QED  BY <1>5, <2>2, <2>4, <2>5, <2>6, <2>7, <2>8, NothingSaved
<1>6. ASSUME NEW d \in Devices, Sync!BackFromFilters(d)
      PROVE  SyncInv'
  <2>1. model[d] \in Sync!Profiles
    BY <1>6, <1>b DEF Sync!BackFromFilters, Sync!Running
  <2>2. /\ Sync!SetUser(d, model[d], edited[d]) /\ doc' = doc /\ model' = model
        /\ filtering' = [filtering EXCEPT ![d] = FALSE]
    BY <1>6 DEF Sync!BackFromFilters
  <2>3. /\ model' \in [Devices -> Sync!Profiles \cup {NoModel}] /\ model'[d] = model[d]
        /\ filtering' \in [Devices -> BOOLEAN]
    BY <1>a, <2>2 DEF SyncTyped
  <2>. QED  BY <1>b, <2>1, <2>2, <2>3, SetUserKeeps
<1>7. ASSUME NEW d \in Devices, Sync!Kill(d)
      PROVE  SyncInv'
  <2>1. /\ model' = [model EXCEPT ![d] = NoModel]
        /\ filtering' = [filtering EXCEPT ![d] = FALSE]
        /\ edited' = [edited EXCEPT ![d] = {}]
        /\ fresh' = [fresh EXCEPT ![d] = FALSE]
        /\ UNCHANGED <<doc, queue, saves, wanted, conflict>>
    BY <1>7 DEF Sync!Kill
  <2>2. /\ model' \in [Devices -> Sync!Profiles \cup {NoModel}]
        /\ filtering' \in [Devices -> BOOLEAN]
        /\ edited' \in [Devices -> SUBSET Sync!Fields]
        /\ fresh' \in [Devices -> BOOLEAN] /\ ~fresh'[d]
        /\ \A e \in Devices \ {d} : model'[e] = model[e] /\ edited'[e] = edited[e]
                                    /\ fresh'[e] = fresh[e]
    BY <1>a, <2>1 DEF SyncTyped
  <2>. QED  BY <2>1, <2>2, NothingSaved
<1>8. ASSUME NEW d \in Devices, Sync!Deliver(d)
      PROVE  SyncInv'
  <2>1. /\ queue[d] # << >> /\ doc' = Head(queue[d])
        /\ queue' = [queue EXCEPT ![d] = Tail(queue[d])]
        /\ UNCHANGED <<model, filtering, saves, edited, wanted, fresh, conflict>>
    BY <1>8 DEF Sync!Deliver
  <2>2. queue \in [Devices -> Seq(Sync!Profiles)] /\ queue[d] \in Seq(Sync!Profiles)
    BY <1>a DEF SyncTyped
  <2>3. /\ doc' \in Sync!Profiles /\ queue' \in [Devices -> Seq(Sync!Profiles)]
        /\ queue'[d] = Tail(queue[d])
        /\ \A e \in Devices \ {d} : queue'[e] = queue[e]
    BY <2>1, <2>2, TailFacts
  <2>4. /\ queue'[d] # << >> => queue'[d][Len(queue'[d])] = queue[d][Len(queue[d])]
        /\ queue'[d] = << >> => doc' = queue[d][Len(queue[d])]
    <3>1. /\ Tail(queue[d]) # << >> => Last(Tail(queue[d])) = Last(queue[d])
          /\ Tail(queue[d]) = << >> => Last(queue[d]) = Head(queue[d])
      BY <2>1, <2>2, TailFacts
    <3>. QED  BY <2>1, <2>3, <3>1 DEF Last
  <2>5. SyncTyped'
    BY <1>a, <2>1, <2>3 DEF SyncTyped
  <2>6. FreshAlone'
    <3>1. ASSUME NEW e \in Devices, fresh[e], NEW g \in Devices \ {e}
          PROVE  queue'[g] = << >>
      <4>1. queue[g] = << >>
        BY <1>a, <3>1 DEF FreshAlone, Sync!OthersIdle
      <4>. QED  BY <2>1, <2>3, <4>1
    <3>. QED  BY <1>a, <2>1, <3>1 DEF FreshAlone, Sync!OthersIdle
  <2>7. ModelIsStored'
    <3>. SUFFICES ASSUME NEW e \in Devices, fresh[e]
                  PROVE  Sync!Stored(e)' = Sync!Stored(e)
      BY <1>a, <2>1 DEF ModelIsStored, Sync!ModelIsStored
    <3>1. d = e
      BY <1>a, <2>1 DEF FreshAlone, Sync!OthersIdle
    <3>. QED  BY <2>1, <2>4, <3>1 DEF Sync!Stored, Sync!Last
  <2>8. NothingLost'
    <3>. SUFFICES ASSUME ~conflict
                  PROVE  /\ \A e, g \in Devices : queue'[e] # << >> /\ queue'[g] # << >> => e = g
                         /\ \A e \in Devices : queue'[e] # << >> => Saved(queue'[e][Len(queue'[e])])
                         /\ Sync!Settled' => Saved(doc')
      BY <2>1 DEF NothingLost, Saved
    <3>1. \A e \in Devices \ {d} : queue'[e] = << >>
      BY <1>a, <2>1, <2>3 DEF NothingLost
    <3>2. Saved(queue[d][Len(queue[d])])
      BY <1>a, <2>1 DEF NothingLost
    <3>. QED  BY <2>4, <3>1, <3>2 DEF Sync!Settled
  <2>. QED  BY <2>5, <2>6, <2>7, <2>8 DEF SyncInv
<1>9. ASSUME NEW d \in Devices, NEW v \in Values \cup {Null},
             Sync!SetAbout(d, v) \/ Sync!SetMaxDistance(d, v)
      PROVE  SyncInv'
  BY <1>5, <1>9 DEF Sync!SetAbout, Sync!SetMaxDistance, Sync!Running, Sync!Quiet
<1>. QED
  BY <1>1, <1>2, <1>3, <1>4, <1>6, <1>7, <1>8, <1>9
     DEF Next, vars, SyncMoves, Sync!Next,
         SheetMoves, LanguagesMove, FiltersMove, LikedByMoves, DialogsMove

(***************************************************************************)
(* While no other device saves, what a device shows is what it has stored, *)
(* but for the fields that wait for another save and those it does not     *)
(* read back: for any devices, fields and number of saves                  *)
(* (models/user_model.dart:105-168).                                       *)
(***************************************************************************)
THEOREM ModelsAreStored == Spec => []ModelIsStored
<1>1. SyncInv => ModelIsStored
  BY DEF SyncInv
<1>. QED  BY SyncInit, SyncStep, <1>1, PTL DEF Spec

(***************************************************************************)
(* When everything is delivered, the document holds the last saved edit of *)
(* every field, unless a device saved without having read another's save   *)
(* or without reading the field back (models/user_model.dart:116).         *)
(***************************************************************************)
THEOREM EditsAreKept == Spec => []SavedEditsKept
<1>1. SyncInv => SavedEditsKept
  BY DEF SyncInv, NothingLost, Saved, SavedEditsKept, Sync!SavedEditsKept
<1>. QED  BY SyncInit, SyncStep, <1>1, PTL DEF Spec

-----------------------------------------------------------------------------
(* LikedByDialog *)

Routes == {LikedBy!Home, LikedBy!Page} \cup LikedBy!Dialogs

LikedByTyped ==
    /\ likes \subseteq Likers /\ grid \subseteq Likers
    /\ open \in BOOLEAN /\ twice \in BOOLEAN /\ left \in BOOLEAN
    /\ shrunk \in BOOLEAN /\ silent \in BOOLEAN
    /\ ~open => grid = {}
    /\ stack \in Seq(Routes)
    /\ calls \in Seq(LikedBy!Calls) /\ Len(calls) <= MaxCalls

\* A dialog or call whose tile has gone has seen the grid shrink, and the tile
\* of another is on the grid, of n tiles.
TilesKnown(n, cs, st, sh) ==
    /\ \A i \in DOMAIN cs : cs[i].tile <= n /\ (cs[i].tile = 0 => sh)
    /\ \A i \in DOMAIN st : st[i].kind = "dialog" =>
          st[i].tile <= n /\ (st[i].tile = 0 => sh)

\* Home is at the bottom, a dialog only on top, and the one call under way is
\* that dialog's, whose button stays pressed until the call is answered.
Stays(cs, st, sh) ==
    /\ Len(st) >= 1 /\ st[1] = LikedBy!Home
    /\ \A i \in 1 .. Len(st) - 1 : st[i].kind # "dialog"
    /\ Len(cs) <= 1
    /\ Len(cs) = 1 => /\ st[Len(st)].kind = "dialog"
                      /\ st[Len(st)].user = cs[1].user
    /\ st[Len(st)].kind = "dialog" /\ st[Len(st)].pressed => Len(cs) = 1 \/ sh

LikedByInv ==
    /\ LikedByTyped
    /\ TilesKnown(Cardinality(grid), calls, stack, shrunk)
    /\ silent => shrunk
    /\ ~twice /\ ~left => Stays(calls, stack, shrunk)

LEMMA RouteFacts ==
    /\ LikedBy!Home \in Routes /\ LikedBy!Home.kind = "home"
    /\ LikedBy!Page \in Routes /\ LikedBy!Page.kind = "page"
    /\ \A r \in Routes :
          /\ r.kind = "dialog" => r \in LikedBy!Dialogs
          /\ r.kind = "home" => r = LikedBy!Home
    /\ \A r \in LikedBy!Dialogs :
          r \in Routes /\ r.kind = "dialog" /\ r.user \in Likers /\ r.pressed \in BOOLEAN
BY DEF Routes, LikedBy!Home, LikedBy!Page, LikedBy!Dialogs

\* A grid has no more tiles than there are users, and none if it is empty.
LEMMA GridFacts ==
    ASSUME NEW S \in SUBSET Likers
    PROVE  /\ LikedBy!Cardinality(S) = Cardinality(S)
           /\ Cardinality(S) \in Nat /\ Cardinality(S) \in LikedBy!Tiles
           /\ LikedBy!Tiles \subseteq Nat /\ 0 \in LikedBy!Tiles
           /\ Cardinality(S) = 0 <=> S = {}
           /\ \A T \in SUBSET S : Cardinality(T) <= Cardinality(S)
<1>1. \A R : LikedBy!Cardinality(R) = Cardinality(R)
  BY DEF LikedBy!Cardinality, Cardinality
<1>2. IsFiniteSet(S) /\ Cardinality(S) <= Cardinality(Likers)
  BY FiniteAssumption, FS_Subset
<1>3. Cardinality(S) \in Nat /\ Cardinality(Likers) \in Nat
  BY <1>2, FiniteAssumption, FS_CardinalityType
<1>4. LikedBy!Tiles = 0 .. Cardinality(Likers)
  BY <1>1 DEF LikedBy!Tiles
<1>5. Cardinality(S) = 0 <=> S = {}
  BY <1>2, FS_EmptySet
<1>6. \A T \in SUBSET S : Cardinality(T) <= Cardinality(S)
  BY <1>2, FS_Subset
<1>. QED  BY <1>1, <1>2, <1>3, <1>4, <1>5, <1>6

LEMMA TileFacts ==
    /\ LikedBy!Tiles \subseteq Nat /\ 0 \in LikedBy!Tiles
    /\ \A r \in LikedBy!Dialogs : r.tile \in LikedBy!Tiles
    /\ \A c \in LikedBy!Calls : c.tile \in LikedBy!Tiles /\ c.user \in Likers
BY GridFacts DEF LikedBy!Dialogs, LikedBy!Calls

LEMMA KeptFacts ==
    ASSUME NEW n \in Nat
    PROVE  /\ \A r \in LikedBy!Dialogs : LET k == LikedBy!Kept(r, n) IN
                 /\ k \in LikedBy!Dialogs /\ k.kind = "dialog"
                 /\ k.user = r.user /\ k.pressed = r.pressed
                 /\ k.tile <= n
                 /\ k.tile = 0 => r.tile = 0 \/ k # r
           /\ \A c \in LikedBy!Calls : LET k == LikedBy!Kept(c, n) IN
                 /\ k \in LikedBy!Calls
                 /\ k.user = c.user
                 /\ k.tile <= n
                 /\ k.tile = 0 => c.tile = 0 \/ k # c
<1>1. ASSUME NEW r \in LikedBy!Dialogs
      PROVE  LET k == LikedBy!Kept(r, n) IN
             /\ k \in LikedBy!Dialogs /\ k.kind = "dialog"
             /\ k.user = r.user /\ k.pressed = r.pressed
             /\ k.tile <= n
             /\ k.tile = 0 => r.tile = 0 \/ k # r
  <2>1. r.tile \in Nat /\ 0 \in LikedBy!Tiles
    BY TileFacts
  <2>2. CASE r.tile > n
    BY <2>1, <2>2 DEF LikedBy!Kept, LikedBy!Dialogs
  <2>3. CASE ~(r.tile > n)
    BY <2>1, <2>3 DEF LikedBy!Kept, LikedBy!Dialogs
  <2>. QED  BY <2>2, <2>3
<1>2. ASSUME NEW c \in LikedBy!Calls
      PROVE  LET k == LikedBy!Kept(c, n) IN
             /\ k \in LikedBy!Calls
             /\ k.user = c.user
             /\ k.tile <= n
             /\ k.tile = 0 => c.tile = 0 \/ k # c
  <2>1. c.tile \in Nat /\ 0 \in LikedBy!Tiles
    BY TileFacts
  <2>2. CASE c.tile > n
    BY <2>1, <2>2 DEF LikedBy!Kept, LikedBy!Calls
  <2>3. CASE ~(c.tile > n)
    BY <2>1, <2>3 DEF LikedBy!Kept, LikedBy!Calls
  <2>. QED  BY <2>2, <2>3
<1>. QED  BY <1>1, <1>2

\* The tiles beyond n go from the calls cs and the routes st.
LEMMA LostKeeps ==
    ASSUME NEW n \in Nat, NEW m, shrunk \in BOOLEAN,
           NEW cs \in Seq(LikedBy!Calls), NEW st \in Seq(Routes),
           TilesKnown(m, cs, st, shrunk), LikedBy!Lost(n, cs, st)
    PROVE  /\ calls' \in Seq(LikedBy!Calls) /\ Len(calls') = Len(cs)
           /\ stack' \in Seq(Routes)
           /\ shrunk' \in BOOLEAN /\ (shrunk => shrunk')
           /\ TilesKnown(n, calls', stack', shrunk')
           /\ Stays(cs, st, shrunk) => Stays(calls', stack', shrunk')
<1>1. /\ calls' = [i \in DOMAIN cs |-> LikedBy!Kept(cs[i], n)]
      /\ stack' = [i \in DOMAIN st |-> IF st[i].kind = "dialog" THEN LikedBy!Kept(st[i], n)
                                                               ELSE st[i]]
  BY DEF LikedBy!Lost
<1>2. shrunk' \in BOOLEAN /\ (shrunk => shrunk') /\ (calls' # cs \/ stack' # st => shrunk')
  BY Zenon DEF LikedBy!Lost
<1>3. /\ Len(cs) \in Nat /\ DOMAIN cs = 1 .. Len(cs)
      /\ \A i \in DOMAIN cs : cs[i] \in LikedBy!Calls
      /\ Len(st) \in Nat /\ DOMAIN st = 1 .. Len(st)
      /\ \A i \in DOMAIN st : st[i] \in Routes
  BY SeqFacts
<1>4. \A i \in DOMAIN cs :
         /\ calls'[i] \in LikedBy!Calls /\ calls'[i].user = cs[i].user /\ calls'[i].tile <= n
         /\ calls'[i].tile = 0 => cs[i].tile = 0 \/ calls' # cs
  <2>. TAKE i \in DOMAIN cs
  <2>1. calls'[i] = LikedBy!Kept(cs[i], n) /\ cs[i] \in LikedBy!Calls
    BY <1>1, <1>3
  <2>2. calls'[i] # cs[i] => calls' # cs
    OBVIOUS
  <2>. QED  BY <2>1, <2>2, KeptFacts
<1>5. \A i \in DOMAIN st :
         IF st[i].kind = "dialog"
         THEN /\ stack'[i] \in LikedBy!Dialogs /\ stack'[i].kind = "dialog"
              /\ stack'[i].user = st[i].user /\ stack'[i].pressed = st[i].pressed
              /\ stack'[i].tile <= n
              /\ stack'[i].tile = 0 => st[i].tile = 0 \/ stack' # st
         ELSE stack'[i] = st[i]
  <2>. TAKE i \in DOMAIN st
  <2>1. CASE st[i].kind = "dialog"
    <3>1. stack'[i] = LikedBy!Kept(st[i], n) /\ st[i] \in LikedBy!Dialogs
      BY <1>1, <1>3, <2>1, RouteFacts
    <3>2. stack'[i] # st[i] => stack' # st
      OBVIOUS
    <3>. QED  BY <2>1, <3>1, <3>2, KeptFacts
  <2>2. CASE st[i].kind # "dialog"
    BY <1>1, <2>2
  <2>. QED  BY <2>1, <2>2
<1>6. /\ DOMAIN calls' = 1 .. Len(cs) /\ calls' \in Seq(LikedBy!Calls) /\ Len(calls') = Len(cs)
  <2>1. calls' \in [1 .. Len(cs) -> LikedBy!Calls]
    BY <1>1, <1>3, <1>4
  <2>. QED  BY <1>3, <2>1, SeqDef
<1>7. /\ DOMAIN stack' = 1 .. Len(st) /\ stack' \in Seq(Routes) /\ Len(stack') = Len(st)
  <2>1. \A i \in DOMAIN st : stack'[i] \in Routes
    BY <1>3, <1>5, RouteFacts
  <2>2. stack' \in [1 .. Len(st) -> Routes]
    BY <1>1, <1>3, <2>1
  <2>. QED  BY <1>3, <2>2, SeqDef
<1>8. TilesKnown(n, calls', stack', shrunk')
  <2>1. \A i \in DOMAIN calls' : calls'[i].tile <= n /\ (calls'[i].tile = 0 => shrunk')
    BY <1>2, <1>3, <1>4, <1>6 DEF TilesKnown
  <2>2. ASSUME NEW i \in DOMAIN stack', stack'[i].kind = "dialog"
        PROVE  stack'[i].tile <= n /\ (stack'[i].tile = 0 => shrunk')
    <3>1. i \in DOMAIN st
      BY <1>3, <1>7
    <3>2. st[i].kind = "dialog"
      BY <1>5, <2>2, <3>1
    <3>. QED  BY <1>2, <1>5, <3>1, <3>2 DEF TilesKnown
  <2>. QED  BY <2>1, <2>2 DEF TilesKnown
<1>9. ASSUME Stays(cs, st, shrunk)  PROVE Stays(calls', stack', shrunk')
  <2>1. 1 \in DOMAIN st /\ Len(st) \in DOMAIN st /\ st[1].kind = "home"
    BY <1>3, <1>9, RouteFacts DEF Stays
  <2>2. stack'[1] = LikedBy!Home
    BY <1>5, <1>9, <2>1 DEF Stays
  <2>3. \A i \in 1 .. Len(stack') - 1 : stack'[i].kind # "dialog"
    <3>. SUFFICES ASSUME NEW i \in 1 .. Len(st) - 1
                  PROVE  stack'[i].kind # "dialog"
      BY <1>7
    <3>1. i \in DOMAIN st /\ st[i].kind # "dialog"
      BY <1>3, <1>9 DEF Stays
    <3>2. stack'[i] = st[i]
      BY <1>5, <3>1
    <3>. QED  BY <3>1, <3>2
  <2>4. Len(calls') = 1 => /\ stack'[Len(stack')].kind = "dialog"
                           /\ stack'[Len(stack')].user = calls'[1].user
    BY <1>3, <1>4, <1>5, <1>6, <1>7, <1>9, <2>1 DEF Stays
  <2>5. stack'[Len(stack')].kind = "dialog" /\ stack'[Len(stack')].pressed
        => Len(calls') = 1 \/ shrunk'
    BY <1>2, <1>5, <1>6, <1>7, <1>9, <2>1 DEF Stays
  <2>. QED  BY <1>6, <1>7, <1>9, <2>2, <2>3, <2>4, <2>5 DEF Stays
<1>. QED  BY <1>2, <1>6, <1>7, <1>8, <1>9

LEMMA OneCall ==
    ASSUME NEW sh, NEW cs \in Seq(LikedBy!Calls), NEW st, Stays(cs, st, sh)
    PROVE  \/ Len(cs) = 0
           \/ /\ Len(cs) = 1 /\ 1 \in DOMAIN cs
              /\ st[Len(st)].kind = "dialog" /\ st[Len(st)].user = cs[1].user
<1>1. Len(cs) \in Nat /\ DOMAIN cs = 1 .. Len(cs)
  BY SeqFacts
<1>2. Len(cs) <= 1
  BY DEF Stays
<1>3. Len(cs) = 0 \/ Len(cs) = 1
  BY <1>1, <1>2
<1>4. Len(cs) = 1 => st[Len(st)].kind = "dialog" /\ st[Len(st)].user = cs[1].user
  BY DEF Stays
<1>. QED  BY <1>1, <1>3, <1>4

LEMMA LikedByInit == Init => LikedByInv
<1>. SUFFICES ASSUME LikedBy!Init
              PROVE  LikedByInv
  BY DEF Init
<1>1. /\ likes \subseteq Likers /\ grid = {}
      /\ stack = <<LikedBy!Home>> /\ calls = << >>
  BY DEF LikedBy!Init
<1>2. /\ open \in BOOLEAN /\ twice \in BOOLEAN /\ left \in BOOLEAN
      /\ shrunk \in BOOLEAN /\ silent \in BOOLEAN /\ ~open /\ ~silent
  BY Zenon DEF LikedBy!Init
<1>3. /\ stack \in Seq(Routes) /\ Len(stack) = 1 /\ DOMAIN stack = 1 .. 1
      /\ stack[1] = LikedBy!Home /\ stack[1].kind = "home"
  BY <1>1, RouteFacts
<1>4. calls \in Seq(LikedBy!Calls) /\ Len(calls) = 0 /\ DOMAIN calls = {} /\ MaxCalls \in Nat
  BY <1>1, BoundsAssumption
<1>5. LikedByTyped
  BY <1>1, <1>2, <1>3, <1>4 DEF LikedByTyped
<1>6. \A i \in DOMAIN stack : stack[i].kind # "dialog"
  BY <1>3
<1>7. TilesKnown(Cardinality(grid), calls, stack, shrunk)
  BY <1>4, <1>6 DEF TilesKnown
<1>8. Stays(calls, stack, shrunk)
  BY <1>3, <1>4 DEF Stays
<1>. QED  BY <1>2, <1>5, <1>7, <1>8 DEF LikedByInv

\* The grid changes, with what the tiles leave behind.
LEMMA GridStep == LikedByInv /\ (LikedBy!Show \/ LikedBy!SwitchTab) => LikedByInv'
<1>. SUFFICES ASSUME LikedByInv, LikedBy!Show \/ LikedBy!SwitchTab
              PROVE  LikedByInv'
  OBVIOUS
<1>a. LikedByTyped /\ TilesKnown(Cardinality(grid), calls, stack, shrunk)
  BY DEF LikedByInv
<1>1. ASSUME LikedBy!Lost(Cardinality(grid'), calls, stack), grid' \subseteq Likers,
             open' \in BOOLEAN, ~open' => grid' = {},
             UNCHANGED <<likes, twice, left, silent>>
      PROVE  LikedByInv'
  <2>1. Cardinality(grid') \in Nat
    BY <1>1, GridFacts
  <2>2. /\ calls' \in Seq(LikedBy!Calls) /\ Len(calls') = Len(calls)
        /\ stack' \in Seq(Routes)
        /\ shrunk' \in BOOLEAN /\ (shrunk => shrunk')
        /\ TilesKnown(Cardinality(grid'), calls', stack', shrunk')
        /\ Stays(calls, stack, shrunk) => Stays(calls', stack', shrunk')
    BY <1>a, <1>1, <2>1, LostKeeps DEF LikedByTyped
  <2>3. LikedByTyped'
    BY <1>a, <1>1, <2>2 DEF LikedByTyped
  <2>. QED  BY <1>1, <2>2, <2>3 DEF LikedByInv
<1>2. CASE LikedBy!Show
  <2>1. /\ LikedBy!Lost(LikedBy!Cardinality(likes), calls, stack) /\ grid' = likes /\ open
        /\ UNCHANGED <<likes, open, twice, left, silent>>
    BY <1>2 DEF LikedBy!Show
  <2>2. LikedBy!Cardinality(likes) = Cardinality(grid')
    BY <1>a, <2>1, GridFacts DEF LikedByTyped
  <2>. QED  BY <1>a, <1>1, <2>1, <2>2 DEF LikedByTyped
<1>3. CASE LikedBy!SwitchTab
  <2>1. /\ LikedBy!Lost(0, calls, stack) /\ grid' = {} /\ UNCHANGED <<likes, twice, left, silent>>
    BY <1>3 DEF LikedBy!SwitchTab
  <2>2. open' \in BOOLEAN
    BY <1>3, Zenon DEF LikedBy!SwitchTab
  <2>3. Cardinality(grid') = 0
    BY <2>1, FS_EmptySet
  <2>. QED  BY <1>1, <2>1, <2>2, <2>3
<1>. QED  BY <1>2, <1>3

\* A route is put on top, or the route on top goes.
LEMMA RoutePushed ==
    ASSUME NEW n \in Nat, NEW sh, NEW cs \in Seq(LikedBy!Calls), NEW st \in Seq(Routes),
           NEW r \in Routes,
           TilesKnown(n, cs, st, sh),
           r.kind = "dialog" => r.tile <= n /\ r.tile # 0 /\ ~r.pressed,
           st # << >> => st[Len(st)].kind # "dialog"
    PROVE  /\ Append(st, r) \in Seq(Routes)
           /\ TilesKnown(n, cs, Append(st, r), sh)
           /\ Stays(cs, st, sh) => Stays(cs, Append(st, r), sh)
<1>. DEFINE t == Append(st, r)
<1>1. /\ Len(st) \in Nat /\ DOMAIN st = 1 .. Len(st)
      /\ t \in Seq(Routes) /\ Len(t) = Len(st) + 1 /\ DOMAIN t = 1 .. Len(st) + 1
      /\ \A i \in 1 .. Len(st) : t[i] = st[i]
      /\ t[Len(st) + 1] = r
  BY AppendFacts, SeqFacts
<1>. HIDE DEF t
<1>2. TilesKnown(n, cs, t, sh)
  <2>1. ASSUME NEW i \in DOMAIN t, t[i].kind = "dialog"
        PROVE  t[i].tile <= n /\ (t[i].tile = 0 => sh)
    <3>1. CASE i = Len(st) + 1
      BY <1>1, <2>1, <3>1
    <3>2. CASE i \in 1 .. Len(st)
      BY <1>1, <2>1, <3>2 DEF TilesKnown
    <3>. QED  BY <1>1, <3>1, <3>2
  <2>. QED  BY <2>1 DEF TilesKnown
<1>3. ASSUME Stays(cs, st, sh)
      PROVE  Stays(cs, t, sh)
  <2>1. Len(st) >= 1 /\ st[Len(st)].kind # "dialog" /\ Len(cs) # 1 /\ Len(cs) <= 1
    BY <1>3, <1>1 DEF Stays
  <2>2. t[1] = LikedBy!Home /\ Len(t) >= 1
    BY <1>1, <1>3, <2>1 DEF Stays
  <2>3. ASSUME NEW i \in 1 .. Len(t) - 1  PROVE t[i].kind # "dialog"
    <3>1. Len(t) - 1 = Len(st)
      BY <1>1
    <3>2. Len(st) \in Nat
      BY <1>1
    <3>3. i \in 1 .. Len(st)
      BY <3>1
    <3>4. i = Len(st) \/ i \in 1 .. Len(st) - 1
      BY <3>2, <3>3
    <3>. QED  BY <1>1, <1>3, <2>1, <3>3, <3>4 DEF Stays
  <2>4. t[Len(t)] = r /\ ~(r.kind = "dialog" /\ r.pressed)
    BY <1>1
  <2>. QED  BY <2>1, <2>2, <2>3, <2>4 DEF Stays
<1>. QED  BY <1>1, <1>2, <1>3 DEF t

LEMMA RoutePopped ==
    ASSUME NEW n \in Nat, NEW sh, NEW cs \in Seq(LikedBy!Calls), NEW st \in Seq(Routes),
           TilesKnown(n, cs, st, sh), st # << >>
    PROVE  /\ Front(st) \in Seq(Routes)
           /\ TilesKnown(n, cs, Front(st), sh)
           /\ \A ds : Stays(ds, st, sh) /\ Len(cs) = 0 /\ st[Len(st)].kind # "home"
                      => Stays(cs, Front(st), sh)
<1>. DEFINE t == Front(st)
<1>1. /\ Len(st) \in Nat \ {0} /\ DOMAIN st = 1 .. Len(st)
      /\ t \in Seq(Routes) /\ Len(t) = Len(st) - 1 /\ DOMAIN t = 1 .. Len(st) - 1
      /\ \A i \in 1 .. Len(st) - 1 : t[i] = st[i]
  BY FrontFacts, SeqFacts
<1>. HIDE DEF t
<1>2. TilesKnown(n, cs, t, sh)
  BY <1>1 DEF TilesKnown
<1>3. ASSUME NEW ds, Stays(ds, st, sh), Len(cs) = 0, st[Len(st)].kind # "home"
      PROVE  Stays(cs, t, sh)
  <2>1. Len(st) # 1
    BY <1>3, RouteFacts DEF Stays
  <2>2. Len(t) >= 1 /\ t[1] = LikedBy!Home
    BY <1>1, <1>3, <2>1 DEF Stays
  <2>3. \A i \in 1 .. Len(t) : t[i].kind # "dialog"
    BY <1>1, <1>3 DEF Stays
  <2>4. Len(t) \in 1 .. Len(t) /\ \A i \in 1 .. Len(t) - 1 : i \in 1 .. Len(t)
    BY <1>1, <2>2
  <2>. QED  BY <1>3, <2>2, <2>3, <2>4 DEF Stays
<1>. QED  BY <1>1, <1>2, <1>3 DEF t

\* What is on top, and who has called.
LEMMA TopFacts ==
    ASSUME LikedByTyped, NEW kind
    PROVE  /\ LikedBy!OnTop(kind) => /\ stack # << >> /\ Len(stack) \in DOMAIN stack
                                     /\ stack[Len(stack)].kind = kind
                                     /\ stack[Len(stack)] \in Routes
           /\ LikedBy!Last(stack) = stack[Len(stack)]
           /\ stack # << >> /\ stack[Len(stack)].kind = kind => LikedBy!OnTop(kind)
<1>1. stack \in Seq(Routes)
  BY DEF LikedByTyped
<1>2. stack # << >> => Len(stack) \in DOMAIN stack /\ stack[Len(stack)] \in Routes
  BY <1>1
<1>. QED  BY <1>2 DEF LikedBy!OnTop, LikedBy!AtHome, LikedBy!Last

LEMMA RouteStep ==
    LikedByInv /\ ( \/ LikedBy!OpenPage \/ LikedBy!ClosePage \/ LikedBy!CloseDialog
                    \/ \E u \in Likers : LikedBy!OpenDialog(u) )
    => LikedByInv'
<1>. SUFFICES ASSUME LikedByInv,
                     \/ LikedBy!OpenPage \/ LikedBy!ClosePage \/ LikedBy!CloseDialog
                     \/ \E u \in Likers : LikedBy!OpenDialog(u)
              PROVE  LikedByInv'
  OBVIOUS
<1>a. /\ LikedByTyped /\ TilesKnown(Cardinality(grid), calls, stack, shrunk)
      /\ Cardinality(grid) \in Nat
      /\ calls \in Seq(LikedBy!Calls) /\ stack \in Seq(Routes)
      /\ silent => shrunk
      /\ ~twice /\ ~left => Stays(calls, stack, shrunk)
  BY GridFacts DEF LikedByInv, LikedByTyped
<1>b. UNCHANGED <<likes, open, grid, calls, twice, shrunk, silent>>
  BY DEF LikedBy!OpenPage, LikedBy!ClosePage, LikedBy!CloseDialog, LikedBy!OpenDialog
<1>c. ASSUME stack' \in Seq(Routes), left' \in BOOLEAN,
             TilesKnown(Cardinality(grid), calls, stack', shrunk),
             ~twice /\ ~left' => Stays(calls, stack', shrunk)
      PROVE  LikedByInv'
  BY <1>a, <1>b, <1>c DEF LikedByInv, LikedByTyped
<1>d. left \in BOOLEAN
  BY <1>a DEF LikedByTyped
<1>1. CASE LikedBy!OpenPage
  <2>1. /\ LikedBy!OnTop("home") \/ LikedBy!OnTop("page")
        /\ stack' = Append(stack, LikedBy!Page) /\ left' = left
    BY <1>1 DEF LikedBy!OpenPage
  <2>2. stack[Len(stack)].kind # "dialog"
    BY <1>a, <2>1, TopFacts
  <2>3. LikedBy!Page \in Routes /\ LikedBy!Page.kind # "dialog"
    BY RouteFacts
  <2>4. /\ stack' \in Seq(Routes)
        /\ TilesKnown(Cardinality(grid), calls, stack', shrunk)
        /\ Stays(calls, stack, shrunk) => Stays(calls, stack', shrunk)
    BY <1>a, <2>1, <2>2, <2>3, RoutePushed
  <2>. QED  BY <1>a, <1>c, <1>d, <2>1, <2>4
<1>2. ASSUME NEW u \in Likers, LikedBy!OpenDialog(u)
      PROVE  LikedByInv'
  <2>. DEFINE T == {w \in grid : w <= u}
              d == [kind |-> "dialog", user |-> u, pressed |-> FALSE,
                    tile |-> LikedBy!Cardinality(T)]
  <2>1. /\ LikedBy!OnTop("home") /\ u \in grid /\ stack' = Append(stack, d) /\ left' = left
    BY <1>2 DEF LikedBy!OpenDialog
  <2>2. stack[Len(stack)].kind # "dialog"
    BY <1>a, <2>1, TopFacts
  <2>3. u \in T
    BY <2>1, BoundsAssumption
  <2>4. T \subseteq grid /\ grid \subseteq Likers
    BY <1>a DEF LikedByTyped
  <2>. HIDE DEF T
  <2>5. /\ LikedBy!Cardinality(T) = Cardinality(T)
        /\ Cardinality(T) \in Nat /\ Cardinality(T) \in LikedBy!Tiles
        /\ Cardinality(T) # 0 /\ Cardinality(T) <= Cardinality(grid)
    BY <2>3, <2>4, GridFacts
  <2>6. d \in LikedBy!Dialogs /\ d.kind = "dialog" /\ ~d.pressed /\ d.tile = Cardinality(T)
    BY <2>5 DEF LikedBy!Dialogs
  <2>. HIDE DEF d
  <2>7. d \in Routes /\ d.tile <= Cardinality(grid) /\ d.tile # 0
    BY <2>5, <2>6, RouteFacts
  <2>8. /\ stack' \in Seq(Routes)
        /\ TilesKnown(Cardinality(grid), calls, stack', shrunk)
        /\ Stays(calls, stack, shrunk) => Stays(calls, stack', shrunk)
    BY <1>a, <2>1, <2>2, <2>6, <2>7, RoutePushed
  <2>. QED  BY <1>a, <1>c, <1>d, <2>1, <2>8
<1>e. ASSUME stack # << >>, stack' = Front(stack), left' \in BOOLEAN, left => left',
             ~twice /\ ~left' => Len(calls) = 0 /\ stack[Len(stack)].kind # "home"
      PROVE  LikedByInv'
  <2>1. /\ stack' \in Seq(Routes)
        /\ TilesKnown(Cardinality(grid), calls, stack', shrunk)
        /\ Stays(calls, stack, shrunk) /\ Len(calls) = 0 /\ stack[Len(stack)].kind # "home"
           => Stays(calls, stack', shrunk)
    BY <1>a, <1>e, RoutePopped
  <2>. QED  BY <1>a, <1>c, <1>e, <2>1
<1>f. LikedBy!Front(stack) = Front(stack)
  BY DEF LikedBy!Front, Front
<1>3. CASE LikedBy!ClosePage
  <2>1. LikedBy!OnTop("page") /\ stack' = Front(stack) /\ left' = left
    BY <1>3, <1>f DEF LikedBy!ClosePage
  <2>2. stack # << >> /\ stack[Len(stack)].kind = "page"
    BY <1>a, <2>1, TopFacts
  <2>3. ~twice /\ ~left => Len(calls) = 0
    BY <1>a, <2>2, OneCall
  <2>. QED  BY <1>d, <1>e, <2>1, <2>2, <2>3
<1>4. CASE LikedBy!CloseDialog
  <2>1. LikedBy!OnTop("dialog") /\ stack' = Front(stack)
    BY <1>4, <1>f DEF LikedBy!CloseDialog
  <2>2. stack # << >> /\ stack[Len(stack)].kind = "dialog"
    BY <1>a, <2>1, TopFacts
  <2>3. /\ left' \in BOOLEAN /\ (left => left')
        /\ ~left' => LikedBy!CallsFor(LikedBy!Last(stack).user) = {}
    BY <1>4, <1>d, Zenon DEF LikedBy!CloseDialog
  <2>4. ~twice /\ ~left' => Len(calls) = 0
    <3>. SUFFICES ASSUME ~twice, ~left', Len(calls) # 0
                  PROVE  FALSE
      OBVIOUS
    <3>1. Stays(calls, stack, shrunk)
      BY <1>a, <2>3
    <3>2. 1 \in DOMAIN calls /\ stack[Len(stack)].user = calls[1].user
      BY <1>a, <3>1, OneCall
    <3>3. 1 \in LikedBy!CallsFor(LikedBy!Last(stack).user)
      BY <1>a, <3>2, TopFacts DEF LikedBy!CallsFor
    <3>. QED  BY <2>3, <3>3
  <2>. QED  BY <1>e, <2>1, <2>2, <2>3, <2>4
<1>. QED  BY <1>1, <1>2, <1>3, <1>4

LEMMA SwipeStep == LikedByInv /\ LikedBy!SwipeRight => LikedByInv'
<1>. SUFFICES ASSUME LikedByInv, LikedBy!SwipeRight
              PROVE  LikedByInv'
  OBVIOUS
<1>. DEFINE n == Len(stack)
            d == stack[n]
            c == [user |-> d.user, tile |-> d.tile, liking |-> FALSE]
<1>a. /\ LikedByTyped /\ TilesKnown(Cardinality(grid), calls, stack, shrunk)
      /\ calls \in Seq(LikedBy!Calls) /\ stack \in Seq(Routes)
      /\ Len(calls) \in Nat
      /\ DOMAIN calls = 1 .. Len(calls) /\ DOMAIN stack = 1 .. n /\ n \in Nat
      /\ ~twice /\ ~left => Stays(calls, stack, shrunk)
  BY SeqFacts DEF LikedByInv, LikedByTyped
<1>b. LikedBy!OnTop("dialog") /\ LikedBy!Last(stack) = d /\ MaxCalls \in Nat
  BY <1>a, TopFacts, BoundsAssumption DEF LikedBy!SwipeRight
<1>1. n \in DOMAIN stack /\ d \in LikedBy!Dialogs /\ d.kind = "dialog"
  <2>1. n \in DOMAIN stack /\ d.kind = "dialog" /\ d \in Routes
    BY <1>a, <1>b, TopFacts
  <2>. QED  BY <2>1, RouteFacts
<1>2. /\ Len(calls) < MaxCalls /\ calls' = Append(calls, c)
      /\ stack' = [stack EXCEPT ![n].pressed = TRUE]
      /\ UNCHANGED <<likes, open, grid, left, shrunk, silent>>
  BY <1>b DEF LikedBy!SwipeRight
<1>3. twice' \in BOOLEAN /\ (~twice' => ~twice /\ LikedBy!CallsFor(d.user) = {})
  BY <1>a, <1>b, Zenon DEF LikedBy!SwipeRight, LikedByTyped
<1>4. c \in LikedBy!Calls /\ c.user = d.user /\ c.tile = d.tile
  BY <1>1, TileFacts DEF LikedBy!Dialogs, LikedBy!Calls
<1>. HIDE DEF c
<1>5. /\ calls' \in Seq(LikedBy!Calls) /\ Len(calls') = Len(calls) + 1
      /\ DOMAIN calls' = 1 .. Len(calls) + 1
      /\ \A i \in 1 .. Len(calls) : calls'[i] = calls[i]
      /\ calls'[Len(calls) + 1] = c
  BY <1>a, <1>2, <1>4, AppendFacts
<1>6. [d EXCEPT !.pressed = TRUE] \in LikedBy!Dialogs
  BY <1>1 DEF LikedBy!Dialogs
<1>7. /\ stack'[n] \in LikedBy!Dialogs /\ stack'[n].kind = "dialog"
      /\ stack'[n].user = d.user /\ stack'[n].tile = d.tile
      /\ \A i \in DOMAIN stack : i # n => stack'[i] = stack[i]
      /\ DOMAIN stack' = DOMAIN stack
  BY <1>1, <1>2, <1>6 DEF LikedBy!Dialogs
<1>8. stack' \in Seq(Routes) /\ Len(stack') = n
  <2>1. \A i \in DOMAIN stack : stack'[i] \in Routes
    BY <1>a, <1>7, RouteFacts, SeqFacts
  <2>2. stack' \in [1 .. n -> Routes]
    BY <1>a, <1>2, <1>7, <2>1
  <2>. QED  BY <1>a, <2>2, SeqDef
<1>9. LikedByTyped'
  BY <1>a, <1>b, <1>2, <1>3, <1>5, <1>8 DEF LikedByTyped
<1>10. TilesKnown(Cardinality(grid), calls', stack', shrunk)
  <2>1. d.tile <= Cardinality(grid) /\ (d.tile = 0 => shrunk)
    BY <1>a, <1>1 DEF TilesKnown
  <2>2. ASSUME NEW i \in DOMAIN calls'
        PROVE  calls'[i].tile <= Cardinality(grid) /\ (calls'[i].tile = 0 => shrunk)
    <3>1. i = Len(calls) + 1 \/ i \in 1 .. Len(calls)
      BY <1>a, <1>5
    <3>. QED  BY <1>a, <1>4, <1>5, <2>1, <3>1 DEF TilesKnown
  <2>3. ASSUME NEW i \in DOMAIN stack', stack'[i].kind = "dialog"
        PROVE  stack'[i].tile <= Cardinality(grid) /\ (stack'[i].tile = 0 => shrunk)
    BY <1>a, <1>7, <2>1, <2>3 DEF TilesKnown
  <2>. QED  BY <2>2, <2>3 DEF TilesKnown
<1>11. ASSUME ~twice', ~left  PROVE Stays(calls', stack', shrunk)
  <2>1. Stays(calls, stack, shrunk) /\ LikedBy!CallsFor(d.user) = {}
    BY <1>a, <1>3, <1>11
  <2>2. Len(calls) = 0
    <3>1. 1 \in DOMAIN calls => calls[1].user # d.user
      BY <2>1 DEF LikedBy!CallsFor
    <3>. QED  BY <1>a, <2>1, <3>1, OneCall
  <2>3. Len(calls') = 1 /\ calls'[1] = c
    BY <1>5, <2>2
  <2>4. n >= 1 /\ n # 1
    BY <1>1, <2>1, RouteFacts DEF Stays
  <2>5. stack'[1] = LikedBy!Home
    BY <1>a, <1>7, <2>1, <2>4 DEF Stays
  <2>6. ASSUME NEW i \in 1 .. Len(stack') - 1  PROVE stack'[i].kind # "dialog"
    <3>a. n \in Nat /\ Len(stack') = n /\ DOMAIN stack = 1 .. n
      BY <1>a, <1>8
    <3>. HIDE DEF n
    <3>1. i \in 1 .. n - 1 /\ i \in DOMAIN stack /\ i # n
      BY <3>a
    <3>. QED  BY <1>7, <2>1, <3>1 DEF Stays, n
  <2>. QED  BY <1>4, <1>7, <1>8, <2>3, <2>4, <2>5, <2>6 DEF Stays
<1>. QED  BY <1>2, <1>3, <1>9, <1>10, <1>11 DEF LikedByInv

LEMMA AnsweredStep ==
    ASSUME LikedByInv, NEW i \in DOMAIN calls, NEW flag \in BOOLEAN,
           LikedBy!Answered(i, flag), likes' \subseteq likes
    PROVE  LikedByInv'
<1>. DEFINE rest == LikedBy!RemoveAt(calls, i)
            n == Cardinality(grid)
<1>a. /\ LikedByTyped /\ TilesKnown(n, calls, stack, shrunk) /\ n \in Nat
      /\ calls \in Seq(LikedBy!Calls) /\ stack \in Seq(Routes)
      /\ Len(calls) \in Nat /\ DOMAIN calls = 1 .. Len(calls)
      /\ ~twice /\ ~left => Stays(calls, stack, shrunk)
      /\ silent \in BOOLEAN /\ (silent => shrunk)
  BY GridFacts, SeqFacts DEF LikedByInv, LikedByTyped
<1>b. MaxCalls \in Nat
  BY BoundsAssumption
<1>1. UNCHANGED <<twice, left>>
  BY DEF LikedBy!Answered
<1>2. silent' \in BOOLEAN /\ (silent' => silent \/ calls[i].tile = 0)
  BY <1>a, Zenon DEF LikedBy!Answered, LikedBy!Announced
<1>3. rest = RemoveAt(calls, i)
  BY DEF LikedBy!RemoveAt, RemoveAt
<1>4. /\ rest \in Seq(LikedBy!Calls) /\ Len(rest) = Len(calls) - 1
      /\ \A j \in 1 .. Len(calls) - 1 : rest[j] = IF j < i THEN calls[j] ELSE calls[j + 1]
  <2>1. i \in 1 .. Len(calls) /\ calls \in Seq(LikedBy!Calls)
    BY <1>a
  <2>2. /\ RemoveAt(calls, i) \in Seq(LikedBy!Calls) /\ Len(RemoveAt(calls, i)) = Len(calls) - 1
        /\ \A j \in 1 .. Len(calls) - 1 :
              RemoveAt(calls, i)[j] = IF j < i THEN calls[j] ELSE calls[j + 1]
    BY <2>1, RemoveAtFacts
  <2>. HIDE DEF rest
  <2>. QED  BY <1>3, <2>2
<1>c. \/ calls[i].tile # 0 /\ Len(stack) > 1 /\ calls' = rest
         /\ stack' = LikedBy!Front(stack) /\ UNCHANGED <<open, grid, shrunk>>
      \/ calls[i].tile # 0 /\ Len(stack) = 1 /\ LikedBy!Lost(0, rest, << >>)
         /\ grid' = {} /\ open' \in BOOLEAN
      \/ calls[i].tile = 0 /\ calls' = rest /\ UNCHANGED <<open, grid, stack, shrunk>>
  BY Zenon DEF LikedBy!Answered, LikedBy!Popped
<1>. HIDE DEF rest
<1>5. ASSUME NEW st, TilesKnown(n, calls, st, shrunk)
      PROVE  TilesKnown(n, rest, st, shrunk)
  <2>1. \A j \in DOMAIN rest : \E k \in DOMAIN calls : rest[j] = calls[k]
    <3>. SUFFICES ASSUME NEW j \in DOMAIN rest
                  PROVE  \E k \in DOMAIN calls : rest[j] = calls[k]
      OBVIOUS
    <3>1. j \in 1 .. Len(calls) - 1
      BY <1>4, SeqFacts
    <3>2. j \in DOMAIN calls /\ j + 1 \in DOMAIN calls
      BY <1>a, <3>1
    <3>. QED  BY <1>4, <3>1, <3>2
  <2>. QED  BY <1>5, <2>1 DEF TilesKnown
<1>6. ~twice /\ ~left => /\ Stays(calls, stack, shrunk) /\ Len(rest) = 0
                         /\ stack[Len(stack)].kind = "dialog"
  <2>. SUFFICES ASSUME ~twice, ~left
                PROVE  /\ Stays(calls, stack, shrunk) /\ Len(rest) = 0
                       /\ stack[Len(stack)].kind = "dialog"
    OBVIOUS
  <2>1. Stays(calls, stack, shrunk) /\ Len(calls) # 0
    BY <1>a
  <2>2. Len(calls) = 1 /\ stack[Len(stack)].kind = "dialog"
    BY <1>a, <2>1, OneCall
  <2>. QED  BY <1>4, <2>1, <2>2
<1>7. ASSUME calls[i].tile # 0, Len(stack) > 1, calls' = rest,
             stack' = LikedBy!Front(stack), UNCHANGED <<open, grid, shrunk>>
      PROVE  LikedByInv'
  <2>1. stack' = Front(stack) /\ stack # << >>
    BY <1>a, <1>7 DEF LikedBy!Front, Front
  <2>2. /\ stack' \in Seq(Routes)
        /\ TilesKnown(n, rest, stack', shrunk)
        /\ Stays(calls, stack, shrunk) /\ Len(rest) = 0 /\ stack[Len(stack)].kind # "home"
           => Stays(rest, stack', shrunk)
    BY <1>a, <1>4, <1>5, <2>1, RoutePopped
  <2>3. LikedByTyped'
    BY <1>a, <1>b, <1>1, <1>2, <1>4, <1>7, <2>2 DEF LikedByTyped
  <2>. QED  BY <1>a, <1>1, <1>2, <1>6, <1>7, <2>2, <2>3 DEF LikedByInv
<1>8. ASSUME calls[i].tile # 0, Len(stack) = 1, LikedBy!Lost(0, rest, << >>),
             grid' = {}, open' \in BOOLEAN
      PROVE  LikedByInv'
  <2>1. TilesKnown(n, rest, << >>, shrunk) /\ << >> \in Seq(Routes) /\ shrunk \in BOOLEAN
    <3>1. TilesKnown(n, calls, << >>, shrunk)
      BY <1>a DEF TilesKnown
    <3>. QED  BY <1>a, <1>5, <3>1 DEF LikedByTyped
  <2>2. /\ calls' \in Seq(LikedBy!Calls) /\ Len(calls') = Len(rest)
        /\ stack' \in Seq(Routes)
        /\ shrunk' \in BOOLEAN /\ (shrunk => shrunk')
        /\ TilesKnown(0, calls', stack', shrunk')
    <3>1. rest \in Seq(LikedBy!Calls) /\ 0 \in Nat
      BY <1>4
    <3>. DEFINE st == << >>
    <3>2. TilesKnown(n, rest, st, shrunk) /\ st \in Seq(Routes) /\ LikedBy!Lost(0, rest, st)
      BY <1>8, <2>1
    <3>. HIDE DEF st, n
    <3>. QED  BY <2>1, <3>1, <3>2, LostKeeps
  <2>3. Cardinality(grid') = 0
    BY <1>8, FS_EmptySet
  <2>4. LikedByTyped'
    BY <1>a, <1>b, <1>1, <1>2, <1>4, <1>8, <2>2 DEF LikedByTyped
  <2>5. twice \/ left
    BY <1>6, <1>8, RouteFacts DEF Stays
  <2>. QED  BY <1>a, <1>1, <1>2, <1>8, <2>2, <2>3, <2>4, <2>5 DEF LikedByInv
<1>9. ASSUME calls[i].tile = 0, calls' = rest, UNCHANGED <<open, grid, stack, shrunk>>
      PROVE  LikedByInv'
  <2>1. shrunk
    BY <1>a, <1>9 DEF TilesKnown
  <2>2. LikedByTyped'
    BY <1>a, <1>b, <1>1, <1>2, <1>4, <1>9 DEF LikedByTyped
  <2>3. ~twice /\ ~left => Stays(rest, stack, shrunk)
    BY <1>6, <2>1 DEF Stays
  <2>. QED  BY <1>a, <1>1, <1>5, <1>9, <2>1, <2>2, <2>3 DEF LikedByInv
<1>. QED  BY <1>c, <1>7, <1>8, <1>9

LEMMA LikeStep == ASSUME LikedByInv, NEW i \in DOMAIN calls, LikedBy!Like(i)
                  PROVE  LikedByInv'
<1>1. /\ calls' = [calls EXCEPT ![i].liking = TRUE]
      /\ UNCHANGED <<likes, open, grid, stack, twice, left, shrunk, silent>>
  BY DEF LikedBy!Like
<1>2. /\ calls \in Seq(LikedBy!Calls) /\ Len(calls) \in Nat /\ DOMAIN calls = 1 .. Len(calls)
      /\ \A j \in DOMAIN calls : calls[j] \in LikedBy!Calls
  BY SeqFacts DEF LikedByInv, LikedByTyped
<1>3. \A j \in DOMAIN calls : /\ calls'[j] \in LikedBy!Calls
                              /\ calls'[j].user = calls[j].user /\ calls'[j].tile = calls[j].tile
  BY <1>1, <1>2 DEF LikedBy!Calls
<1>4. calls' \in Seq(LikedBy!Calls) /\ Len(calls') = Len(calls) /\ DOMAIN calls' = DOMAIN calls
  <2>1. calls' \in [1 .. Len(calls) -> LikedBy!Calls]
    BY <1>1, <1>2, <1>3
  <2>. QED  BY <1>2, <2>1, SeqDef
<1>5. LikedByTyped'
  BY <1>1, <1>4 DEF LikedByInv, LikedByTyped
<1>6. TilesKnown(Cardinality(grid), calls', stack, shrunk)
  BY <1>3, <1>4 DEF LikedByInv, TilesKnown
<1>7. ASSUME Stays(calls, stack, shrunk)  PROVE Stays(calls', stack, shrunk)
  <2>1. 1 \in DOMAIN calls
    BY <1>2
  <2>. QED  BY <1>3, <1>4, <1>7, <2>1 DEF Stays
<1>. QED  BY <1>1, <1>5, <1>6, <1>7 DEF LikedByInv

LEMMA LikedByStep == LikedByInv /\ [Next]_vars => LikedByInv'
<1>. SUFFICES ASSUME LikedByInv, [Next]_vars
              PROVE  LikedByInv'
  OBVIOUS
<1>a. LikedByTyped
  BY DEF LikedByInv
<1>1. CASE UNCHANGED likedByVars
  BY <1>1 DEF likedByVars, LikedByInv, LikedByTyped
<1>2. CASE LikedBy!LikesChange
  <2>1. /\ likes' \subseteq Likers
        /\ UNCHANGED <<open, grid, stack, calls, twice, left, shrunk, silent>>
    BY <1>2 DEF LikedBy!LikesChange
  <2>. QED  BY <2>1 DEF LikedByInv, LikedByTyped
<1>3. ASSUME NEW i \in DOMAIN calls, LikedBy!Match(i)
      PROVE  LikedByInv'
  BY <1>3, AnsweredStep DEF LikedBy!Match
<1>4. ASSUME NEW i \in DOMAIN calls, LikedBy!Liked(i)
      PROVE  LikedByInv'
  BY <1>4, AnsweredStep DEF LikedBy!Liked
<1>5. CASE LikedBy!Kill
  <2>1. /\ grid' = {} /\ stack' = <<LikedBy!Home>> /\ calls' = << >>
        /\ UNCHANGED <<likes, twice, left, shrunk, silent>>
    BY <1>5 DEF LikedBy!Kill
  <2>2. open' \in BOOLEAN
    BY <1>5, Zenon DEF LikedBy!Kill
  <2>3. /\ stack' \in Seq(Routes) /\ Len(stack') = 1 /\ DOMAIN stack' = 1 .. 1
        /\ stack'[1] = LikedBy!Home /\ stack'[1].kind = "home"
    BY <2>1, RouteFacts
  <2>4. calls' \in Seq(LikedBy!Calls) /\ Len(calls') = 0 /\ DOMAIN calls' = {} /\ MaxCalls \in Nat
    BY <2>1, BoundsAssumption
  <2>5. LikedByTyped'
    BY <1>a, <2>1, <2>2, <2>3, <2>4 DEF LikedByTyped
  <2>6. \A i \in DOMAIN stack' : stack'[i].kind # "dialog"
    BY <2>3
  <2>7. TilesKnown(Cardinality(grid'), calls', stack', shrunk')
    BY <2>4, <2>6 DEF TilesKnown
  <2>8. Stays(calls', stack', shrunk')
    BY <2>3, <2>4 DEF Stays
  <2>. QED  BY <2>1, <2>5, <2>7, <2>8 DEF LikedByInv
<1>6. CASE LikedBy!Next
  BY <1>2, <1>3, <1>4, <1>5, <1>6, GridStep, RouteStep, SwipeStep, LikeStep DEF LikedBy!Next
<1>. QED
  BY <1>1, <1>6 DEF Next, vars, LikedByMoves,
                    SheetMoves, LanguagesMove, FiltersMove, DialogsMove, SyncMoves

(***************************************************************************)
(* An answer to a swipe closes the dialog it was made on and no other      *)
(* route, unless the button was pressed twice or a dialog was left with a  *)
(* call under way: for any likers, calls and pages                         *)
(* (page_liked_by_people.dart:162-168).                                    *)
(***************************************************************************)
THEOREM HomeIsNotPopped == Spec => []HomeStays
<1>1. ASSUME LikedByInv  PROVE HomeStays
  <2>. SUFFICES ASSUME ~twice, ~left
                PROVE  /\ LikedBy!AtHome /\ stack[1] = LikedBy!Home
                       /\ \A i \in DOMAIN calls :
                             LikedBy!OnTop("dialog") /\ LikedBy!Last(stack).user = calls[i].user
                       /\ LikedBy!OnTop("dialog") /\ LikedBy!Last(stack).pressed
                          => calls # << >> \/ shrunk
    BY DEF HomeStays, LikedBy!HomeStays
  <2>1. LikedByTyped /\ Stays(calls, stack, shrunk)
    BY <1>1 DEF LikedByInv
  <2>2. /\ calls \in Seq(LikedBy!Calls) /\ stack \in Seq(Routes)
        /\ Len(calls) \in Nat /\ DOMAIN calls = 1 .. Len(calls)
    BY <2>1, SeqFacts DEF LikedByTyped
  <2>3. stack # << >> /\ stack[1] = LikedBy!Home
    BY <2>1, <2>2 DEF Stays
  <2>4. ASSUME NEW i \in DOMAIN calls
        PROVE  LikedBy!OnTop("dialog") /\ LikedBy!Last(stack).user = calls[i].user
    <3>1. Len(calls) = 1 /\ stack[Len(stack)].kind = "dialog"
          /\ stack[Len(stack)].user = calls[1].user
      <4>1. Len(calls) # 0
        BY <2>2
      <4>. QED  BY <2>1, <2>2, <4>1, OneCall
    <3>2. i = 1
      BY <2>2, <3>1
    <3>. QED  BY <2>1, <2>3, <3>1, <3>2, TopFacts
  <2>5. ASSUME LikedBy!OnTop("dialog"), LikedBy!Last(stack).pressed
        PROVE  calls # << >> \/ shrunk
    <3>1. stack[Len(stack)].kind = "dialog" /\ stack[Len(stack)].pressed
      BY <2>1, <2>5, TopFacts
    <3>2. Len(calls) = 1 \/ shrunk
      BY <2>1, <3>1 DEF Stays
    <3>. QED  BY <3>2
  <2>. QED  BY <2>3, <2>4, <2>5 DEF LikedBy!AtHome
<1>. QED  BY LikedByInit, LikedByStep, <1>1, PTL DEF Spec

(***************************************************************************)
(* A match made on the page of likers is announced, unless its tile had    *)
(* gone by then: for any likers and calls                                  *)
(* (page_liked_by_people.dart:168-170).                                    *)
(***************************************************************************)
THEOREM MatchesAreAnnounced == Spec => []MatchesAnnounced
<1>1. LikedByInv => MatchesAnnounced
  BY DEF LikedByInv, MatchesAnnounced, LikedBy!MatchesAnnounced
<1>. QED  BY LikedByInit, LikedByStep, <1>1, PTL DEF Spec

-----------------------------------------------------------------------------
(* The types of all the parts *)

\* Nothing but a name: the parts do not need each other.
HomeInv ==
    /\ part \in Parts /\ HeightInv
    /\ LanguagesInv /\ FilterInv /\ LikedByInv /\ DialogsInv /\ SyncInv

LEMMA PartTypesInit == Init => part \in Parts
BY DEF Init

LEMMA PartTypesStep == part \in Parts /\ [Next]_vars => part' \in Parts
BY DEF Next, vars, SheetMoves, LanguagesMove, FiltersMove, LikedByMoves, DialogsMove, SyncMoves

(***************************************************************************)
(* Every part keeps its types and its bounds, among them: a picker and a   *)
(* timer only of what is open, no tile beyond those of the grid.           *)
(***************************************************************************)
THEOREM HomeTypes == Spec => []TypeOK
<1>1. LanguagesInv => Languages!TypeOK
  BY DEF LanguagesInv, Languages!TypeOK
<1>2. FilterInv => Filters!TypeOK
  BY DEF FilterInv
<1>3. ASSUME LikedByInv  PROVE LikedBy!TypeOK
  <2>1. /\ LikedByTyped /\ TilesKnown(Cardinality(grid), calls, stack, shrunk)
        /\ LikedBy!Cardinality(grid) = Cardinality(grid)
    BY <1>3, GridFacts DEF LikedByInv, LikedByTyped
  <2>2. \A i \in DOMAIN calls : calls[i].tile <= LikedBy!Cardinality(grid)
    BY <2>1 DEF TilesKnown
  <2>3. {open, twice, left, shrunk, silent} \subseteq BOOLEAN
    BY <2>1, Zenon DEF LikedByTyped
  <2>. QED  BY <2>1, <2>2, <2>3 DEF LikedBy!TypeOK, LikedByTyped, Routes
<1>4. ASSUME DialogsInv  PROVE Dialogs!TypeOK
  <2>1. DialogsTyped /\ MaxPending \in Nat
    BY <1>4, BoundsAssumption DEF DialogsInv
  <2>2. {online, connection, streaming, listening, location, timing, missed,
         failedAgain} \subseteq BOOLEAN
    BY <2>1, Zenon DEF DialogsTyped
  <2>3. /\ checks \in 0 .. MaxPending /\ asked \in 0 .. MaxPending
        /\ statuses + strays \in 0 .. MaxPending
    BY <2>1 DEF DialogsTyped
  <2>. QED  BY <2>1, <2>2, <2>3 DEF DialogsTyped, Dialogs!TypeOK
<1>5. ASSUME SyncInv  PROVE Sync!TypeOK
  <2>1. SyncTyped /\ MaxSaves \in Nat
    BY <1>5, BoundsAssumption DEF SyncInv
  <2>2. saves \in 0 .. MaxSaves
    BY <2>1 DEF SyncTyped
  <2>. QED  BY <2>1, <2>2 DEF SyncTyped, Sync!TypeOK
<1>6. HomeInv => TypeOK
  BY <1>1, <1>2, <1>3, <1>4, <1>5 DEF HomeInv, HeightInv, TypeOK
<1>7. Init => HomeInv
  BY PartTypesInit, HeightInit, LanguagesInit, FilterInit, LikedByInit, DialogsInit,
     SyncInit DEF HomeInv
<1>8. HomeInv /\ [Next]_vars => HomeInv'
  BY PartTypesStep, HeightStep, LanguagesStep, FilterStep, LikedByStep, DialogsStep,
     SyncStep DEF HomeInv
<1>. QED  BY <1>6, <1>7, <1>8, PTL DEF Spec

=============================================================================
