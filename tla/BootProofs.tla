----------------------------- MODULE BootProofs -----------------------------
(***************************************************************************)
(* What holds of the setup for every number of modes, all their sizes and  *)
(* whichever calls of the firmware fail.                                   *)
(***************************************************************************)
EXTENDS Boot, SequenceTheorems, TLAPS

Answer == Sizes \cup {Failed}

(* The answers of a search are a sequence of at most as many as there are  *)
(* modes, and what else a search knows has its type.                       *)
LEMMA SearchTypes ==
    ASSUME NEW modes \in Nat, NEW s \in Search(modes)
    PROVE  /\ s.answers \in Seq(Answer) /\ Len(s.answers) \in 0 .. modes
           /\ DOMAIN s.answers = 1 .. Len(s.answers)
           /\ s.best \in Nat /\ s.bestmode \in 0 .. modes
           /\ s.size \in Sizes \cup {0} /\ s.current \in 0 .. modes
           /\ s.changed \in BOOLEAN
<1>1. PICK n \in 0 .. modes : s.answers \in [1 .. n -> Answer]
  BY DEF Search, Answer
<1>2. s.answers \in Seq(Answer) /\ Len(s.answers) = n
  BY <1>1
<1> QED
  BY <1>1, <1>2 DEF Search

(* Conversely, such a sequence is what a search has for its answers. *)
LEMMA IsAnswers ==
    ASSUME NEW modes \in Nat, NEW answers \in Seq(Answer), Len(answers) <= modes
    PROVE  answers \in UNION {[1 .. n -> Sizes \cup {Failed}] : n \in 0 .. modes}
<1>1. Len(answers) \in 0 .. modes /\ answers \in [1 .. Len(answers) -> Answer]
  OBVIOUS
<1> QED
  BY <1>1 DEF Answer

LEMMA NoSearchType ==
    ASSUME NEW modes \in Nat
    PROVE  NoSearch \in Search(modes)
<1>1. <<>> \in Seq(Answer) /\ Len(<<>>) <= modes
  OBVIOUS
<1>2. <<>> \in UNION {[1 .. n -> Sizes \cup {Failed}] : n \in 0 .. modes}
  BY <1>1, IsAnswers
<1>3. 0 \in 0 .. modes
  OBVIOUS
<1> QED
  BY <1>2, <1>3 DEF NoSearch, Search

(* One round of a search, field by field. *)
LEMMA QueriedFields ==
    ASSUME NEW modes \in Nat, NEW s \in Search(modes), Len(s.answers) < modes,
           NEW answer \in Answer, NEW area \in Nat
    PROVE  LET q == Queried(s, answer, area)
               n == Len(s.answers)
           IN  /\ q \in Search(modes)
               /\ Len(q.answers) = n + 1
               /\ \A m \in 1 .. n : q.answers[m] = s.answers[m]
               /\ q.answers[n + 1] = answer
               /\ q.current = s.current /\ q.changed = s.changed
               /\ IF answer # Failed /\ area > s.best
                  THEN q.best = area /\ q.size = answer /\ q.bestmode = n + 1
                  ELSE q.best = s.best /\ q.size = s.size /\ q.bestmode = s.bestmode
<1> DEFINE n == Len(s.answers)
           answers == Append(s.answers, answer)
<1>1. /\ s.answers \in Seq(Answer) /\ n \in Nat /\ n < modes
      /\ s.best \in Nat /\ s.bestmode \in 0 .. modes /\ s.size \in Sizes \cup {0}
      /\ s.current \in 0 .. modes /\ s.changed \in BOOLEAN
  BY SearchTypes
<1>2. /\ answers \in Seq(Answer) /\ Len(answers) = n + 1
      /\ \A m \in 1 .. n : answers[m] = s.answers[m]
      /\ answers[n + 1] = answer
  BY <1>1
<1>3. s = [answers |-> s.answers, best |-> s.best, bestmode |-> s.bestmode,
           size |-> s.size, current |-> s.current, changed |-> s.changed]
  BY DEF Search
<1>4. CASE answer # Failed /\ area > s.best
  <2>1. Queried(s, answer, area) =
          [answers |-> answers, best |-> area, bestmode |-> n + 1, size |-> answer,
           current |-> s.current, changed |-> s.changed]
    BY <1>2, <1>3, <1>4 DEF Queried
  <2>2. answer \in Sizes \cup {0} /\ n + 1 \in 0 .. modes
    BY <1>1 DEF Answer, Failed
  <2>3. Queried(s, answer, area) \in Search(modes)
    <3> HIDE DEF answers, n
    <3>2. n + 1 \in 0 .. modes /\ answer \in Sizes \cup {0} /\ area \in Nat
      BY <2>2 DEF n
    <3>1. Len(answers) <= modes /\ answers \in Seq(Answer)
      BY <1>1, <1>2
    <3> DEFINE A == UNION {[1 .. i -> Sizes \cup {Failed}] : i \in 0 .. modes}
    <3>3. answers \in A
      BY <3>1, IsAnswers
    <3>4. Search(modes) = [answers: A, best: Nat, bestmode: 0 .. modes,
                           size: Sizes \cup {0}, current: 0 .. modes, changed: BOOLEAN]
      BY DEF Search
    <3> HIDE DEF A
    <3> QED
      BY <1>1, <2>1, <3>2, <3>3, <3>4
  <2> QED
    BY <1>2, <1>4, <2>1, <2>3
<1>5. CASE ~(answer # Failed /\ area > s.best)
  <2>1. Queried(s, answer, area) =
          [answers |-> answers, best |-> s.best, bestmode |-> s.bestmode,
           size |-> s.size, current |-> s.current, changed |-> s.changed]
    BY <1>3, <1>5 DEF Queried
  <2>2. Queried(s, answer, area) \in Search(modes)
    <3> HIDE DEF answers, n
    <3>1. Len(answers) <= modes /\ answers \in Seq(Answer)
      BY <1>1, <1>2
    <3> DEFINE A == UNION {[1 .. i -> Sizes \cup {Failed}] : i \in 0 .. modes}
    <3>3. answers \in A
      BY <3>1, IsAnswers
    <3>4. Search(modes) = [answers: A, best: Nat, bestmode: 0 .. modes,
                           size: Sizes \cup {0}, current: 0 .. modes, changed: BOOLEAN]
      BY DEF Search
    <3> HIDE DEF A
    <3> QED
      BY <1>1, <2>1, <3>3, <3>4
  <2> QED
    BY <1>2, <1>5, <2>1, <2>2
<1> QED
  BY <1>4, <1>5

(* What a search has found among the areas it has computed: the first of   *)
(* the largest, or nothing; and that is what is set first.                 *)
Finds(s, area) ==
    /\ area \in [1 .. Len(s.answers) -> Nat]
    /\ s.bestmode = 0 => s.best = 0 /\ \A m \in 1 .. Len(s.answers) : area[m] = 0
    /\ s.bestmode # 0 =>
           /\ s.bestmode \in 1 .. Len(s.answers)
           /\ s.best = area[s.bestmode] /\ s.best > 0
           /\ s.size = s.answers[s.bestmode]
           /\ \A m \in 1 .. Len(s.answers) :
                  area[m] < s.best \/ (area[m] = s.best /\ m >= s.bestmode)
    /\ s.current # 0 /\ ~s.changed /\ s.bestmode # 0 => s.current = s.bestmode

GopArea == [m \in 1 .. Len(gop.answers) |-> gop.answers[m] % Word]
TextArea == [m \in 1 .. Len(text.answers) |-> text.answers[m]]

LEMMA QueriedFinds ==
    ASSUME NEW modes \in Nat, NEW s \in Search(modes), Len(s.answers) < modes,
           NEW answer \in Answer, NEW new \in Nat, answer = Failed => new = 0,
           NEW area, Finds(s, area), s.current = 0,
           NEW q, q = Queried(s, answer, new),
           NEW larger \in [1 .. Len(s.answers) + 1 -> Nat],
           \A m \in 1 .. Len(s.answers) : larger[m] = area[m],
           larger[Len(s.answers) + 1] = new
    PROVE  Finds(q, larger)
<1> DEFINE n == Len(s.answers)
<1>1. /\ n \in Nat /\ s.best \in Nat /\ s.bestmode \in 0 .. modes
  BY SearchTypes
<1>2. /\ Len(q.answers) = n + 1 /\ \A m \in 1 .. n : q.answers[m] = s.answers[m]
      /\ q.answers[n + 1] = answer /\ q.current = 0
      /\ IF answer # Failed /\ new > s.best
         THEN q.best = new /\ q.size = answer /\ q.bestmode = n + 1
         ELSE q.best = s.best /\ q.size = s.size /\ q.bestmode = s.bestmode
  BY QueriedFields
<1>3. \A m \in 1 .. n + 1 : m \in 1 .. n \/ m = n + 1
  BY <1>1
<1>4. \A m \in 1 .. n : area[m] \in Nat /\ larger[m] = area[m] /\ area[m] <= s.best
  BY <1>1 DEF Finds
<1> HIDE DEF n
<1>5. /\ larger \in [1 .. n + 1 -> Nat] /\ larger[n + 1] = new
  BY DEF n
<1>6. CASE answer # Failed /\ new > s.best
  <2>1. q.best = new /\ q.size = answer /\ q.bestmode = n + 1 /\ n + 1 # 0
    BY <1>1, <1>2, <1>6
  <2>2. ASSUME NEW m \in 1 .. n + 1
        PROVE  larger[m] < new \/ (larger[m] = new /\ m >= n + 1)
    <3>1. CASE m \in 1 .. n
      BY <1>1, <1>4, <1>6, <3>1
    <3>2. CASE m = n + 1
      BY <1>1, <1>5, <3>2
    <3> QED
      BY <1>3, <3>1, <3>2
  <2> QED
    BY <1>1, <1>2, <1>5, <1>6, <2>1, <2>2 DEF Finds
<1>7. CASE ~(answer # Failed /\ new > s.best)
  <2>1. q.best = s.best /\ q.size = s.size /\ q.bestmode = s.bestmode /\ new <= s.best
    BY <1>1, <1>2, <1>7
  <2>2. CASE s.bestmode = 0
    <3>1. s.best = 0 /\ \A m \in 1 .. n : area[m] = 0
      BY <2>2 DEF Finds, n
    <3>2. \A m \in 1 .. n + 1 : larger[m] = 0
      BY <1>3, <1>4, <1>5, <2>1, <3>1
    <3> QED
      BY <1>2, <1>5, <2>1, <2>2, <3>1, <3>2 DEF Finds
  <2>3. CASE s.bestmode # 0
    <3>1. /\ s.bestmode \in 1 .. n /\ s.best = area[s.bestmode] /\ s.best > 0
          /\ s.size = s.answers[s.bestmode]
          /\ \A m \in 1 .. n :
                 area[m] < s.best \/ (area[m] = s.best /\ m >= s.bestmode)
      BY <2>3 DEF Finds, n
    <3>2. ASSUME NEW m \in 1 .. n + 1
          PROVE  larger[m] < s.best \/ (larger[m] = s.best /\ m >= s.bestmode)
      <4>1. CASE m \in 1 .. n
        BY <1>4, <3>1, <4>1
      <4>2. CASE m = n + 1
        <5>1. larger[m] = new /\ new \in Nat /\ new <= s.best /\ m >= s.bestmode
          BY <1>1, <1>5, <2>1, <3>1, <4>2
        <5> QED
          BY <1>1, <5>1
      <4> QED
        BY <1>3, <4>1, <4>2
    <3>3. /\ s.bestmode \in 1 .. n + 1 /\ s.best = larger[s.bestmode]
          /\ s.size = q.answers[s.bestmode]
      BY <1>1, <1>2, <1>4, <3>1
    <3> QED
      BY <1>2, <1>5, <2>1, <3>1, <3>2, <3>3 DEF Finds
  <2> QED
    BY <2>2, <2>3
<1> QED
  BY <1>6, <1>7

(* A mode is set by the setup. *)
LEMMA ModeIsSet ==
    ASSUME NEW modes \in Nat, NEW s \in Search(modes), NEW mode \in 0 .. modes,
           NEW r, r = [s EXCEPT !.current = mode]
    PROVE  /\ r \in Search(modes) /\ r.current = mode /\ r.changed = s.changed
           /\ r.answers = s.answers /\ r.best = s.best /\ r.size = s.size
           /\ r.bestmode = s.bestmode
<1> DEFINE A == UNION {[1 .. i -> Sizes \cup {Failed}] : i \in 0 .. modes}
<1>1. Search(modes) = [answers: A, best: Nat, bestmode: 0 .. modes,
                       size: Sizes \cup {0}, current: 0 .. modes, changed: BOOLEAN]
  BY DEF Search
<1> HIDE DEF A
<1>2. s = [answers |-> s.answers, best |-> s.best, bestmode |-> s.bestmode,
           size |-> s.size, current |-> s.current, changed |-> s.changed]
  BY <1>1
<1>3. r = [answers |-> s.answers, best |-> s.best, bestmode |-> s.bestmode,
           size |-> s.size, current |-> mode, changed |-> s.changed]
  BY <1>2
<1>4. /\ s.answers \in A /\ s.best \in Nat /\ s.bestmode \in 0 .. modes
      /\ s.size \in Sizes \cup {0} /\ s.changed \in BOOLEAN
  BY <1>1
<1> QED
  BY <1>1, <1>3, <1>4

(* A command sets another. *)
IsChanged(r, s, modes) ==
    /\ r \in Search(modes) /\ r.current # 0 /\ r.changed
    /\ r.answers = s.answers /\ r.best = s.best /\ r.size = s.size
    /\ r.bestmode = s.bestmode

LEMMA ModeIsChanged ==
    ASSUME NEW modes \in Nat, NEW s \in Search(modes), NEW mode \in 1 .. modes,
           NEW r, r = [s EXCEPT !.current = mode, !.changed = TRUE]
    PROVE  IsChanged(r, s, modes)
<1> DEFINE A == UNION {[1 .. i -> Sizes \cup {Failed}] : i \in 0 .. modes}
<1>1. Search(modes) = [answers: A, best: Nat, bestmode: 0 .. modes,
                       size: Sizes \cup {0}, current: 0 .. modes, changed: BOOLEAN]
  BY DEF Search
<1> HIDE DEF A
<1>2. s = [answers |-> s.answers, best |-> s.best, bestmode |-> s.bestmode,
           size |-> s.size, current |-> s.current, changed |-> s.changed]
  BY <1>1
<1>3. r = [answers |-> s.answers, best |-> s.best, bestmode |-> s.bestmode,
           size |-> s.size, current |-> mode, changed |-> TRUE]
  BY <1>2
<1>4. /\ s.answers \in A /\ s.best \in Nat /\ s.bestmode \in 0 .. modes
      /\ s.size \in Sizes \cup {0} /\ mode \in 0 .. modes
  BY <1>1
<1>5. r \in Search(modes)
  BY <1>1, <1>3, <1>4
<1>6. /\ r.current = mode /\ r.changed
      /\ r.answers = s.answers /\ r.best = s.best /\ r.size = s.size
      /\ r.bestmode = s.bestmode
  BY <1>3
<1> QED
  BY <1>5, <1>6 DEF IsChanged

LEMMA SetModeIs ==
    ASSUME NEW modes \in Nat, NEW s \in Search(modes), NEW best \in 0 .. modes,
           NEW r \in SetMode(s, best)
    PROVE  \E mode \in 1 .. modes :
               /\ r = [s EXCEPT !.current = mode]
               /\ best # 0 => mode = best
<1>1. Len(s.answers) \in 0 .. modes
  BY SearchTypes
<1>2. CASE best = 0
  <2>1. PICK mode \in 1 .. Len(s.answers) : r = [s EXCEPT !.current = mode]
    BY <1>2 DEF SetMode
  <2>2. mode \in 1 .. modes
    BY <1>1
  <2> QED
    BY <1>2, <2>1, <2>2
<1>3. CASE best # 0
  <2>1. r = [s EXCEPT !.current = best] /\ best \in 1 .. modes
    BY <1>3 DEF SetMode
  <2> QED
    BY <2>1
<1> QED
  BY <1>2, <1>3

LEMMA FindsKept ==
    ASSUME NEW s, NEW area, Finds(s, area), NEW r,
           r.answers = s.answers, r.best = s.best, r.size = s.size,
           r.bestmode = s.bestmode,
           r.current # 0 /\ ~r.changed /\ r.bestmode # 0 => r.current = r.bestmode
    PROVE  Finds(r, area)
BY DEF Finds

---------------------------------------------------------------------------
(* What the setup has found, and that it does not set a mode before.       *)
SearchInv ==
    /\ gop \in Search(GopModes)
    /\ text \in Search(TextModes)
    /\ Finds(gop, GopArea)
    /\ Finds(text, TextArea)
    /\ pc \in {"watchdog", "gop", "gopmodes"} => gop.current = 0
    /\ pc \in {"watchdog", "gop", "gopmodes", "text"} => text.current = 0

LEMMA AnswersAreNat ==
    ASSUME NEW modes \in Nat, NEW s \in Search(modes), NEW m \in 1 .. Len(s.answers)
    PROVE  s.answers[m] \in Nat
<1>1. s.answers[m] \in Answer
  BY SearchTypes
<1>2. Answer \subseteq Nat
  BY BootAssumption DEF Answer, Failed
<1> QED
  BY <1>1, <1>2

LEMMA SearchInitially == Init => SearchInv
<1> SUFFICES ASSUME Init PROVE SearchInv
  OBVIOUS
<1>1. gop = NoSearch /\ text = NoSearch
  BY DEF Init
<1>2. NoSearch \in Search(GopModes) /\ NoSearch \in Search(TextModes)
  BY NoSearchType, BootAssumption
<1>3. /\ NoSearch.answers = <<>> /\ Len(NoSearch.answers) = 0
      /\ NoSearch.bestmode = 0 /\ NoSearch.best = 0 /\ NoSearch.current = 0
  BY DEF NoSearch
<1>4. /\ GopArea \in [1 .. Len(gop.answers) -> Nat]
      /\ TextArea \in [1 .. Len(text.answers) -> Nat]
  BY <1>1, <1>3 DEF GopArea, TextArea
<1>5. Finds(gop, GopArea) /\ Finds(text, TextArea)
  BY <1>1, <1>3, <1>4 DEF Finds
<1> QED
  BY <1>1, <1>2, <1>3, <1>5 DEF SearchInv

LEMMA SameAreas ==
    /\ gop'.answers = gop.answers => GopArea' = GopArea
    /\ text'.answers = text.answers => TextArea' = TextArea
BY DEF GopArea, TextArea

LEMMA QueryGopStep ==
    ASSUME SearchInv, QueryGop
    PROVE  SearchInv'
<1>1. PICK answer \in Answer : gop' = Queried(gop, answer, answer % Word)
  BY DEF QueryGop, Answer
<1>2. /\ gop \in Search(GopModes) /\ GopModes \in Nat /\ Len(gop.answers) < GopModes
      /\ gop.current = 0 /\ Finds(gop, GopArea)
  BY BootAssumption DEF SearchInv, QueryGop
<1>3. /\ answer \in Nat /\ answer % Word \in Nat /\ Word \in Nat \ {0}
      /\ answer = Failed => answer % Word = 0
  BY BootAssumption DEF Answer, Failed
<1>4. /\ gop' \in Search(GopModes) /\ Len(gop'.answers) = Len(gop.answers) + 1
      /\ \A m \in 1 .. Len(gop.answers) : gop'.answers[m] = gop.answers[m]
      /\ gop'.answers[Len(gop.answers) + 1] = answer /\ gop'.current = 0
  BY <1>1, <1>2, <1>3, QueriedFields
<1>5. Len(gop.answers) \in Nat
  BY <1>2, SearchTypes
<1>6. \A m \in 1 .. Len(gop'.answers) : gop'.answers[m] % Word \in Nat
  <2> SUFFICES ASSUME NEW m \in 1 .. Len(gop'.answers)
               PROVE  gop'.answers[m] % Word \in Nat
    OBVIOUS
  <2>1. gop'.answers[m] \in Nat
    BY <1>2, <1>4, AnswersAreNat
  <2> QED
    BY <1>3, <2>1
<1>7. /\ GopArea' \in [1 .. Len(gop.answers) + 1 -> Nat]
      /\ \A m \in 1 .. Len(gop.answers) : GopArea'[m] = GopArea[m]
      /\ GopArea'[Len(gop.answers) + 1] = answer % Word
  <2>1. GopArea' = [m \in 1 .. Len(gop.answers) + 1 |-> gop'.answers[m] % Word]
    BY <1>4 DEF GopArea
  <2>2. \A m \in 1 .. Len(gop.answers) :
            m \in 1 .. Len(gop.answers) + 1 /\ GopArea[m] = gop.answers[m] % Word
    BY <1>5 DEF GopArea
  <2>3. Len(gop.answers) + 1 \in 1 .. Len(gop.answers) + 1
    BY <1>5
  <2>4. GopArea' \in [1 .. Len(gop.answers) + 1 -> Nat]
    BY <1>4, <1>6, <2>1
  <2> QED
    BY <1>4, <2>1, <2>2, <2>3, <2>4
<1>8. Finds(gop', GopArea')
  BY <1>1, <1>2, <1>3, <1>7, QueriedFinds
<1>9. pc' = pc /\ pc = "gopmodes" /\ text' = text /\ TextArea' = TextArea
  BY SameAreas DEF QueryGop
<1> QED
  BY <1>4, <1>8, <1>9 DEF SearchInv

LEMMA QueryTextStep ==
    ASSUME SearchInv, QueryText
    PROVE  SearchInv'
<1>1. PICK answer \in Answer : text' = Queried(text, answer, answer)
  BY DEF QueryText, Answer
<1>2. /\ text \in Search(TextModes) /\ TextModes \in Nat
      /\ Len(text.answers) < TextModes
      /\ text.current = 0 /\ Finds(text, TextArea)
  BY BootAssumption DEF SearchInv, QueryText
<1>3. answer \in Nat /\ (answer = Failed => answer = 0)
  BY BootAssumption DEF Answer, Failed
<1>4. /\ text' \in Search(TextModes) /\ Len(text'.answers) = Len(text.answers) + 1
      /\ \A m \in 1 .. Len(text.answers) : text'.answers[m] = text.answers[m]
      /\ text'.answers[Len(text.answers) + 1] = answer /\ text'.current = 0
  BY <1>1, <1>2, <1>3, QueriedFields
<1>5. Len(text.answers) \in Nat
  BY <1>2, SearchTypes
<1>6. \A m \in 1 .. Len(text'.answers) : text'.answers[m] \in Nat
  BY <1>2, <1>4, AnswersAreNat
<1>7. /\ TextArea' \in [1 .. Len(text.answers) + 1 -> Nat]
      /\ \A m \in 1 .. Len(text.answers) : TextArea'[m] = TextArea[m]
      /\ TextArea'[Len(text.answers) + 1] = answer
  BY <1>4, <1>5, <1>6 DEF TextArea
<1>8. Finds(text', TextArea')
  BY <1>1, <1>2, <1>3, <1>7, QueriedFinds
<1>9. pc' = pc /\ gop' = gop /\ GopArea' = GopArea
  BY SameAreas DEF QueryText
<1> QED
  BY <1>4, <1>8, <1>9 DEF SearchInv, QueryText

(* The setup sets the best mode, a command any. *)
LEMMA SetGopStep ==
    ASSUME SearchInv, SetGopMode \/ \E mode \in 1 .. GopModes : GopMode(mode)
    PROVE  SearchInv'
<1>1. gop \in Search(GopModes) /\ GopModes \in Nat /\ Finds(gop, GopArea)
  BY BootAssumption DEF SearchInv
<1>2. /\ text' = text /\ TextArea' = TextArea
      /\ pc' \notin {"watchdog", "gop", "gopmodes"}
      /\ pc' = "text" => pc = "gopmodes"
  BY SameAreas DEF SetGopMode, GopMode
<1>3. gop' \in Search(GopModes) /\ Finds(gop', GopArea')
  <2>1. CASE gop' = gop
    BY <1>1, <2>1, SameAreas
  <2>2. CASE gop' \in SetMode(gop, gop.bestmode)
    <3>1. PICK mode \in 1 .. GopModes :
            /\ gop' = [gop EXCEPT !.current = mode]
            /\ gop.bestmode # 0 => mode = gop.bestmode
      BY <1>1, <2>2, SearchTypes, SetModeIs
    <3>2. mode \in 0 .. GopModes
      OBVIOUS
    <3>3. /\ gop' \in Search(GopModes) /\ gop'.current = mode
          /\ gop'.answers = gop.answers /\ gop'.best = gop.best
          /\ gop'.size = gop.size /\ gop'.bestmode = gop.bestmode
      BY <1>1, <3>1, <3>2, ModeIsSet
    <3> QED
      BY <1>1, <3>1, <3>3, FindsKept, SameAreas
  <2>3. ASSUME NEW mode \in 1 .. GopModes,
               gop' = [gop EXCEPT !.current = mode, !.changed = TRUE]
        PROVE  gop' \in Search(GopModes) /\ Finds(gop', GopArea')
    <3>1. IsChanged(gop', gop, GopModes)
      BY <1>1, <2>3, ModeIsChanged
    <3> QED
      BY <1>1, <3>1, FindsKept, SameAreas DEF IsChanged
  <2> QED
    BY <2>1, <2>2, <2>3 DEF SetGopMode, GopMode
<1> QED
  BY <1>2, <1>3 DEF SearchInv

LEMMA SetTextStep ==
    ASSUME SearchInv, SetTextMode \/ \E mode \in 1 .. TextModes : TextMode(mode)
    PROVE  SearchInv'
<1>1. /\ text \in Search(TextModes) /\ TextModes \in Nat \ {0}
      /\ Finds(text, TextArea)
  BY BootAssumption DEF SearchInv
<1>2. /\ gop' = gop /\ GopArea' = GopArea
      /\ pc' \notin {"watchdog", "gop", "gopmodes", "text"}
  BY SameAreas DEF SetTextMode, TextMode
<1>3. text' \in Search(TextModes) /\ Finds(text', TextArea')
  <2>1. CASE text' = text
    BY <1>1, <2>1, SameAreas
  <2>2. CASE text' \in SetMode(text, IF text.bestmode = 0 THEN 1 ELSE text.bestmode)
    <3> DEFINE best == IF text.bestmode = 0 THEN 1 ELSE text.bestmode
    <3>0. best \in 0 .. TextModes /\ best # 0
      BY <1>1, SearchTypes
    <3>1. PICK mode \in 1 .. TextModes :
            /\ text' = [text EXCEPT !.current = mode]
            /\ best # 0 => mode = best
      <4> HIDE DEF best
      <4> QED
        BY <1>1, <2>2, <3>0, SetModeIs DEF best
    <3>2. mode \in 0 .. TextModes
      OBVIOUS
    <3>3. /\ text' \in Search(TextModes) /\ text'.current = mode
          /\ text'.answers = text.answers /\ text'.best = text.best
          /\ text'.size = text.size /\ text'.bestmode = text.bestmode
      BY <1>1, <3>1, <3>2, ModeIsSet
    <3> QED
      BY <1>1, <3>0, <3>1, <3>3, FindsKept, SameAreas
  <2>3. ASSUME NEW mode \in 1 .. TextModes,
               text' = [text EXCEPT !.current = mode, !.changed = TRUE]
        PROVE  text' \in Search(TextModes) /\ Finds(text', TextArea')
    <3>1. IsChanged(text', text, TextModes)
      BY <1>1, <2>3, ModeIsChanged
    <3> QED
      BY <1>1, <3>1, FindsKept, SameAreas DEF IsChanged
  <2> QED
    BY <2>1, <2>2, <2>3 DEF SetTextMode, TextMode
<1> QED
  BY <1>2, <1>3 DEF SearchInv

LEMMA SearchInductive == SearchInv /\ [Next]_vars => SearchInv'
<1> SUFFICES ASSUME SearchInv, [Next]_vars PROVE SearchInv'
  OBVIOUS
<1>1. CASE /\ gop' = gop /\ text' = text
           /\ \/ pc' = pc
              \/ pc' = "gop" /\ pc = "watchdog"
              \/ pc' \in {"gopmodes", "text"} /\ pc = "gop"
              \/ pc' \notin {"watchdog", "gop", "gopmodes", "text"}
  BY <1>1, SameAreas DEF SearchInv
<1>2. CASE QueryGop \/ QueryText
  BY <1>2, QueryGopStep, QueryTextStep
<1>3. CASE SetGopMode \/ SetTextMode
  BY <1>3, SetGopStep, SetTextStep
<1>4. CASE (\E mode \in 1 .. GopModes : GopMode(mode))
           \/ (\E mode \in 1 .. TextModes : TextMode(mode))
  BY <1>4, SetGopStep, SetTextStep
<1>5. CASE Watchdog \/ LocateGop
  BY <1>1, <1>5 DEF Watchdog, LocateGop
<1>6. CASE SetupFs \/ SetupNetwork \/ SetupMouse \/ Welcome \/ OpenRoot
  BY <1>1, <1>6 DEF SetupFs, SetupNetwork, SetupMouse, Welcome, OpenRoot
<1>7. CASE UseGraphics \/ UsePointer \/ Exit \/ PressAnyKey \/ UNCHANGED vars
  BY <1>1, <1>7 DEF UseGraphics, UsePointer, Exit, PressAnyKey, vars
<1> QED
  BY <1>2, <1>3, <1>4, <1>5, <1>6, <1>7 DEF Next, Setup

(* Whatever the number of modes and whichever answer, and also where the   *)
(* product of width and height wraps: the setup sets the first of the best *)
(* modes and remembers its size.                                           *)
THEOREM BestIsChosen == Spec => []BestModesAreSet
<1>1. SearchInv => BestModesAreSet
  <2> SUFFICES ASSUME SearchInv PROVE BestModesAreSet
    OBVIOUS
  <2>1. /\ DOMAIN gop.answers = 1 .. Len(gop.answers)
        /\ DOMAIN text.answers = 1 .. Len(text.answers)
    BY SearchTypes, BootAssumption DEF SearchInv
  <2>2. BestIsSet(gop, LAMBDA size : size % Word)
    <3>1. /\ \A m \in 1 .. Len(gop.answers) : GopArea[m] = gop.answers[m] % Word
          /\ Finds(gop, GopArea)
      BY DEF GopArea, SearchInv
    <3> QED
      BY <2>1, <3>1 DEF BestIsSet, Finds
  <2>3. BestIsSet(text, LAMBDA size : size)
    <3>1. /\ \A m \in 1 .. Len(text.answers) : TextArea[m] = text.answers[m]
          /\ Finds(text, TextArea)
      BY DEF TextArea, SearchInv
    <3> QED
      BY <2>1, <3>1 DEF BestIsSet, Finds
  <2> QED
    BY <2>2, <2>3 DEF BestModesAreSet
<1> QED
  BY <1>1, SearchInitially, SearchInductive, PTL DEF Spec

---------------------------------------------------------------------------
Afterwards == {"root", "terminal", "bsod", "ended"}
PastMouse == Afterwards \cup {"welcome"}
PastNetwork == PastMouse \cup {"mouse"}
PastFs == PastNetwork \cup {"network"}
PastText == PastFs \cup {"fs"}
PastGop == PastText \cup {"text"}

(* A setup is past when the next one is due, or when everything was said.  *)
Past(ps) == pc \in ps \/ shown # {}

(* Whatever is not usable is among the errors once its setup is past.      *)
FailuresAreErrors ==
    /\ Past(PastGop \cup {"gopmodes"}) => graphics = "located" \/ "gop" \in errors
    /\ Past(PastGop) => gop.current # 0 \/ "gop" \in errors
    /\ Past(PastText) => text.current # 0 \/ "text" \in errors
    /\ Past(PastFs) => disk \/ "fs" \in errors
    /\ Past(PastNetwork) => net = "initialized" \/ "network" \in errors
    /\ Past(PastMouse) => pointer \/ "mouse" \in errors

(* The errors are shown and not added to any more.  A fault is a display   *)
(* without a mode, or follows what is not usable.                          *)
ErrorsAreShown ==
    /\ shown # {} => shown = IF errors = {} THEN {"operational"} ELSE errors
    /\ pc \in Afterwards => shown # {}
    /\ shown # {} => pc \in Afterwards \cup {"fault"} /\ graphics # "modeless"
    /\ graphics = "modeless" => pc = "fault"
    /\ pc = "fault" => \/ graphics = "modeless"
                       \/ shown # {} /\ (graphics = "null" \/ ~disk \/ ~pointer)
    /\ NoDiskNoTerminal

PathInv == SearchInv /\ TypeOK /\ FailuresAreErrors /\ ErrorsAreShown

LEMMA PathInitially == Init => PathInv
<1> SUFFICES ASSUME Init PROVE PathInv
  OBVIOUS
<1>1. SearchInv
  BY SearchInitially
<1>2. TypeOK
  BY <1>1 DEF Init, TypeOK, Subsystems, SearchInv
<1> QED
  BY <1>1, <1>2 DEF Init, PathInv, FailuresAreErrors, ErrorsAreShown, Past, PastGop,
     PastText, PastFs, PastNetwork, PastMouse, Afterwards, NoDiskNoTerminal

(* A mode that is set is none that is not there. *)
LEMMA ModeIsNotZero ==
    /\ SearchInv /\ SetGopMode => gop'.current # 0 \/ "gop" \in errors'
    /\ SearchInv /\ SetTextMode => text'.current # 0 \/ "text" \in errors'
    /\ SearchInv /\ (\E mode \in 1 .. GopModes : GopMode(mode)) =>
           gop'.current # 0 \/ gop' = gop
    /\ SearchInv /\ (\E mode \in 1 .. TextModes : TextMode(mode)) => text'.current # 0
<1>0. SearchInv => /\ gop \in Search(GopModes) /\ GopModes \in Nat
                   /\ text \in Search(TextModes) /\ TextModes \in Nat \ {0}
                   /\ gop.bestmode \in 0 .. GopModes /\ text.bestmode \in 0 .. TextModes
  BY BootAssumption, SearchTypes DEF SearchInv
<1>1. ASSUME SearchInv, SetGopMode
      PROVE  gop'.current # 0 \/ "gop" \in errors'
  <2>1. CASE gop' \in SetMode(gop, gop.bestmode)
    <3>1. PICK mode \in 1 .. GopModes : gop' = [gop EXCEPT !.current = mode]
      BY <1>0, <1>1, <2>1, SetModeIs
    <3>2. mode \in 0 .. GopModes /\ mode # 0
      BY <1>0, <1>1
    <3> QED
      BY <1>0, <1>1, <3>1, <3>2, ModeIsSet
  <2> QED
    BY <1>1, <2>1 DEF SetGopMode
<1>2. ASSUME SearchInv, SetTextMode
      PROVE  text'.current # 0 \/ "text" \in errors'
  <2> DEFINE best == IF text.bestmode = 0 THEN 1 ELSE text.bestmode
  <2>1. CASE text' \in SetMode(text, best)
    <3>0. best \in 0 .. TextModes
      BY <1>0, <1>2
    <3>1. PICK mode \in 1 .. TextModes : text' = [text EXCEPT !.current = mode]
      <4> HIDE DEF best
      <4> QED
        BY <1>0, <1>2, <2>1, <3>0, SetModeIs
    <3>2. mode \in 0 .. TextModes /\ mode # 0
      BY <1>0, <1>2
    <3> QED
      BY <1>0, <1>2, <3>1, <3>2, ModeIsSet
  <2> QED
    BY <1>2, <2>1 DEF SetTextMode
<1>3. ASSUME SearchInv, NEW mode \in 1 .. GopModes, GopMode(mode)
      PROVE  gop'.current # 0 \/ gop' = gop
  <2>1. CASE gop' = [gop EXCEPT !.current = mode, !.changed = TRUE]
    <3>1. gop \in Search(GopModes) /\ GopModes \in Nat
      BY <1>0, <1>3
    <3>2. IsChanged(gop', gop, GopModes)
      BY <2>1, <3>1, ModeIsChanged
    <3> QED
      BY <3>2 DEF IsChanged
  <2> QED
    BY <1>3, <2>1 DEF GopMode
<1>4. ASSUME SearchInv, NEW mode \in 1 .. TextModes, TextMode(mode)
      PROVE  text'.current # 0
  <2>1. text' = [text EXCEPT !.current = mode, !.changed = TRUE]
    BY <1>4 DEF TextMode
  <2>2. text \in Search(TextModes) /\ TextModes \in Nat
    BY <1>0, <1>4
  <2>3. IsChanged(text', text, TextModes)
    BY <2>1, <2>2, ModeIsChanged
  <2> QED
    BY <2>3 DEF IsChanged
<1> QED
  BY <1>1, <1>2, <1>3, <1>4

(* What is shown is not empty. *)
LEMMA SomethingIsShown == (IF errors = {} THEN {"operational"} ELSE errors) # {}
OBVIOUS

LEMMA PathInductive == PathInv /\ [Next]_vars => PathInv'
<1> SUFFICES ASSUME PathInv, [Next]_vars PROVE PathInv'
  OBVIOUS
<1>1. SearchInv /\ SearchInv'
  BY SearchInductive DEF PathInv
<1>2. TypeOK /\ FailuresAreErrors /\ ErrorsAreShown
  BY DEF PathInv
<1>3. gop' \in Search(GopModes) /\ text' \in Search(TextModes)
  BY <1>1 DEF SearchInv
<1>4. TypeOK' /\ FailuresAreErrors' /\ ErrorsAreShown'
  <2> USE DEF FailuresAreErrors, ErrorsAreShown, Past, PastGop, PastText, PastFs,
          PastNetwork, PastMouse, Afterwards, NoDiskNoTerminal
  <2>1. CASE Watchdog
    BY <1>2, <1>3, <2>1 DEF TypeOK, Subsystems, Watchdog
  <2>2. CASE LocateGop
    BY <1>2, <1>3, <2>2 DEF TypeOK, Subsystems, LocateGop
  <2>3. CASE QueryGop
    BY <1>2, <1>3, <2>3 DEF TypeOK, Subsystems, QueryGop
  <2>4. CASE SetGopMode
    BY <1>1, <1>2, <1>3, <2>4, ModeIsNotZero DEF TypeOK, Subsystems, SetGopMode
  <2>5. CASE QueryText
    BY <1>2, <1>3, <2>5 DEF TypeOK, Subsystems, QueryText
  <2>6. CASE SetTextMode
    BY <1>1, <1>2, <1>3, <2>6, ModeIsNotZero DEF TypeOK, Subsystems, SetTextMode
  <2>7. CASE SetupFs
    BY <1>2, <1>3, <2>7 DEF TypeOK, Subsystems, SetupFs
  <2>8. CASE SetupNetwork
    BY <1>2, <1>3, <2>8 DEF TypeOK, Subsystems, SetupNetwork
  <2>9. CASE SetupMouse
    BY <1>2, <1>3, <2>9 DEF TypeOK, Subsystems, SetupMouse
  <2>10. CASE Welcome
    BY <1>2, <1>3, <2>10, SomethingIsShown DEF TypeOK, Subsystems, Welcome
  <2>11. CASE OpenRoot
    BY <1>2, <1>3, <2>11 DEF TypeOK, Subsystems, OpenRoot
  <2>12. CASE UseGraphics
    BY <1>2, <1>3, <2>12 DEF TypeOK, Subsystems, UseGraphics
  <2>13. CASE UsePointer
    BY <1>2, <1>3, <2>13 DEF TypeOK, Subsystems, UsePointer
  <2>14. ASSUME NEW mode \in 1 .. GopModes, GopMode(mode)
         PROVE  TypeOK' /\ FailuresAreErrors' /\ ErrorsAreShown'
    <3>1. gop'.current # 0 \/ gop' = gop
      BY <1>1, <2>14, ModeIsNotZero
    <3> QED
      BY <1>2, <1>3, <2>14, <3>1 DEF TypeOK, Subsystems, GopMode
  <2>15. ASSUME NEW mode \in 1 .. TextModes, TextMode(mode)
         PROVE  TypeOK' /\ FailuresAreErrors' /\ ErrorsAreShown'
    <3>1. text'.current # 0
      BY <1>1, <2>15, ModeIsNotZero
    <3> QED
      BY <1>2, <1>3, <2>15, <3>1 DEF TypeOK, Subsystems, TextMode
  <2>16. CASE Exit \/ PressAnyKey
    BY <1>2, <1>3, <2>16 DEF TypeOK, Subsystems, Exit, PressAnyKey
  <2>17. CASE UNCHANGED vars
    BY <1>2, <1>3, <2>17 DEF TypeOK, vars
  <2> QED
    BY <2>1, <2>2, <2>3, <2>4, <2>5, <2>6, <2>7, <2>8, <2>9, <2>10, <2>11, <2>12,
       <2>13, <2>14, <2>15, <2>16, <2>17 DEF Next, Setup
<1> QED
  BY <1>1, <1>4 DEF PathInv

(* What roxus_setup() shows is true of what it leaves behind: all works    *)
(* when it says so, and what the terminal trips over was announced.        *)
THEOREM SetupTellsTheTruth == Spec => []SetupIsHonest
<1>1. PathInv => SetupIsHonest
  <2> SUFFICES ASSUME PathInv PROVE SetupIsHonest
    OBVIOUS
  <2>1. TypeOK /\ FailuresAreErrors /\ ErrorsAreShown
    BY DEF PathInv
  <2>2. OperationalMeansUsable
    <3> SUFFICES ASSUME "operational" \in shown
                 PROVE  /\ graphics = "located" /\ gop.current # 0 /\ text.current # 0
                        /\ disk /\ pointer /\ net = "initialized"
      BY DEF OperationalMeansUsable
    <3>1. errors = {}
      <4>1. "operational" \notin errors
        BY <2>1 DEF TypeOK, Subsystems
      <4> QED
        BY <2>1, <4>1 DEF ErrorsAreShown
    <3> QED
      BY <2>1, <3>1 DEF FailuresAreErrors, Past
  <2>3. FaultsWereAnnounced
    <3> SUFFICES ASSUME pc = "fault", graphics # "modeless" \/ shown # {}
                 PROVE  shown \cap {"gop", "fs", "mouse"} # {}
      BY DEF FaultsWereAnnounced
    <3>1. shown # {} /\ (graphics = "null" \/ ~disk \/ ~pointer)
      BY <2>1 DEF ErrorsAreShown
    <3>2. "gop" \in errors \/ "fs" \in errors \/ "mouse" \in errors
      BY <2>1, <3>1 DEF FailuresAreErrors, Past
    <3>3. shown = errors
      BY <2>1, <3>1, <3>2 DEF ErrorsAreShown
    <3> QED
      BY <3>2, <3>3
  <2> QED
    BY <2>1, <2>2, <2>3 DEF SetupIsHonest, ErrorsAreShown
<1> QED
  BY <1>1, PathInitially, PathInductive, PTL DEF Spec
=============================================================================
