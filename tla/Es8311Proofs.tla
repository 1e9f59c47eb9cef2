---------------------------- MODULE Es8311Proofs ----------------------------
(***************************************************************************)
(* The ES8311 driver, for every board and caller: the coefficients it      *)
(* finds run the converters at 256 times the sample rate and fit their     *)
(* register fields, the provider's dividers survive their encoding, and    *)
(* the invariants of any sequence of codec API calls follow.               *)
(***************************************************************************)
EXTENDS Es8311, TLAPS

\* A row of es8311_mclk_coeffs, as far as the arithmetic depends on it.
Lawful(c) ==
    /\ c \in [rate : Nat \ {0}, mclk : Nat \ {0}, div : {1, 3}, mult : {1, 2, 4},
              div_adc_dac : {1, 3}]
    /\ ClockLaw(c, c.mclk)

\* Every row of the table runs the converters right at its own master clock.
LEMMA TableLawful == \A i \in DOMAIN Coeffs : Lawful(Coeffs[i])
<1>1. DOMAIN Coeffs = 1..23
  BY DEF Coeffs, Row
<1>2. ASSUME NEW i \in 1..23 PROVE Lawful(Coeffs[i])
  BY <1>2, SMTT(60) DEF Lawful, ClockLaw, Coeffs, Row
<1> QED
  BY <1>1, <1>2

\* A quotient without remainder multiplies back.
LEMMA ExactQuotient ==
    ASSUME NEW a \in Nat \ {0}, NEW b \in Nat \ {0}, Divides(a, b)
    PROVE  b \div a \in Nat \ {0} /\ (b \div a) * a = b
  BY DEF Divides

\* A row that matches a master clock satisfies the clock law at that clock
\* once es8311_cmp_adj_mclk_coeff() has adjusted it, and fits the registers.
LEMMA AdjustedLawful ==
    ASSUME NEW c, Lawful(c), NEW freq \in Nat \ {0}, Matches(c, freq)
    PROVE  ClockLaw(Adjusted(c, freq), freq) /\ Encodable(Adjusted(c, freq))
<1> USE DEF Lawful
<1>1. CASE c.mclk = freq
  BY <1>1 DEF Adjusted, Encodable, ClockLaw
<1>2. CASE c.mclk # freq /\ Divides(c.mclk, freq)
  <2> DEFINE k == freq \div c.mclk
  <2>1. k \in Nat \ {0} /\ k * c.mclk = freq
    BY <1>2, ExactQuotient
  <2>2. Adjusted(c, freq) = Row(c.rate, c.mclk, k * c.div, c.mult, c.div_adc_dac) /\ k * c.div <= 8
    BY <1>2 DEF Adjusted, Matches
  <2> HIDE DEF k
  <2>3. k * c.div \in 1..8
    BY <2>1, <2>2
  <2>4. freq * c.mult = 256 * c.rate * (k * c.div) * c.div_adc_dac
    <3>1. c.mclk * c.mult = 256 * c.rate * c.div * c.div_adc_dac
      BY DEF ClockLaw
    <3>2. freq * c.mult = k * (c.mclk * c.mult)
      BY <2>1
    <3> QED
      BY <3>1, <3>2, <2>1
  <2> QED
    BY <2>2, <2>3, <2>4 DEF ClockLaw, Encodable, Row
<1>3. CASE c.mclk # freq /\ ~Divides(c.mclk, freq)
  <2> DEFINE k == c.mclk \div freq
  <2>1. Divides(freq, c.mclk) /\ k \in {2, 4, 8} /\ k * c.mult <= 8
    BY <1>3 DEF Matches
  <2>2. k * freq = c.mclk
    BY <2>1, ExactQuotient
  <2>3. Adjusted(c, freq) = Row(c.rate, c.mclk, c.div, k * c.mult, c.div_adc_dac)
    BY <1>3 DEF Adjusted
  <2> HIDE DEF k
  <2>4. k * c.mult \in {1, 2, 4, 8}
    BY <2>1
  <2>5. freq * (k * c.mult) = 256 * c.rate * c.div * c.div_adc_dac
    <3>1. c.mclk * c.mult = 256 * c.rate * c.div * c.div_adc_dac
      BY DEF ClockLaw
    <3>2. freq * (k * c.mult) = c.mclk * c.mult
      BY <2>1, <2>2
    <3> QED
      BY <3>1, <3>2
  <2> QED
    BY <2>3, <2>4, <2>5 DEF ClockLaw, Encodable, Row
<1> QED
  BY <1>1, <1>2, <1>3

\* es8311_get_mclk_coeff() is right for every master clock and sample rate:
\* what it returns is for the rate asked for, runs the converters at 256 times
\* that rate, and fits the fields of the divider registers.
THEOREM CoefficientsRight ==
    ASSUME NEW freq \in Nat \ {0}, NEW rate, HasCoeff(freq, rate)
    PROVE  /\ GetCoeff(freq, rate).rate = rate
           /\ ClockLaw(GetCoeff(freq, rate), freq)
           /\ Encodable(GetCoeff(freq, rate))
<1> DEFINE rows == Candidates(freq, rate)
           n == CHOOSE i \in rows : \A j \in rows : i <= j
<1>1. rows \subseteq 1..23 /\ rows # {}
  BY DEF Candidates, HasCoeff, Coeffs, Row
<1>2. \E i \in rows : \A j \in rows : i <= j
  BY <1>1, SMTT(60)
<1>3. n \in rows
  BY <1>2
<1>4. Coeffs[n].rate = rate /\ Matches(Coeffs[n], freq) /\ n \in DOMAIN Coeffs
  BY <1>3 DEF Candidates
<1>5. Lawful(Coeffs[n])
  BY <1>4, TableLawful
<1>6. GetCoeff(freq, rate) = Adjusted(Coeffs[n], freq)
  BY DEF GetCoeff
<1> DEFINE c == Coeffs[n]
<1> HIDE DEF n, c
<1>7. ClockLaw(Adjusted(c, freq), freq) /\ Encodable(Adjusted(c, freq))
  BY <1>4, <1>5, AdjustedLawful DEF c
<1>8. Adjusted(c, freq).rate = rate
  BY <1>4, <1>5 DEF Adjusted, Lawful, Row, c
<1> QED
  BY <1>6, <1>7, <1>8 DEF c

\* The BCLK divider the provider writes is the one the codec reads back, for
\* every divider the driver accepts; it needs the divider not to be 0, which
\* the driver's test of the LRCLK divider has made sure of.
THEOREM BclkEncodingRight ==
    ASSUME NEW div \in Nat \ {0}, HasBclkDiv(div)
    PROVE  BclkField(div) \in 0..31 /\ BclkDivOf(BclkField(div)) = div
<1>1. CASE div <= BclkDivIdxOffset
  BY <1>1 DEF BclkField, BclkDivOf, BclkDivIdxOffset
<1>2. CASE ~(div <= BclkDivIdxOffset)
  <2> DEFINE i == CHOOSE j \in DOMAIN BclkDivs : BclkDivs[j] = div
  <2>1. i \in DOMAIN BclkDivs /\ BclkDivs[i] = div
    BY <1>2 DEF HasBclkDiv
  <2>2. DOMAIN BclkDivs = 1..12
    BY DEF BclkDivs
  <2>3. BclkField(div) = i - 1 + BclkDivIdxOffset
    BY <1>2 DEF BclkField
  <2> HIDE DEF i
  <2> QED
    BY <2>1, <2>2, <2>3 DEF BclkDivOf, BclkDivIdxOffset
<1> QED
  BY <1>1, <1>2

\* A provider whose tests have passed divides by at least 1: the frame length
\* is a non-zero multiple of two words, so div_bclk - 1 does not wrap.
THEOREM ProviderDivides ==
    ASSUME NEW freq \in Nat, NEW rate \in Nat \ {0}, NEW word \in Nat \ {0},
           LrclkDiv(freq, rate) \in 1..LrclkDivMax,
           LrclkDiv(freq, rate) % (2 * word) = 0
    PROVE  /\ BclkDiv(freq, rate, word) \in Nat \ {0}
           /\ BclkDiv(freq, rate, word) * (2 * word) = LrclkDiv(freq, rate)
<1> DEFINE l == LrclkDiv(freq, rate)
<1>1. l \in Nat \ {0}
  BY DEF LrclkDivMax, LrclkDiv
<1>2. Divides(2 * word, l)
  BY Zenon DEF Divides
<1> HIDE DEF l
<1>3. 2 * word \in Nat \ {0}
  OBVIOUS
<1>4. l \div (2 * word) \in Nat \ {0} /\ (l \div (2 * word)) * (2 * word) = l
  BY <1>1, <1>2, <1>3, ExactQuotient
<1> QED
  BY <1>4 DEF BclkDiv, l
-----------------------------------------------------------------------------
(* The writes of es8311_configure() *)

\* p is the call o one test further: it has written the fields S as well, or
\* has failed and written nothing more.
Continues(o, p, S) ==
    /\ p.ret \in {"ok", "err"} /\ (p.ret = "ok" => o.ret = "ok")
    /\ DOMAIN p.upd = DOMAIN o.upd \cup (IF p.ret = "ok" THEN S ELSE {})
    /\ \A f \in DOMAIN o.upd : p.upd[f] = o.upd[f]

\* A test and the writes behind it continue the call, when it has not written
\* these fields before.
LEMMA TryContinues ==
    ASSUME NEW o, NEW test, NEW upd, DOMAIN upd \cap DOMAIN o.upd = {}
    PROVE  /\ Continues(o, Try(o, test, upd), DOMAIN upd)
           /\ Try(o, test, upd).ret = "ok" <=> (o.ret = "ok" /\ test)
           /\ Try(o, test, upd).ret = "ok" =>
                 \A f \in DOMAIN upd : Try(o, test, upd).upd[f] = upd[f]
<1> DEFINE p == Try(o, test, upd)
           m == [f \in DOMAIN o.upd \cup DOMAIN upd |->
                    IF f \in DOMAIN upd THEN upd[f] ELSE o.upd[f]]
<1>1. CASE o.ret = "ok" /\ test
  <2>1. p.ret = "ok" /\ p.upd = m
    BY <1>1 DEF Try, Merge
  <2> HIDE DEF p
  <2>2. /\ DOMAIN p.upd = DOMAIN o.upd \cup DOMAIN upd
        /\ \A f \in DOMAIN upd : p.upd[f] = upd[f]
        /\ \A f \in DOMAIN o.upd : p.upd[f] = o.upd[f]
    BY <2>1
  <2> QED
    BY <1>1, <2>1, <2>2, Zenon DEF Continues, p
<1>2. CASE ~(o.ret = "ok" /\ test)
  <2>1. p.ret = "err" /\ p.upd = o.upd
    BY <1>2 DEF Try
  <2> QED
    BY <1>2, <2>1 DEF Continues
<1> QED
  BY <1>1, <1>2

PortFields == {"fmt_in", "fmt_out", "wl_in", "wl_out"}
LrclkFields == {"lrclk_h", "lrclk_l"}
Fields == {"msc"} \cup PortFields \cup ClockFields \cup OutputFields

LEMMA DaiStage ==
    ASSUME NEW cfg \in Configs
    PROVE  /\ Dai(cfg).ret \in {"ok", "err"}
           /\ DOMAIN Dai(cfg).upd =
                 {"msc"} \cup (IF Dai(cfg).ret = "ok" THEN {"fmt_in", "fmt_out"} ELSE {})
           /\ Dai(cfg).upd["msc"] = Provider(cfg)
           /\ Dai(cfg).ret = "ok" => /\ Dai(cfg).upd["fmt_in"] = DaiFormat(cfg.dai)
                                     /\ Dai(cfg).upd["fmt_out"] = DaiFormat(cfg.dai)
<1> DEFINE o == Begin([msc |-> Provider(cfg)])
           test == cfg.dai # "right"
           upd == [fmt_in |-> DaiFormat(cfg.dai), fmt_out |-> DaiFormat(cfg.dai)]
<1>1. /\ o.ret = "ok" /\ DOMAIN o.upd = {"msc"} /\ o.upd["msc"] = Provider(cfg)
      /\ DOMAIN upd = {"fmt_in", "fmt_out"}
      /\ upd["fmt_in"] = DaiFormat(cfg.dai) /\ upd["fmt_out"] = DaiFormat(cfg.dai)
  BY DEF Begin
<1>2. Dai(cfg) = Try(o, test, upd)
  BY DEF Dai
<1> HIDE DEF o, test, upd
<1>3. DOMAIN upd \cap DOMAIN o.upd = {}
  BY <1>1
<1>4. /\ Continues(o, Dai(cfg), DOMAIN upd)
      /\ Dai(cfg).ret = "ok" => \A f \in DOMAIN upd : Dai(cfg).upd[f] = upd[f]
  BY <1>2, <1>3, TryContinues
<1> QED
  BY <1>1, <1>4 DEF Continues

LEMMA WordsStage ==
    ASSUME NEW cfg \in Configs
    PROVE  /\ Continues(Dai(cfg), Words(cfg), {"wl_in", "wl_out"})
           /\ Words(cfg).ret = "ok" => /\ cfg.word \in {16, 18, 20, 24, 32}
                                       /\ Words(cfg).upd["wl_in"] = cfg.word
                                       /\ Words(cfg).upd["wl_out"] = cfg.word
<1> DEFINE o == Dai(cfg)
           test == cfg.word \in {16, 18, 20, 24, 32}
           upd == [wl_in |-> cfg.word, wl_out |-> cfg.word]
<1>1. /\ DOMAIN upd = {"wl_in", "wl_out"}
      /\ upd["wl_in"] = cfg.word /\ upd["wl_out"] = cfg.word
  OBVIOUS
<1>2. Words(cfg) = Try(o, test, upd)
  BY DEF Words
<1> HIDE DEF o, test, upd
<1>3. DOMAIN upd \cap DOMAIN o.upd = {}
  BY <1>1, DaiStage DEF o
<1>4. /\ Continues(o, Words(cfg), DOMAIN upd)
      /\ Words(cfg).ret = "ok" => /\ test
                                  /\ \A f \in DOMAIN upd : Words(cfg).upd[f] = upd[f]
  BY <1>2, <1>3, TryContinues
<1> QED
  BY <1>1, <1>4 DEF o, test

LEMMA SourceStage ==
    ASSUME NEW mclk \in MclkFreqs, NEW cfg \in Configs
    PROVE  /\ Continues(Words(cfg), Source(mclk, cfg), {"source"})
           /\ Source(mclk, cfg).ret = "ok" => /\ HasClock(mclk, cfg)
                                              /\ Source(mclk, cfg).upd["source"] = SourceOf(mclk)
<1> DEFINE o == Words(cfg)
           p == Source(mclk, cfg)
           test == HasClock(mclk, cfg)
           upd == [source |-> SourceOf(mclk)]
<1>1. DOMAIN upd = {"source"} /\ upd["source"] = SourceOf(mclk)
  OBVIOUS
<1>2. p = Try(o, test, upd)
  BY DEF Source
<1> HIDE DEF o, p, test, upd
<1>3. DOMAIN upd \cap DOMAIN o.upd = {}
  BY <1>1, DaiStage, WordsStage DEF o, Continues
<1>4. /\ Continues(o, p, DOMAIN upd)
      /\ p.ret = "ok" => test /\ \A f \in DOMAIN upd : p.upd[f] = upd[f]
  BY <1>2, <1>3, TryContinues
<1> QED
  BY <1>1, <1>4 DEF o, p, test

LEMMA PredividedStage ==
    ASSUME NEW mclk \in MclkFreqs, NEW cfg \in Configs
    PROVE  LET c == GetCoeff(ClockFreq(mclk, cfg), cfg.rate)
               p == Predivided(mclk, cfg)
           IN  /\ Continues(Source(mclk, cfg), p, {"pre", "adc_dac"})
               /\ p.ret = "ok" <=> (Source(mclk, cfg).ret = "ok" /\ Encodable(c))
               /\ p.ret = "ok" => /\ p.upd["pre"] = <<c.div, c.mult>>
                                  /\ p.upd["adc_dac"] = c.div_adc_dac
<1> DEFINE o == Source(mclk, cfg)
           p == Predivided(mclk, cfg)
           c == GetCoeff(ClockFreq(mclk, cfg), cfg.rate)
           test == Encodable(c)
           upd == [pre |-> <<c.div, c.mult>>, adc_dac |-> c.div_adc_dac]
<1>1. /\ DOMAIN upd = {"pre", "adc_dac"}
      /\ upd["pre"] = <<c.div, c.mult>> /\ upd["adc_dac"] = c.div_adc_dac
  OBVIOUS
<1>2. p = Try(o, test, upd)
  BY DEF Predivided
<1> HIDE DEF o, p, c, test, upd
<1>3. DOMAIN upd \cap DOMAIN o.upd = {}
  BY <1>1, DaiStage, WordsStage, SourceStage DEF o, Continues
<1>4. /\ Continues(o, p, DOMAIN upd) /\ (p.ret = "ok" <=> (o.ret = "ok" /\ test))
      /\ p.ret = "ok" => \A f \in DOMAIN upd : p.upd[f] = upd[f]
  BY <1>2, <1>3, TryContinues
<1> QED
  BY <1>1, <1>4 DEF o, p, c, test

\* What the call has written when it comes to the provider's dividers.
LEMMA PredividedDomain ==
    ASSUME NEW mclk \in MclkFreqs, NEW cfg \in Configs
    PROVE  /\ Predivided(mclk, cfg).ret \in {"ok", "err"}
           /\ DOMAIN Predivided(mclk, cfg).upd \subseteq
                 {"msc", "source", "pre", "adc_dac"} \cup PortFields
<1>1. /\ DOMAIN Dai(cfg).upd \subseteq {"msc"} \cup PortFields
      /\ DOMAIN Words(cfg).upd \subseteq {"msc"} \cup PortFields
  BY DaiStage, WordsStage DEF Continues, PortFields
<1>2. DOMAIN Source(mclk, cfg).upd \subseteq {"msc", "source"} \cup PortFields
  BY <1>1, SourceStage DEF Continues
<1> QED
  BY <1>2, PredividedStage DEF Continues

LEMMA FramedStage ==
    ASSUME NEW mclk \in MclkFreqs, NEW cfg \in Configs
    PROVE  LET div == LrclkDiv(ClockFreq(mclk, cfg), cfg.rate)
               p == Framed(mclk, cfg)
           IN  /\ Continues(Predivided(mclk, cfg), p, IF Provider(cfg) THEN LrclkFields ELSE {})
               /\ p.ret = "ok" /\ Provider(cfg) =>
                     /\ div \in 1..LrclkDivMax
                     /\ p.upd["lrclk_h"] = (div - 1) \div 256
                     /\ p.upd["lrclk_l"] = (div - 1) % 256
<1> DEFINE o == Predivided(mclk, cfg)
           p == Framed(mclk, cfg)
           div == LrclkDiv(ClockFreq(mclk, cfg), cfg.rate)
           test == div \in 1..LrclkDivMax
           upd == LrclkWrites(div)
<1>1. /\ DOMAIN upd = LrclkFields
      /\ upd["lrclk_h"] = (div - 1) \div 256 /\ upd["lrclk_l"] = (div - 1) % 256
  BY DEF LrclkWrites, LrclkFields
<1>2. p = IF Provider(cfg) THEN Try(o, test, upd) ELSE o
  BY DEF Framed
<1> HIDE DEF o, p, div, test, upd
<1>3. DOMAIN upd \cap DOMAIN o.upd = {}
  BY <1>1, PredividedDomain DEF o, PortFields, LrclkFields
<1>4. CASE Provider(cfg)
  <2>1. /\ Continues(o, p, DOMAIN upd)
        /\ p.ret = "ok" => test /\ \A f \in DOMAIN upd : p.upd[f] = upd[f]
    BY <1>2, <1>3, <1>4, TryContinues
  <2> QED
    BY <1>1, <1>4, <2>1 DEF o, p, div, test, LrclkFields
<1>5. CASE ~Provider(cfg)
  <2>1. p = o /\ o.ret \in {"ok", "err"}
    BY <1>2, <1>5, PredividedDomain DEF o
  <2> QED
    BY <1>5, <2>1 DEF o, p, Continues
<1> QED
  BY <1>4, <1>5

LEMMA ClockedStage ==
    ASSUME NEW mclk \in MclkFreqs, NEW cfg \in Configs
    PROVE  LET freq == ClockFreq(mclk, cfg)
               bclk == BclkDiv(freq, cfg.rate, cfg.word)
               p == Clocked(mclk, cfg)
           IN  /\ Continues(Framed(mclk, cfg), p, IF Provider(cfg) THEN {"bclk"} ELSE {})
               /\ p.ret = "ok" /\ Provider(cfg) =>
                     /\ LrclkDiv(freq, cfg.rate) % (2 * cfg.word) = 0 /\ HasBclkDiv(bclk)
                     /\ p.upd["bclk"] = BclkField(bclk)
<1> DEFINE o == Framed(mclk, cfg)
           p == Clocked(mclk, cfg)
           bclk == BclkDiv(ClockFreq(mclk, cfg), cfg.rate, cfg.word)
           test == /\ LrclkDiv(ClockFreq(mclk, cfg), cfg.rate) % (2 * cfg.word) = 0
                   /\ HasBclkDiv(bclk)
           upd == [bclk |-> BclkField(bclk)]
<1>1. DOMAIN upd = {"bclk"} /\ upd["bclk"] = BclkField(bclk)
  OBVIOUS
<1>2. p = IF Provider(cfg) THEN Try(o, test, upd) ELSE o
  BY DEF Clocked
<1> HIDE DEF o, p, bclk, test, upd
<1>3. DOMAIN upd \cap DOMAIN o.upd = {} /\ o.ret \in {"ok", "err"}
  BY <1>1, PredividedDomain, FramedStage DEF o, Continues, PortFields, LrclkFields
<1>4. CASE Provider(cfg)
  <2>1. /\ Continues(o, p, DOMAIN upd)
        /\ p.ret = "ok" => test /\ \A f \in DOMAIN upd : p.upd[f] = upd[f]
    BY <1>2, <1>3, <1>4, TryContinues
  <2> QED
    BY <1>1, <1>4, <2>1 DEF o, p, bclk, test
<1>5. CASE ~Provider(cfg)
  <2>1. p = o
    BY <1>2, <1>5
  <2> QED
    BY <1>3, <1>5, <2>1 DEF o, p, Continues
<1> QED
  BY <1>4, <1>5

LEMMA OutcomeStage ==
    ASSUME NEW mclk \in MclkFreqs, NEW cfg \in Configs
    PROVE  LET p == Outcome(mclk, cfg)
           IN  /\ Continues(Clocked(mclk, cfg), p, DOMAIN StartWrites(cfg))
               /\ p.ret = "ok" <=> Clocked(mclk, cfg).ret = "ok"
<1> DEFINE o == Clocked(mclk, cfg)
           p == Outcome(mclk, cfg)
           upd == StartWrites(cfg)
<1>1. DOMAIN upd \subseteq OutputFields
  BY DEF StartWrites, StartOutputWrites, Nothing, OutputFields
<1>2. p = Try(o, TRUE, upd)
  BY DEF Outcome
<1> HIDE DEF o, p, upd
<1>3. DOMAIN upd \cap DOMAIN o.upd = {}
  BY <1>1, PredividedDomain, FramedStage, ClockedStage
     DEF o, Continues, PortFields, LrclkFields, OutputFields
<1> DEFINE test == TRUE
<1> HIDE DEF test
<1>4. p = Try(o, test, upd)
  BY <1>2 DEF test
<1>5. Continues(o, p, DOMAIN upd) /\ (p.ret = "ok" <=> (o.ret = "ok" /\ test))
  BY <1>3, <1>4, TryContinues
<1> QED
  BY <1>5 DEF o, p, upd, test

\* What a stage has written stays written until the call returns.
LEMMA Carried ==
    ASSUME NEW mclk \in MclkFreqs, NEW cfg \in Configs,
           NEW o \in {Dai(cfg), Words(cfg), Source(mclk, cfg), Predivided(mclk, cfg),
                      Framed(mclk, cfg), Clocked(mclk, cfg)}
    PROVE  \A f \in DOMAIN o.upd : /\ f \in DOMAIN Outcome(mclk, cfg).upd
                                   /\ Outcome(mclk, cfg).upd[f] = o.upd[f]
<1> DEFINE p == Outcome(mclk, cfg)
           Kept(q) == \A f \in DOMAIN q.upd : f \in DOMAIN p.upd /\ p.upd[f] = q.upd[f]
<1>0. ASSUME NEW q, NEW r, NEW S, Continues(q, r, S), Kept(r) PROVE Kept(q)
  BY <1>0 DEF Continues
<1>1. Kept(Clocked(mclk, cfg))
  BY OutcomeStage DEF Continues
<1> HIDE DEF Kept
<1>2. Kept(Framed(mclk, cfg))
  BY <1>0, <1>1, ClockedStage
<1>3. Kept(Predivided(mclk, cfg))
  BY <1>0, <1>2, FramedStage
<1>4. Kept(Source(mclk, cfg))
  BY <1>0, <1>3, PredividedStage
<1>5. Kept(Words(cfg))
  BY <1>0, <1>4, SourceStage
<1>6. Kept(Dai(cfg))
  BY <1>0, <1>5, WordsStage
<1> QED
  BY <1>1, <1>2, <1>3, <1>4, <1>5, <1>6 DEF Kept

\* A call that succeeds has passed every stage.
LEMMA AllPassed ==
    ASSUME NEW mclk \in MclkFreqs, NEW cfg \in Configs, Outcome(mclk, cfg).ret = "ok"
    PROVE  /\ Clocked(mclk, cfg).ret = "ok" /\ Framed(mclk, cfg).ret = "ok"
           /\ Predivided(mclk, cfg).ret = "ok" /\ Source(mclk, cfg).ret = "ok"
           /\ Words(cfg).ret = "ok" /\ Dai(cfg).ret = "ok"
<1>1. Clocked(mclk, cfg).ret = "ok"
  BY OutcomeStage
<1>2. Framed(mclk, cfg).ret = "ok"
  BY <1>1, ClockedStage DEF Continues
<1>3. Predivided(mclk, cfg).ret = "ok"
  BY <1>2, FramedStage DEF Continues
<1>4. Source(mclk, cfg).ret = "ok"
  BY <1>3, PredividedStage DEF Continues
<1>5. Words(cfg).ret = "ok"
  BY <1>4, SourceStage DEF Continues
<1>6. Dai(cfg).ret = "ok"
  BY <1>5, WordsStage DEF Continues
<1> QED
  BY <1>1, <1>2, <1>3, <1>4, <1>5, <1>6

\* The master clock or BCLK is never 0, so the search divides by no zero.
LEMMA FreqPositive ==
    ASSUME NEW mclk \in MclkFreqs, NEW cfg \in Configs
    PROVE  /\ ClockFreq(mclk, cfg) \in Nat \ {0}
           /\ cfg.rate \in Nat \ {0} /\ cfg.word \in Nat \ {0} /\ mclk \in Nat
<1>1. cfg.rate \in Nat \ {0} /\ cfg.word \in Nat \ {0} /\ mclk \in Nat
  BY Es8311Assumption DEF Configs
<1>2. cfg.rate * cfg.word * 2 \in Nat \ {0}
  BY <1>1
<1> QED
  BY <1>1, <1>2 DEF ClockFreq

\* The role is always written, and the formats and word lengths of the two
\* directions together.
LEMMA OutcomePorts ==
    ASSUME NEW mclk \in MclkFreqs, NEW cfg \in Configs
    PROVE  LET upd == Outcome(mclk, cfg).upd
           IN  /\ "msc" \in DOMAIN upd /\ upd["msc"] = Provider(cfg)
               /\ \/ {"fmt_in", "fmt_out"} \cap DOMAIN upd = {}
                  \/ /\ {"fmt_in", "fmt_out"} \subseteq DOMAIN upd
                     /\ upd["fmt_in"] = upd["fmt_out"]
               /\ \/ {"wl_in", "wl_out"} \cap DOMAIN upd = {}
                  \/ /\ {"wl_in", "wl_out"} \subseteq DOMAIN upd
                     /\ upd["wl_in"] = upd["wl_out"] /\ upd["wl_in"] \in {16, 18, 20, 24, 32}
<1> DEFINE upd == Outcome(mclk, cfg).upd
<1>1. \A f \in DOMAIN Dai(cfg).upd : f \in DOMAIN upd /\ upd[f] = Dai(cfg).upd[f]
  BY Carried
<1>2. \A f \in DOMAIN Words(cfg).upd : f \in DOMAIN upd /\ upd[f] = Words(cfg).upd[f]
  BY Carried
<1>3. DOMAIN upd \subseteq DOMAIN Words(cfg).upd \cup ClockFields \cup OutputFields
  <2>1. DOMAIN Predivided(mclk, cfg).upd \subseteq DOMAIN Words(cfg).upd \cup ClockFields
    BY SourceStage, PredividedStage DEF Continues, ClockFields
  <2>2. DOMAIN Clocked(mclk, cfg).upd \subseteq DOMAIN Words(cfg).upd \cup ClockFields
    BY <2>1, FramedStage, ClockedStage DEF Continues, ClockFields, LrclkFields
  <2>3. DOMAIN StartWrites(cfg) \subseteq OutputFields
    BY DEF StartWrites, StartOutputWrites, Nothing, OutputFields
  <2> QED
    BY <2>2, <2>3, OutcomeStage DEF Continues
<1> HIDE DEF upd
<1>4. "msc" \in DOMAIN upd /\ upd["msc"] = Provider(cfg)
  BY <1>1, DaiStage
<1>5. CASE Words(cfg).ret = "ok"
  <2>1. Dai(cfg).ret = "ok"
    BY <1>5, WordsStage DEF Continues
  <2> QED
    BY <1>1, <1>2, <1>4, <1>5, <2>1, DaiStage, WordsStage DEF Continues, upd
<1>6. CASE Words(cfg).ret # "ok"
  <2>1. DOMAIN Words(cfg).upd = DOMAIN Dai(cfg).upd
    BY <1>6, WordsStage DEF Continues
  <2>2. {"wl_in", "wl_out"} \cap DOMAIN upd = {}
    BY <1>3, <2>1, DaiStage DEF ClockFields, OutputFields
  <2>3. CASE Dai(cfg).ret = "ok"
    <3>1. /\ {"fmt_in", "fmt_out"} \subseteq DOMAIN upd
          /\ upd["fmt_in"] = upd["fmt_out"]
      BY <1>1, <2>3, DaiStage
    <3> QED
      BY <1>4, <2>2, <3>1 DEF upd
  <2>4. CASE Dai(cfg).ret # "ok"
    <3>1. {"fmt_in", "fmt_out"} \cap DOMAIN upd = {}
      BY <1>3, <2>1, <2>4, DaiStage DEF ClockFields, OutputFields
    <3> QED
      BY <1>4, <2>2, <3>1 DEF upd
  <2> QED
    BY <2>3, <2>4
<1> QED
  BY <1>5, <1>6

\* Which stage each field is written by.
LEMMA WrittenBy ==
    ASSUME NEW mclk \in MclkFreqs, NEW cfg \in Configs
    PROVE  LET D == DOMAIN Outcome(mclk, cfg).upd
           IN  /\ D \subseteq Fields \ {"dac_volume", "adc_volume"}
               /\ "source" \in D => Source(mclk, cfg).ret = "ok"
               /\ "pre" \in D \/ "adc_dac" \in D => Predivided(mclk, cfg).ret = "ok"
               /\ D \cap LrclkFields # {} => Framed(mclk, cfg).ret = "ok" /\ Provider(cfg)
               /\ "bclk" \in D => Clocked(mclk, cfg).ret = "ok" /\ Provider(cfg)
               /\ D \cap OutputFields # {} => Outcome(mclk, cfg).ret = "ok"
<1> DEFINE D == DOMAIN Outcome(mclk, cfg).upd
<1>1. DOMAIN Words(cfg).upd \subseteq {"msc"} \cup PortFields
  BY DaiStage, WordsStage DEF Continues, PortFields
<1>2. DOMAIN Source(mclk, cfg).upd = DOMAIN Words(cfg).upd \cup
         (IF Source(mclk, cfg).ret = "ok" THEN {"source"} ELSE {})
  BY SourceStage DEF Continues
<1>3. DOMAIN Predivided(mclk, cfg).upd = DOMAIN Source(mclk, cfg).upd \cup
         (IF Predivided(mclk, cfg).ret = "ok" THEN {"pre", "adc_dac"} ELSE {})
  BY PredividedStage DEF Continues
<1>4. DOMAIN Framed(mclk, cfg).upd = DOMAIN Predivided(mclk, cfg).upd \cup
         (IF Framed(mclk, cfg).ret = "ok" /\ Provider(cfg) THEN {"lrclk_h", "lrclk_l"} ELSE {})
  BY FramedStage DEF Continues, LrclkFields
<1>5. DOMAIN Clocked(mclk, cfg).upd = DOMAIN Framed(mclk, cfg).upd \cup
         (IF Clocked(mclk, cfg).ret = "ok" /\ Provider(cfg) THEN {"bclk"} ELSE {})
  BY ClockedStage DEF Continues
<1>6. /\ D = DOMAIN Clocked(mclk, cfg).upd \cup
                 (IF Outcome(mclk, cfg).ret = "ok" THEN DOMAIN StartWrites(cfg) ELSE {})
      /\ DOMAIN StartWrites(cfg) \subseteq {"dac_clk", "dac_power", "dac_mute"}
  BY OutcomeStage DEF Continues, StartWrites, StartOutputWrites, Nothing
<1> HIDE DEF D
<1> QED
  BY <1>1, <1>2, <1>3, <1>4, <1>5, <1>6
     DEF D, Fields, ClockFields, OutputFields, PortFields, LrclkFields

\* The clock tree that is written, as far as it is written.
LEMMA OutcomeClock ==
    ASSUME NEW mclk \in MclkFreqs, NEW cfg \in Configs
    PROVE  LET upd == Outcome(mclk, cfg).upd
               freq == ClockFreq(mclk, cfg)
               c == GetCoeff(freq, cfg.rate)
               l == LrclkDiv(freq, cfg.rate)
               b == BclkDiv(freq, cfg.rate, cfg.word)
           IN  /\ Source(mclk, cfg).ret = "ok" =>
                     /\ "source" \in DOMAIN upd /\ upd["source"] = SourceOf(mclk)
                     /\ HasClock(mclk, cfg)
               /\ Predivided(mclk, cfg).ret = "ok" =>
                     /\ "pre" \in DOMAIN upd /\ upd["pre"] = <<c.div, c.mult>>
                     /\ "adc_dac" \in DOMAIN upd /\ upd["adc_dac"] = c.div_adc_dac
                     /\ Encodable(c)
               /\ Framed(mclk, cfg).ret = "ok" /\ Provider(cfg) =>
                     /\ LrclkFields \subseteq DOMAIN upd /\ l \in 1..LrclkDivMax
                     /\ upd["lrclk_h"] = (l - 1) \div 256 /\ upd["lrclk_l"] = (l - 1) % 256
               /\ Clocked(mclk, cfg).ret = "ok" /\ Provider(cfg) =>
                     /\ "bclk" \in DOMAIN upd /\ upd["bclk"] = BclkField(b)
                     /\ l % (2 * cfg.word) = 0 /\ HasBclkDiv(b)
<1> DEFINE upd == Outcome(mclk, cfg).upd
           freq == ClockFreq(mclk, cfg)
           c == GetCoeff(freq, cfg.rate)
           l == LrclkDiv(freq, cfg.rate)
           b == BclkDiv(freq, cfg.rate, cfg.word)
<1>1. ASSUME Source(mclk, cfg).ret = "ok"
      PROVE  /\ "source" \in DOMAIN upd /\ upd["source"] = SourceOf(mclk)
             /\ HasClock(mclk, cfg)
  <2>1. \A f \in DOMAIN Source(mclk, cfg).upd :
           f \in DOMAIN upd /\ upd[f] = Source(mclk, cfg).upd[f]
    BY Carried
  <2> HIDE DEF upd
  <2> QED
    BY <1>1, <2>1, SourceStage DEF Continues
<1>2. ASSUME Predivided(mclk, cfg).ret = "ok"
      PROVE  /\ "pre" \in DOMAIN upd /\ upd["pre"] = <<c.div, c.mult>>
             /\ "adc_dac" \in DOMAIN upd /\ upd["adc_dac"] = c.div_adc_dac
             /\ Encodable(c)
  <2>1. \A f \in DOMAIN Predivided(mclk, cfg).upd :
           f \in DOMAIN upd /\ upd[f] = Predivided(mclk, cfg).upd[f]
    BY Carried
  <2>2. /\ {"pre", "adc_dac"} \subseteq DOMAIN Predivided(mclk, cfg).upd
        /\ Predivided(mclk, cfg).upd["pre"] = <<c.div, c.mult>>
        /\ Predivided(mclk, cfg).upd["adc_dac"] = c.div_adc_dac /\ Encodable(c)
    BY <1>2, PredividedStage DEF Continues
  <2> HIDE DEF upd, c
  <2> QED
    BY <2>1, <2>2
<1>3. ASSUME Framed(mclk, cfg).ret = "ok", Provider(cfg)
      PROVE  /\ LrclkFields \subseteq DOMAIN upd /\ l \in 1..LrclkDivMax
             /\ upd["lrclk_h"] = (l - 1) \div 256 /\ upd["lrclk_l"] = (l - 1) % 256
  <2>1. \A f \in DOMAIN Framed(mclk, cfg).upd :
           f \in DOMAIN upd /\ upd[f] = Framed(mclk, cfg).upd[f]
    BY Carried
  <2>2. LrclkFields \subseteq DOMAIN Framed(mclk, cfg).upd
    BY <1>3, FramedStage DEF Continues
  <2>3. /\ l \in 1..LrclkDivMax
        /\ Framed(mclk, cfg).upd["lrclk_h"] = (l - 1) \div 256
        /\ Framed(mclk, cfg).upd["lrclk_l"] = (l - 1) % 256
    BY <1>3, FramedStage
  <2> HIDE DEF upd, l
  <2> QED
    BY <2>1, <2>2, <2>3 DEF LrclkFields
<1>4. ASSUME Clocked(mclk, cfg).ret = "ok", Provider(cfg)
      PROVE  /\ "bclk" \in DOMAIN upd /\ upd["bclk"] = BclkField(b)
             /\ l % (2 * cfg.word) = 0 /\ HasBclkDiv(b)
  <2>1. \A f \in DOMAIN Clocked(mclk, cfg).upd :
           f \in DOMAIN upd /\ upd[f] = Clocked(mclk, cfg).upd[f]
    BY Carried
  <2>2. "bclk" \in DOMAIN Clocked(mclk, cfg).upd
    BY <1>4, ClockedStage DEF Continues
  <2>3. /\ l % (2 * cfg.word) = 0 /\ HasBclkDiv(b)
        /\ Clocked(mclk, cfg).upd["bclk"] = BclkField(b)
    BY <1>4, ClockedStage
  <2> HIDE DEF upd, l, b
  <2> QED
    BY <2>1, <2>2, <2>3
<1> QED
  BY <1>1, <1>2, <1>3, <1>4

\* A call that fails has started nothing.  Once it has touched the clock tree it
\* has a clock, and only the dividers of a provider can still make it fail.
LEMMA OutcomeFailed ==
    ASSUME NEW mclk \in MclkFreqs, NEW cfg \in Configs, Outcome(mclk, cfg).ret # "ok"
    PROVE  LET D == DOMAIN Outcome(mclk, cfg).upd
           IN  /\ D \cap OutputFields = {}
               /\ D \cap ClockFields = {} \/ (Provider(cfg) /\ HasClock(mclk, cfg))
<1> DEFINE D == DOMAIN Outcome(mclk, cfg).upd
<1>1. D \cap OutputFields = {}
  BY WrittenBy
<1>2. ASSUME D \cap ClockFields # {}
      PROVE  Source(mclk, cfg).ret = "ok"
  <2>1. /\ Clocked(mclk, cfg).ret = "ok" => Framed(mclk, cfg).ret = "ok"
        /\ Framed(mclk, cfg).ret = "ok" => Predivided(mclk, cfg).ret = "ok"
        /\ Predivided(mclk, cfg).ret = "ok" => Source(mclk, cfg).ret = "ok"
    BY ClockedStage, FramedStage, PredividedStage DEF Continues
  <2> QED
    BY <1>2, <2>1, WrittenBy DEF ClockFields, LrclkFields
<1>3. ASSUME Source(mclk, cfg).ret = "ok"
      PROVE  Provider(cfg) /\ HasClock(mclk, cfg)
  <2>1. HasClock(mclk, cfg)
    BY <1>3, OutcomeClock
  <2>2. Encodable(GetCoeff(ClockFreq(mclk, cfg), cfg.rate))
    BY <2>1, FreqPositive, CoefficientsRight DEF HasClock
  <2>3. Predivided(mclk, cfg).ret = "ok"
    BY <1>3, <2>2, PredividedStage
  <2>4. ASSUME ~Provider(cfg) PROVE FALSE
    <3>1. Clocked(mclk, cfg) = Predivided(mclk, cfg)
      BY <2>4 DEF Clocked, Framed
    <3> QED
      BY <2>3, <3>1, OutcomeStage
  <2> QED
    BY <2>1, <2>4
<1> QED
  BY <1>1, <1>2, <1>3
-----------------------------------------------------------------------------
(* The calls *)

\* What a field may hold.
FieldOK(f, v) ==
    /\ f \in {"wl_in", "wl_out"} => v \in {16, 18, 20, 24, 32}
    /\ f = "pre" => v \in (1..8) \X {1, 2, 4, 8}
    /\ f = "adc_dac" => v \in 1..8
    /\ f = "lrclk_h" => v \in 0..15
    /\ f \in {"lrclk_l", "dac_volume", "adc_volume"} => v \in 0..255
    /\ f = "bclk" => v \in 0..31

TypeInv ==
    /\ ready \in BOOLEAN /\ is_provider \in BOOLEAN
    /\ IF ready THEN mclk_freq \in MclkFreqs ELSE mclk_freq = 0
    /\ DOMAIN reg = Fields /\ \A f \in Fields : FieldOK(f, reg[f])
    /\ last.ret \in {"none", "ok", "err"}
    /\ last.ret # "none" => ready /\ last.cfg \in Configs

\* The writes of the calls other than configure.
Output(upd) == DOMAIN upd \subseteq OutputFields /\ \A f \in DOMAIN upd : FieldOK(f, upd[f])

LEMMA OutcomeTyped ==
    ASSUME NEW mclk \in MclkFreqs, NEW cfg \in Configs
    PROVE  /\ Outcome(mclk, cfg).ret \in {"ok", "err"}
           /\ DOMAIN Outcome(mclk, cfg).upd \subseteq Fields
           /\ \A f \in DOMAIN Outcome(mclk, cfg).upd : FieldOK(f, Outcome(mclk, cfg).upd[f])
<1> DEFINE upd == Outcome(mclk, cfg).upd
           freq == ClockFreq(mclk, cfg)
           l == LrclkDiv(freq, cfg.rate)
           b == BclkDiv(freq, cfg.rate, cfg.word)
           c == GetCoeff(freq, cfg.rate)
<1>1. /\ Outcome(mclk, cfg).ret \in {"ok", "err"}
      /\ DOMAIN upd \subseteq Fields \ {"dac_volume", "adc_volume"}
  BY OutcomeStage, WrittenBy DEF Continues
<1>2. \A f \in DOMAIN upd : f \in {"wl_in", "wl_out"} => upd[f] \in {16, 18, 20, 24, 32}
  BY OutcomePorts
<1>3. "pre" \in DOMAIN upd => upd["pre"] \in (1..8) \X {1, 2, 4, 8}
  <2>1. "pre" \in DOMAIN upd => upd["pre"] = <<c.div, c.mult>> /\ Encodable(c)
    BY WrittenBy, OutcomeClock
  <2> HIDE DEF upd, c
  <2> QED
    BY <2>1 DEF Encodable
<1>4. "adc_dac" \in DOMAIN upd => upd["adc_dac"] \in 1..8
  BY WrittenBy, OutcomeClock DEF Encodable
<1>5. ASSUME Framed(mclk, cfg).ret = "ok", Provider(cfg)
      PROVE  upd["lrclk_h"] \in 0..15 /\ upd["lrclk_l"] \in 0..255
  <2>1. /\ upd["lrclk_h"] = (l - 1) \div 256 /\ upd["lrclk_l"] = (l - 1) % 256
        /\ l \in 1..LrclkDivMax
    BY <1>5, OutcomeClock
  <2> HIDE DEF upd, l
  <2> QED
    BY <2>1 DEF LrclkDivMax
<1>6. ASSUME Clocked(mclk, cfg).ret = "ok", Provider(cfg)
      PROVE  upd["bclk"] \in 0..31
  <2>1. Framed(mclk, cfg).ret = "ok"
    BY <1>6, ClockedStage DEF Continues
  <2>2. /\ l \in 1..LrclkDivMax /\ l % (2 * cfg.word) = 0 /\ HasBclkDiv(b)
        /\ upd["bclk"] = BclkField(b)
    BY <1>6, <2>1, OutcomeClock
  <2>3. freq \in Nat /\ cfg.rate \in Nat \ {0} /\ cfg.word \in Nat \ {0}
    BY FreqPositive
  <2>4. b \in Nat \ {0}
    BY <2>2, <2>3, ProviderDivides
  <2> QED
    BY <2>2, <2>4, BclkEncodingRight
<1> HIDE DEF upd
<1>7. ASSUME NEW f \in DOMAIN upd PROVE FieldOK(f, upd[f])
  <2>1. f \in LrclkFields => Framed(mclk, cfg).ret = "ok" /\ Provider(cfg)
    BY WrittenBy DEF upd
  <2>2. f = "bclk" => Clocked(mclk, cfg).ret = "ok" /\ Provider(cfg)
    BY WrittenBy DEF upd
  <2>3. f \notin {"dac_volume", "adc_volume"}
    BY <1>1
  <2> QED
    BY <1>2, <1>3, <1>4, <1>5, <1>6, <2>1, <2>2, <2>3 DEF FieldOK, LrclkFields
<1> QED
  BY <1>1, <1>7 DEF upd

LEMMA WrittenTyped ==
    ASSUME DOMAIN reg = Fields, \A f \in Fields : FieldOK(f, reg[f]),
           NEW upd, \A f \in DOMAIN upd : FieldOK(f, upd[f]), NEW lost
    PROVE  /\ DOMAIN Written(upd, lost) = Fields
           /\ \A f \in Fields : FieldOK(f, Written(upd, lost)[f])
<1>1. /\ DOMAIN Written(upd, lost) = Fields
      /\ \A f \in Fields : \/ Written(upd, lost)[f] = reg[f]
                           \/ f \in DOMAIN upd /\ Written(upd, lost)[f] = upd[f]
  BY DEF Written
<1> QED
  BY <1>1

\* The driver's and the caller's end of a configure.
LEMMA ConfigureStep ==
    ASSUME TypeInv, NEW cfg \in Configs, Configure(cfg)
    PROVE  /\ ready /\ ready' /\ mclk_freq \in MclkFreqs /\ mclk_freq' = mclk_freq
           /\ is_provider' = Provider(cfg) /\ is_provider' \in BOOLEAN
           /\ last'.ret = Outcome(mclk_freq, cfg).ret /\ last'.cfg = cfg
           /\ \E lost \in Losses(Outcome(mclk_freq, cfg).upd) :
                 reg' = Written(Outcome(mclk_freq, cfg).upd, lost)
<1>1. ready /\ mclk_freq \in MclkFreqs /\ UNCHANGED <<ready, mclk_freq>>
  BY DEF TypeInv, Configure
<1>2. Outcomes[<<mclk_freq, cfg>>] = Outcome(mclk_freq, cfg)
  BY <1>1 DEF Outcomes
<1>3. PICK lost \in Losses(Outcome(mclk_freq, cfg).upd) :
         /\ reg' = Written(Outcome(mclk_freq, cfg).upd, lost)
         /\ last' = [ret |-> Outcome(mclk_freq, cfg).ret, cfg |-> cfg]
  BY <1>2 DEF Configure
<1>4. is_provider' = Provider(cfg)
  BY DEF Configure
<1>5. Provider(cfg) \in BOOLEAN
  BY Es8311Assumption, Zenon DEF Provider
<1>6. last'.ret = Outcome(mclk_freq, cfg).ret /\ last'.cfg = cfg
  BY <1>3
<1> QED
  BY <1>1, <1>3, <1>4, <1>5, <1>6

\* Every other call writes output fields only.
LEMMA OtherCalls ==
    ASSUME Next
    PROVE  \/ Initialize
           \/ \E cfg \in Configs : Configure(cfg)
           \/ \E upd : Output(upd) /\ Call(upd)
<1>1. ASSUME StartOutput PROVE \E upd : Output(upd) /\ Call(upd)
  <2>1. Output(StartOutputWrites)
    BY DEF Output, StartOutputWrites, OutputFields, FieldOK
  <2> QED
    BY <1>1, <2>1 DEF StartOutput
<1>2. ASSUME NEW mute PROVE Output([dac_mute |-> mute]) /\ Output([adc_mute |-> mute])
  BY DEF Output, OutputFields, FieldOK
<1>3. ASSUME NEW vol \in Volumes
      PROVE  Output([dac_volume |-> vol % 256]) /\ Output([adc_volume |-> vol % 256])
  <2>1. vol % 256 \in 0..255
    BY Es8311Assumption
  <2> QED
    BY <2>1 DEF Output, OutputFields, FieldOK
<1> QED
  BY <1>1, <1>2, <1>3 DEF Next, StopOutput, SetOutputMute, SetInputMute,
                          SetOutputVolume, SetInputVolume

LEMMA TypeInitially == Init => TypeInv
<1> SUFFICES ASSUME Init PROVE TypeInv
  OBVIOUS
<1>1. DOMAIN PowerOn = Fields
  BY DEF PowerOn, Fields, ClockFields, PortFields, OutputFields
<1>2. \A f \in Fields : FieldOK(f, PowerOn[f])
  BY DEF PowerOn, Fields, ClockFields, PortFields, OutputFields, FieldOK
<1> QED
  BY <1>1, <1>2 DEF Init, TypeInv, NoConfig

LEMMA TypeKept == TypeInv /\ [Next]_vars => TypeInv'
<1> SUFFICES ASSUME TypeInv, [Next]_vars PROVE TypeInv'
  OBVIOUS
<1>0. DOMAIN reg = Fields /\ \A f \in Fields : FieldOK(f, reg[f])
  BY DEF TypeInv
<1>1. CASE Initialize
  <2> DEFINE upd == [dac_power |-> TRUE, dac_mute |-> FALSE, dac_volume |-> 240]
  <2>1. PICK lost : reg' = Written(upd, lost)
    BY <1>1 DEF Initialize
  <2>2. \A f \in DOMAIN upd : FieldOK(f, upd[f])
    BY DEF FieldOK
  <2> HIDE DEF upd
  <2>3. DOMAIN reg' = Fields /\ \A f \in Fields : FieldOK(f, reg'[f])
    BY <1>0, <2>1, <2>2, WrittenTyped
  <2>4. ready' /\ mclk_freq' \in MclkFreqs /\ UNCHANGED <<is_provider, last>>
    BY <1>1 DEF Initialize
  <2> QED
    BY <2>3, <2>4 DEF TypeInv
<1>2. ASSUME NEW cfg \in Configs, Configure(cfg) PROVE TypeInv'
  <2>1. /\ ready' /\ mclk_freq \in MclkFreqs /\ mclk_freq' = mclk_freq
        /\ is_provider' \in BOOLEAN
        /\ last'.ret = Outcome(mclk_freq, cfg).ret /\ last'.cfg = cfg
        /\ \E lost : reg' = Written(Outcome(mclk_freq, cfg).upd, lost)
    BY <1>2, ConfigureStep
  <2>2. /\ Outcome(mclk_freq, cfg).ret \in {"ok", "err"}
        /\ \A f \in DOMAIN Outcome(mclk_freq, cfg).upd : FieldOK(f, Outcome(mclk_freq, cfg).upd[f])
    BY <2>1, OutcomeTyped
  <2>3. DOMAIN reg' = Fields /\ \A f \in Fields : FieldOK(f, reg'[f])
    BY <1>0, <2>1, <2>2, WrittenTyped
  <2> QED
    BY <2>1, <2>2, <2>3 DEF TypeInv
<1>3. ASSUME NEW upd, Output(upd), Call(upd) PROVE TypeInv'
  <2>1. PICK lost : reg' = Written(upd, lost)
    BY <1>3 DEF Call
  <2>2. DOMAIN reg' = Fields /\ \A f \in Fields : FieldOK(f, reg'[f])
    BY <1>0, <1>3, <2>1, WrittenTyped DEF Output
  <2> QED
    BY <1>3, <2>2 DEF TypeInv, Call
<1>4. CASE UNCHANGED vars
  BY <1>4 DEF TypeInv, vars
<1> QED
  BY <1>1, <1>2, <1>3, <1>4, OtherCalls

\* The types and the bookkeeping of the driver, whatever fails on the bus.
LEMMA TypeInvariance == Spec => []TypeInv
  BY TypeInitially, TypeKept, PTL DEF Spec

\* Every variable keeps its type, register fields included, whatever fails.
THEOREM CodecTypeCorrect == Spec => []TypeOK
<1>1. TypeInv => TypeOK
  BY DEF TypeInv, TypeOK, FieldOK, Fields, PortFields, ClockFields, OutputFields
<1> QED
  BY <1>1, TypeInvariance, PTL
-----------------------------------------------------------------------------
(* After success: the clocks are right *)

LEMMA MultipleDivides ==
    ASSUME NEW k \in Nat, NEW r \in Nat \ {0} PROVE (k * r) \div r = k
  OBVIOUS

\* A master clock that has coefficients is a multiple of the sample rate.
LEMMA FrameExact ==
    ASSUME NEW freq \in Nat \ {0}, NEW rate \in Nat \ {0}, HasCoeff(freq, rate)
    PROVE  LrclkDiv(freq, rate) * rate = freq
<1> DEFINE c == GetCoeff(freq, rate)
<1>1. c.rate = rate /\ ClockLaw(c, freq) /\ Encodable(c)
  BY CoefficientsRight
<1> HIDE DEF c
<1>2. PICK d, a \in 1..8 : d = c.div /\ a = c.div_adc_dac
  BY <1>1 DEF Encodable
<1> DEFINE n == d * a
<1>3. n \in Nat
  BY <1>2
<1>4. freq * c.mult = 256 * rate * n /\ c.mult \in {1, 2, 4, 8}
  <2>1. freq * c.mult = 256 * rate * d * a
    BY <1>1, <1>2 DEF ClockLaw
  <2> QED
    BY <1>1, <2>1 DEF Encodable
<1> HIDE DEF n
<1>5. \E k \in Nat : freq = k * rate
  <2>1. rate * n \in Nat /\ 256 * rate * n = 256 * (rate * n)
    BY <1>3
  <2>2. \/ freq = 256 * (rate * n) \/ freq = 128 * (rate * n)
        \/ freq = 64 * (rate * n) \/ freq = 32 * (rate * n)
    BY <1>4, <2>1
  <2>3. ASSUME NEW x \in Nat, freq = x * (rate * n) PROVE \E k \in Nat : freq = k * rate
    <3>1. x * n \in Nat /\ freq = (x * n) * rate
      BY <1>3, <2>3
    <3> QED
      BY <3>1
  <2> QED
    BY <2>2, <2>3
<1>6. PICK k \in Nat : freq = k * rate
  BY <1>5
<1> QED
  BY <1>6, MultipleDivides DEF LrclkDiv

\* Without faults of the bus the fields hold what was written.
LEMMA WrittenExactly ==
    ASSUME ~Lossy, NEW upd, NEW lost \in Losses(upd), NEW f \in DOMAIN reg
    PROVE  Written(upd, lost)[f] = IF f \in DOMAIN upd THEN upd[f] ELSE reg[f]
<1>1. lost = {}
  BY DEF Losses
<1> QED
  BY <1>1 DEF Written

SafeInv == ConverterClockRight /\ ProviderClocksRight /\ RoleAndPortsAgree

\* A configure that succeeds leaves the clocks right.
LEMMA ConfigureSafe ==
    ASSUME ~Lossy, TypeInv, SafeInv, NEW cfg \in Configs, Configure(cfg)
    PROVE  SafeInv'
<1> DEFINE o == Outcome(mclk_freq, cfg)
           freq == ClockFreq(mclk_freq, cfg)
           c == GetCoeff(freq, cfg.rate)
           l == LrclkDiv(freq, cfg.rate)
           b == BclkDiv(freq, cfg.rate, cfg.word)
<1>1. /\ mclk_freq \in MclkFreqs /\ mclk_freq' = mclk_freq /\ is_provider' = Provider(cfg)
      /\ last'.ret = o.ret /\ last'.cfg = cfg
      /\ \E lost \in Losses(o.upd) : reg' = Written(o.upd, lost)
  BY ConfigureStep
<1>2. DOMAIN reg = Fields
  BY DEF TypeInv
<1>3. \A f \in Fields : reg'[f] = IF f \in DOMAIN o.upd THEN o.upd[f] ELSE reg[f]
  BY <1>1, <1>2, WrittenExactly
<1>4. RoleAndPortsAgree'
  <2>1. /\ "msc" \in DOMAIN o.upd /\ o.upd["msc"] = Provider(cfg)
        /\ \/ {"fmt_in", "fmt_out"} \cap DOMAIN o.upd = {}
           \/ /\ {"fmt_in", "fmt_out"} \subseteq DOMAIN o.upd
              /\ o.upd["fmt_in"] = o.upd["fmt_out"]
        /\ \/ {"wl_in", "wl_out"} \cap DOMAIN o.upd = {}
           \/ /\ {"wl_in", "wl_out"} \subseteq DOMAIN o.upd
              /\ o.upd["wl_in"] = o.upd["wl_out"]
    BY <1>1, OutcomePorts
  <2>2. reg["fmt_in"] = reg["fmt_out"] /\ reg["wl_in"] = reg["wl_out"]
    BY DEF SafeInv, RoleAndPortsAgree
  <2>3. {"msc", "fmt_in", "fmt_out", "wl_in", "wl_out"} \subseteq Fields
    BY DEF Fields, PortFields
  <2> HIDE DEF o
  <2>4. /\ reg'["msc"] = Provider(cfg)
        /\ reg'["fmt_in"] = reg'["fmt_out"] /\ reg'["wl_in"] = reg'["wl_out"]
    BY <1>3, <2>1, <2>2, <2>3
  <2> QED
    BY <1>1, <2>4 DEF RoleAndPortsAgree
<1>5. CASE o.ret # "ok"
  BY <1>1, <1>4, <1>5 DEF SafeInv, ConverterClockRight, ProviderClocksRight, Configured
<1>6. CASE o.ret = "ok"
  <2>1. HasClock(mclk_freq, cfg) /\ reg'["source"] = SourceOf(mclk_freq)
    BY <1>1, <1>3, <1>6, AllPassed, OutcomeClock DEF Fields, ClockFields
  <2>2. /\ freq \in Nat \ {0} /\ cfg.rate \in Nat \ {0} /\ cfg.word \in Nat \ {0}
        /\ mclk_freq \in Nat
    BY <1>1, FreqPositive
  <2>3. c.rate = cfg.rate /\ ClockLaw(c, freq)
    BY <2>1, <2>2, CoefficientsRight DEF HasClock
  <2>4. reg'["pre"] = <<c.div, c.mult>> /\ reg'["adc_dac"] = c.div_adc_dac
    BY <1>1, <1>3, <1>6, AllPassed, OutcomeClock DEF Fields, ClockFields
  <2>5. ConverterClockRight'
    <3>1. ClockLaw([rate |-> cfg.rate, div |-> reg'["pre"][1], mult |-> reg'["pre"][2],
                    div_adc_dac |-> reg'["adc_dac"]], freq)
      <4> HIDE DEF c, freq
      <4> QED
        BY <2>3, <2>4 DEF ClockLaw
    <3>2. (reg'["source"] = "bclk") = (mclk_freq = 0)
      BY <2>1, <2>2 DEF SourceOf
    <3> HIDE DEF o, c
    <3> QED
      BY <1>1, <3>1, <3>2 DEF ConverterClockRight
  <2>6. CASE ~Provider(cfg)
    BY <1>1, <1>4, <2>5, <2>6 DEF SafeInv, ProviderClocksRight
  <2>7. CASE Provider(cfg)
    <3>1. /\ l \in 1..LrclkDivMax /\ l % (2 * cfg.word) = 0 /\ HasBclkDiv(b)
          /\ reg'["lrclk_h"] = (l - 1) \div 256 /\ reg'["lrclk_l"] = (l - 1) % 256
          /\ reg'["bclk"] = BclkField(b)
      BY <1>1, <1>3, <1>6, <2>7, AllPassed, OutcomeClock DEF Fields, ClockFields, LrclkFields
    <3>2. mclk_freq # 0 /\ freq = mclk_freq
      BY <2>1, <2>7 DEF HasClock, ClockFreq
    <3>3. l * cfg.rate = freq
      BY <2>1, <2>2, FrameExact DEF HasClock
    <3>4. b \in Nat \ {0} /\ b * (2 * cfg.word) = l
      <4>1. freq \in Nat /\ l \in 1..LrclkDivMax /\ l % (2 * cfg.word) = 0
        BY <2>2, <3>1
      <4> HIDE DEF freq
      <4> QED
        BY <2>2, <4>1, ProviderDivides
    <3>5. BclkDivOf(reg'["bclk"]) = b
      BY <3>1, <3>4, BclkEncodingRight
    <3> HIDE DEF l, b, o, freq
    <3>6. reg'["lrclk_h"] * 256 + reg'["lrclk_l"] + 1 = l
      BY <3>1 DEF LrclkDivMax
    <3>7. BclkDivOf(reg'["bclk"]) * 2 * cfg.word = l
      BY <2>2, <3>4, <3>5
    <3>8. ProviderClocksRight'
      BY <1>1, <3>2, <3>3, <3>6, <3>7 DEF ProviderClocksRight
    <3> QED
      BY <1>4, <2>5, <3>8 DEF SafeInv
  <2> QED
    BY <2>6, <2>7
<1> QED
  BY <1>5, <1>6

LEMMA SafeKept == ASSUME ~Lossy, TypeInv, SafeInv, [Next]_vars PROVE SafeInv'
<1>1. CASE Initialize
  <2> DEFINE upd == [dac_power |-> TRUE, dac_mute |-> FALSE, dac_volume |-> 240]
  <2>1. last.ret = "none" /\ last' = last
    BY <1>1 DEF TypeInv, Initialize
  <2>2. PICK lost : reg' = Written(upd, lost)
    BY <1>1 DEF Initialize
  <2>3. \A f \in PortFields : reg'[f] = reg[f]
    BY <2>2 DEF Written, TypeInv, Fields, PortFields
  <2> QED
    BY <2>1, <2>3 DEF SafeInv, ConverterClockRight, ProviderClocksRight, RoleAndPortsAgree,
                      Configured, PortFields
<1>2. ASSUME NEW cfg \in Configs, Configure(cfg) PROVE SafeInv'
  BY <1>2, ConfigureSafe
<1>3. ASSUME NEW upd, Output(upd), Call(upd) PROVE SafeInv'
  <2>1. PICK lost : reg' = Written(upd, lost)
    BY <1>3 DEF Call
  <2>2. \A f \in Fields \ OutputFields : reg'[f] = reg[f]
    BY <1>3, <2>1 DEF Written, TypeInv, Output
  <2>3. /\ UNCHANGED <<mclk_freq, is_provider, last>>
        /\ \A f \in {"msc"} \cup PortFields \cup ClockFields : reg'[f] = reg[f]
    BY <1>3, <2>2 DEF Call, Fields, OutputFields, PortFields, ClockFields
  <2> QED
    BY <2>3 DEF SafeInv, ConverterClockRight, ProviderClocksRight, RoleAndPortsAgree,
                Configured, PortFields, ClockFields
<1>4. CASE UNCHANGED vars
  BY <1>4 DEF vars, SafeInv, ConverterClockRight, ProviderClocksRight, RoleAndPortsAgree, Configured
<1> QED
  BY <1>1, <1>2, <1>3, <1>4, OtherCalls

LEMMA SafeInitially == Init => SafeInv
  BY DEF Init, NoConfig, PowerOn, SafeInv, ConverterClockRight, ProviderClocksRight,
         RoleAndPortsAgree, Configured

LEMMA SafeInvariance == ASSUME ~Lossy PROVE Spec => []SafeInv
<1>1. TypeInv /\ SafeInv /\ [Next]_vars => SafeInv'
  BY SafeKept
<1> QED
  BY <1>1, SafeInitially, TypeInvariance, PTL DEF Spec

\* After a configure that returned 0 the converters run at 256 times the rate
\* asked for, for every master clock, rate and sequence of calls.
THEOREM ClockIsRight == ASSUME ~Lossy PROVE Spec => []ConverterClockRight
<1>1. SafeInv => ConverterClockRight
  BY DEF SafeInv
<1> QED
  BY <1>1, SafeInvariance, PTL

\* As a provider the codec then generates the frame and bit clocks asked for.
THEOREM ProviderIsRight == ASSUME ~Lossy PROVE Spec => []ProviderClocksRight
<1>1. SafeInv => ProviderClocksRight
  BY DEF SafeInv
<1> QED
  BY <1>1, SafeInvariance, PTL

\* Driver and codec agree on the role, and the ports on their format, also
\* after a configure that failed half way.
THEOREM RoleIsAgreed == ASSUME ~Lossy PROVE Spec => []RoleAndPortsAgree
<1>1. SafeInv => RoleAndPortsAgree
  BY DEF SafeInv
<1> QED
  BY <1>1, SafeInvariance, PTL
-----------------------------------------------------------------------------
(* After failure: nothing has happened that can be heard *)

\* The fields a failed configure may have written, whatever fails on the bus.
LEMMA FailedWrites ==
    ASSUME TypeInv, [Next]_vars, FailedConfigure
    PROVE  /\ \A f \in OutputFields : reg'[f] = reg[f]
           /\ \/ \A f \in ClockFields : reg'[f] = reg[f]
              \/ is_provider' /\ HasClock(mclk_freq, last'.cfg)
<1> DEFINE cfg == last'.cfg
           o == Outcome(mclk_freq, cfg)
<1>1. cfg \in Configs
  <2>1. TypeInv'
    BY TypeKept
  <2> QED
    BY <2>1 DEF TypeInv, FailedConfigure
<1>2. /\ mclk_freq \in MclkFreqs /\ is_provider' = Provider(cfg)
      /\ o.ret = "err" /\ \E lost : reg' = Written(o.upd, lost)
  BY <1>1, ConfigureStep DEF FailedConfigure
<1>3. /\ DOMAIN o.upd \cap OutputFields = {}
      /\ DOMAIN o.upd \cap ClockFields = {} \/ (Provider(cfg) /\ HasClock(mclk_freq, cfg))
  BY <1>1, <1>2, OutcomeFailed
<1>4. \A f \in OutputFields \cup ClockFields : f \notin DOMAIN o.upd => reg'[f] = reg[f]
  <2>1. DOMAIN reg = Fields /\ OutputFields \cup ClockFields \subseteq Fields
    BY DEF TypeInv, Fields
  <2> QED
    BY <1>2, <2>1 DEF Written
<1> HIDE DEF cfg, o
<1>5. \A f \in OutputFields : reg'[f] = reg[f]
  BY <1>3, <1>4
<1>6. (\A f \in ClockFields : reg'[f] = reg[f]) \/ (is_provider' /\ HasClock(mclk_freq, cfg))
  BY <1>2, <1>3, <1>4
<1> QED
  BY <1>5, <1>6 DEF cfg

\* A configure that fails starts, unmutes and powers nothing, and changes no
\* volume, for every configuration and whatever fails on the bus.
THEOREM FailureIsSilent == Spec => FailedConfigureSilent
<1>1. TypeInv /\ [Next]_vars =>
         [FailedConfigure => \A f \in OutputFields : reg'[f] = reg[f]]_vars
  BY FailedWrites
<1> QED
  BY <1>1, TypeInvariance, PTL DEF Spec, FailedConfigureSilent

\* Only the dividers of a provider can fail after the clock tree was touched.
THEOREM ClockTreeIsKept == Spec => ClockTreeKept
<1>1. ASSUME TypeInv, [Next]_vars, FailedConfigure
      PROVE  \/ \A f \in ClockFields : reg'[f] = reg[f]
             \/ is_provider' /\ mclk_freq # 0 /\ HasCoeff(mclk_freq, last'.cfg.rate)
  <2>1. CASE \A f \in ClockFields : reg'[f] = reg[f]
    BY <2>1
  <2>2. CASE is_provider' /\ HasClock(mclk_freq, last'.cfg)
    <3>1. is_provider' = Provider(last'.cfg)
      BY <1>1 DEF FailedConfigure, Configure
    <3> QED
      BY <2>2, <3>1 DEF HasClock, ClockFreq
  <2> QED
    BY <1>1, <2>1, <2>2, FailedWrites
<1>2. TypeInv /\ [Next]_vars =>
         [FailedConfigure =>
            \/ \A f \in ClockFields : reg'[f] = reg[f]
            \/ is_provider' /\ mclk_freq # 0 /\ HasCoeff(mclk_freq, last'.cfg.rate)]_vars
  BY <1>1
<1> QED
  BY <1>2, TypeInvariance, PTL DEF Spec, ClockTreeKept
-----------------------------------------------------------------------------
(* What 0 means: the two claims of the README, and what they depend on *)

\* The role, the formats and the word lengths a successful call has written.
LEMMA OutcomeProgrammed ==
    ASSUME NEW mclk \in MclkFreqs, NEW cfg \in Configs, Outcome(mclk, cfg).ret = "ok"
    PROVE  LET upd == Outcome(mclk, cfg).upd
           IN  /\ {"msc"} \cup PortFields \subseteq DOMAIN upd
               /\ upd["msc"] = Provider(cfg)
               /\ upd["fmt_in"] = DaiFormat(cfg.dai) /\ upd["fmt_out"] = DaiFormat(cfg.dai)
               /\ upd["wl_in"] = cfg.word /\ upd["wl_out"] = cfg.word
<1> DEFINE upd == Outcome(mclk, cfg).upd
<1>1. /\ \A f \in DOMAIN Dai(cfg).upd : f \in DOMAIN upd /\ upd[f] = Dai(cfg).upd[f]
      /\ \A f \in DOMAIN Words(cfg).upd : f \in DOMAIN upd /\ upd[f] = Words(cfg).upd[f]
  BY Carried
<1>2. Words(cfg).ret = "ok" /\ Dai(cfg).ret = "ok"
  BY AllPassed
<1>3. /\ {"msc", "fmt_in", "fmt_out"} \subseteq DOMAIN Dai(cfg).upd
      /\ {"wl_in", "wl_out"} \subseteq DOMAIN Words(cfg).upd
  BY <1>2, DaiStage, WordsStage DEF Continues
<1> HIDE DEF upd
<1> QED
  BY <1>1, <1>2, <1>3, DaiStage, WordsStage DEF PortFields, upd

LEMMA ProgrammedKept ==
    ASSUME ~Lossy, TypeInv, SuccessMeansProgrammed, [Next]_vars
    PROVE  SuccessMeansProgrammed'
<1>1. CASE Initialize
  BY <1>1 DEF TypeInv, Initialize, SuccessMeansProgrammed, Configured
<1>2. ASSUME NEW cfg \in Configs, Configure(cfg) PROVE SuccessMeansProgrammed'
  <2> DEFINE o == Outcome(mclk_freq, cfg)
  <2>1. /\ mclk_freq \in MclkFreqs /\ is_provider' = Provider(cfg)
        /\ last'.ret = o.ret /\ last'.cfg = cfg
        /\ \E lost \in Losses(o.upd) : reg' = Written(o.upd, lost)
    BY <1>2, ConfigureStep
  <2>2. \A f \in Fields : reg'[f] = IF f \in DOMAIN o.upd THEN o.upd[f] ELSE reg[f]
    BY <2>1, WrittenExactly DEF TypeInv
  <2>3. o.ret = "ok" => /\ reg'["msc"] = Provider(cfg)
                        /\ reg'["fmt_in"] = DaiFormat(cfg.dai)
                        /\ reg'["fmt_out"] = DaiFormat(cfg.dai)
                        /\ reg'["wl_in"] = cfg.word /\ reg'["wl_out"] = cfg.word
    BY <2>1, <2>2, OutcomeProgrammed DEF Fields, PortFields
  <2> HIDE DEF o
  <2> QED
    BY <2>1, <2>3 DEF SuccessMeansProgrammed, Configured
<1>3. ASSUME NEW upd, Output(upd), Call(upd) PROVE SuccessMeansProgrammed'
  <2>1. PICK lost : reg' = Written(upd, lost)
    BY <1>3 DEF Call
  <2>2. \A f \in Fields \ OutputFields : reg'[f] = reg[f]
    BY <1>3, <2>1 DEF Written, TypeInv, Output
  <2>3. /\ UNCHANGED <<is_provider, last>>
        /\ \A f \in {"msc"} \cup PortFields : reg'[f] = reg[f]
    BY <1>3, <2>2 DEF Call, Fields, OutputFields, PortFields
  <2> QED
    BY <2>3 DEF SuccessMeansProgrammed, Configured, PortFields
<1>4. CASE UNCHANGED vars
  BY <1>4 DEF vars, SuccessMeansProgrammed, Configured
<1> QED
  BY <1>1, <1>2, <1>3, <1>4, OtherCalls

\* On a bus that does not fail, a configure that returned 0 has programmed the
\* role, the formats and the word lengths asked for, and they stay: what a
\* failing access hides is all that is missing of the claim.
THEOREM SuccessIsProgrammed == ASSUME ~Lossy PROVE Spec => []SuccessMeansProgrammed
<1>1. Init => SuccessMeansProgrammed
  BY DEF Init, NoConfig, SuccessMeansProgrammed, Configured
<1>2. TypeInv /\ SuccessMeansProgrammed /\ [Next]_vars => SuccessMeansProgrammed'
  BY ProgrammedKept
<1> QED
  BY <1>1, <1>2, TypeInvariance, PTL DEF Spec

\* If the option's constant were a bit, as the driver takes it to be, a caller
\* that asks for a consumer would get one, whatever fails on the bus.
THEOREM ConsumerWithABit == ASSUME ~MasterIsZero PROVE Spec => []ConsumerHonoured
<1>1. Init => ConsumerHonoured
  BY DEF Init, NoConfig, ConsumerHonoured, Configured
<1>2. ASSUME TypeInv, ConsumerHonoured, [Next]_vars PROVE ConsumerHonoured'
  <2>1. CASE Initialize
    BY <1>2, <2>1 DEF TypeInv, Initialize, ConsumerHonoured, Configured
  <2>2. ASSUME NEW cfg \in Configs, Configure(cfg) PROVE ConsumerHonoured'
    <3>1. is_provider' = Provider(cfg) /\ last'.cfg = cfg
      BY <1>2, <2>2, ConfigureStep
    <3> QED
      BY <3>1 DEF ConsumerHonoured, Provider
  <2>3. ASSUME NEW upd, Output(upd), Call(upd) PROVE ConsumerHonoured'
    BY <1>2, <2>3 DEF Call, ConsumerHonoured, Configured
  <2>4. CASE UNCHANGED vars
    BY <1>2, <2>4 DEF vars, ConsumerHonoured, Configured
  <2> QED
    BY <1>2, <2>1, <2>2, <2>3, <2>4, OtherCalls
<1> QED
  BY <1>1, <1>2, TypeInvariance, PTL DEF Spec
=============================================================================
