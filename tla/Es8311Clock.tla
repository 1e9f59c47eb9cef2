----------------------------- MODULE Es8311Clock -----------------------------
(***************************************************************************)
(* The clock arithmetic of drivers/audio/es8311: which pre-divider,        *)
(* multiplier and ADC/DAC divider a master clock and a sample rate call    *)
(* for, and which LRCLK and BCLK dividers the codec needs as a provider.   *)
(***************************************************************************)
EXTENDS Integers, Sequences

Row(r, m, d, x, a) == [rate |-> r, mclk |-> m, div |-> d, mult |-> x, div_adc_dac |-> a]

\* es8311_mclk_coeffs
Coeffs == <<
    Row( 8000,  2048000, 1, 1, 1), Row( 8000,  6144000, 3, 1, 1), Row( 8000, 18432000, 3, 1, 3),
    Row(11025,  2822400, 1, 1, 1), Row(11025,  8467200, 3, 1, 1),
    Row(16000,  4096000, 1, 1, 1), Row(16000, 12288000, 3, 1, 1), Row(16000, 18432000, 3, 2, 3),
    Row(22050,  5644800, 1, 1, 1), Row(22050, 16934400, 3, 1, 1),
    Row(32000,  8192000, 1, 1, 1), Row(32000, 12288000, 3, 2, 1), Row(32000, 18432000, 3, 4, 3),
    Row(44100, 11289600, 1, 1, 1), Row(44100, 33868800, 3, 1, 1),
    Row(48000, 12288000, 1, 1, 1), Row(48000, 18432000, 3, 2, 1),
    Row(64000,  8192000, 1, 2, 1), Row(64000, 12288000, 3, 4, 1),
    Row(88200, 11289600, 1, 2, 1), Row(88200, 33868800, 3, 2, 1),
    Row(96000, 12288000, 1, 2, 1), Row(96000, 18432000, 3, 4, 1) >>

Rates == {Coeffs[i].rate : i \in DOMAIN Coeffs}

MclkMaxFreq == 49200000

\* es8311_cmp_adj_mclk_coeff(): the row itself, the row with a larger
\* pre-divider, or the row with a larger multiplier.  Divides(a, b) is the C
\* test b % a == 0.
Divides(a, b) == b % a = 0

\* Mutant of Adjusted: the row is returned as it stands in the table.
NotAdjusted(c, freq) == c

Adjusted(c, freq) ==
    IF c.mclk = freq THEN c
    ELSE IF Divides(c.mclk, freq)
         THEN Row(c.rate, c.mclk, (freq \div c.mclk) * c.div, c.mult, c.div_adc_dac)
         ELSE Row(c.rate, c.mclk, c.div, (c.mclk \div freq) * c.mult, c.div_adc_dac)

Matches(c, freq) ==
    \/ c.mclk = freq
    \/ Divides(c.mclk, freq) /\ (freq \div c.mclk) * c.div <= 8
    \/ /\ ~Divides(c.mclk, freq) /\ Divides(freq, c.mclk)
       /\ c.mclk \div freq \in {2, 4, 8} /\ (c.mclk \div freq) * c.mult <= 8

\* es8311_get_mclk_coeff(): the first row of the rate that matches.
Candidates(freq, rate) ==
    {i \in DOMAIN Coeffs : Coeffs[i].rate = rate /\ Matches(Coeffs[i], freq)}

HasCoeff(freq, rate) == Candidates(freq, rate) # {}

GetCoeff(freq, rate) ==
    LET rows == Candidates(freq, rate)
    IN  Adjusted(Coeffs[CHOOSE i \in rows : \A j \in rows : i <= j], freq)

\* The test of es8311_configure_fmt() on the row: what the register fields can
\* hold.  MULT_PRE encodes 1, 2, 4, 8.
Encodable(c) == c.div \in 1..8 /\ c.div_adc_dac \in 1..8 /\ c.mult \in {1, 2, 4, 8}

\* The provider's dividers (es8311_configure_fmt): LRCLK from the master
\* clock, and BCLK with two words in a frame.
LrclkDiv(freq, rate) == freq \div rate
LrclkDivMax == 4095 + 1

BclkDivs == <<22, 24, 25, 30, 32, 33, 34, 36, 44, 48, 66, 72>>
BclkDivIdxOffset == 20

BclkDiv(freq, rate, word) == LrclkDiv(freq, rate) \div (2 * word)

HasBclkDiv(div) == div <= BclkDivIdxOffset \/ \E i \in DOMAIN BclkDivs : BclkDivs[i] = div

\* The value of the register field: the driver counts the table from 0.
BclkField(div) ==
    IF div <= BclkDivIdxOffset THEN div - 1
    ELSE (CHOOSE i \in DOMAIN BclkDivs : BclkDivs[i] = div) - 1 + BclkDivIdxOffset
------------------------------------------------------------------------------
(* What the numbers mean (the codec, external) *)

\* The converters run at 256 times the sample rate: the master clock, divided
\* and multiplied, over the ADC/DAC divider.
ClockLaw(c, freq) == freq * c.mult = 256 * c.rate * c.div * c.div_adc_dac

\* How the codec reads its BCLK divider field.
BclkDivOf(field) ==
    IF field < BclkDivIdxOffset THEN field + 1 ELSE BclkDivs[field - BclkDivIdxOffset + 1]
==============================================================================
