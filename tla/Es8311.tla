------------------------------- MODULE Es8311 -------------------------------
(***************************************************************************)
(* The ES8311 codec driver: its data (mclk_freq, is_provider), the fields  *)
(* of the codec's registers it writes over I2C, and the calls of the audio *)
(* codec API.  A field here is what one es8311_update_reg() or             *)
(* es8311_write_reg() call writes.  The driver drops the result of most of *)
(* these calls, so a call that fails on the bus only leaves its field      *)
(* unchanged.                                                              *)
(***************************************************************************)
EXTENDS Es8311Clock

CONSTANTS
    MclkFreqs,       \* master clocks a board may have; 0: none
    ConfigRates,     \* sample rates a caller may ask for
    WordSizes,       \* word sizes a caller may ask for
    DaiTypes,        \* DAI types a caller may ask for
    Volumes,         \* volumes a caller may ask for
    MasterIsZero,    \* Zephyr's I2S_OPT_FRAME_CLK_MASTER is 0 (it is), not a bit
    Lossy            \* whether an I2C access may fail: at most one in a call

ASSUME Es8311Assumption ==
    /\ MclkFreqs \subseteq Nat /\ ConfigRates \subseteq Nat \ {0}
    /\ WordSizes \subseteq Nat \ {0} /\ Volumes \subseteq Int
    /\ DaiTypes \subseteq {"i2s", "left", "right", "pcma", "pcmb"}
    /\ MasterIsZero \in BOOLEAN /\ Lossy \in BOOLEAN

\* What a caller passes to es8311_configure().  role is the one it sets in the
\* I2S options: I2S_OPT_FRAME_CLK_MASTER or I2S_OPT_FRAME_CLK_SLAVE.
Configs == [rate : ConfigRates, word : WordSizes, dai : DaiTypes,
            playback : BOOLEAN, role : {"provider", "consumer"}]

VARIABLES
    ready,         \* es8311_initialize() has run
    mclk_freq,     \* data->mclk_freq
    is_provider,   \* data->is_provider
    reg,           \* the codec's register fields
    last           \* what the last es8311_configure() was given and returned

vars == <<ready, mclk_freq, is_provider, reg, last>>

PowerOn ==
    [msc |-> FALSE, fmt_in |-> "i2s", fmt_out |-> "i2s", wl_in |-> 24, wl_out |-> 24,
     source |-> "off", pre |-> <<1, 1>>, adc_dac |-> 1, lrclk_h |-> 0, lrclk_l |-> 255,
     bclk |-> 3, dac_clk |-> FALSE, dac_power |-> FALSE, dac_mute |-> FALSE,
     adc_mute |-> FALSE, dac_volume |-> 0, adc_volume |-> 0]

ClockFields == {"source", "pre", "adc_dac", "lrclk_h", "lrclk_l", "bclk"}
OutputFields == {"dac_clk", "dac_power", "dac_mute", "adc_mute", "dac_volume", "adc_volume"}

NoConfig == [ret |-> "none"]

\* reg after the writes in upd, of which those in lost failed on the bus.
Written(upd, lost) ==
    LET through == DOMAIN upd \ lost
    IN  [f \in DOMAIN reg |-> IF f \in through THEN upd[f] ELSE reg[f]]

\* The sets of accesses that may fail in one call that writes upd.
Losses(upd) == {{}} \cup (IF Lossy THEN {{f} : f \in DOMAIN upd} ELSE {})

Merge(u, v) == [f \in DOMAIN u \cup DOMAIN v |-> IF f \in DOMAIN v THEN v[f] ELSE u[f]]
Nothing == [f \in {} |-> FALSE]
-----------------------------------------------------------------------------
(* es8311_configure(): the writes in their order, each batch behind the test *)
(* that guards it; the first test that fails ends the call with an error.   *)

\* What a call o that has got this far returns and writes after the next test.
Try(o, test, upd) ==
    IF o.ret = "ok" /\ test THEN [ret |-> "ok", upd |-> Merge(o.upd, upd)]
    ELSE [ret |-> "err", upd |-> o.upd]

\* The test (options & MASTER) == MASTER; masking with 0 always passes it.
Provider(cfg) == cfg.role = "provider" \/ MasterIsZero

\* The format as the codec sees it: format bits and the LRP bit.
DaiFormat(dai) ==
    CASE dai = "pcma" -> "dsp" [] dai = "pcmb" -> "dsp_lrp" [] OTHER -> dai

\* mclk is data->mclk_freq.  With no master clock, BCLK takes its place.
ClockFreq(mclk, cfg) == IF mclk = 0 THEN cfg.rate * cfg.word * 2 ELSE mclk

Begin(upd) == [ret |-> "ok", upd |-> upd]

\* Mutant of Dai: the DAI type is checked first.
DaiTypeFirst(cfg) ==
    Try(Begin(Nothing), cfg.dai # "right",
        [msc |-> Provider(cfg), fmt_in |-> DaiFormat(cfg.dai), fmt_out |-> DaiFormat(cfg.dai)])

Dai(cfg) ==
    Try(Begin([msc |-> Provider(cfg)]), cfg.dai # "right",
        [fmt_in |-> DaiFormat(cfg.dai), fmt_out |-> DaiFormat(cfg.dai)])

Words(cfg) ==
    Try(Dai(cfg), cfg.word \in {16, 18, 20, 24, 32}, [wl_in |-> cfg.word, wl_out |-> cfg.word])

SourceOf(mclk) == IF mclk = 0 THEN "bclk" ELSE "mclk"

HasClock(mclk, cfg) ==
    /\ mclk <= MclkMaxFreq
    /\ mclk # 0 \/ ~Provider(cfg)
    /\ HasCoeff(ClockFreq(mclk, cfg), cfg.rate)

\* Mutant of Source: the clock source is switched before the search.
SourceFirst(mclk, cfg) ==
    Try(Try(Words(cfg), TRUE, [source |-> SourceOf(mclk)]), HasClock(mclk, cfg), Nothing)

Source(mclk, cfg) == Try(Words(cfg), HasClock(mclk, cfg), [source |-> SourceOf(mclk)])

Predivided(mclk, cfg) ==
    LET c == GetCoeff(ClockFreq(mclk, cfg), cfg.rate)
    IN  Try(Source(mclk, cfg), Encodable(c),
            [pre |-> <<c.div, c.mult>>, adc_dac |-> c.div_adc_dac])

\* Mutant of LrclkWrites: the low byte is not masked.
LrclkUnmasked(div) == [lrclk_h |-> (div - 1) \div 256, lrclk_l |-> div - 1]

\* Mutant of LrclkWrites: the divider itself is written, not less one.
LrclkOffByOne(div) == [lrclk_h |-> div \div 256, lrclk_l |-> div % 256]

LrclkWrites(div) == [lrclk_h |-> (div - 1) \div 256, lrclk_l |-> (div - 1) % 256]

\* The provider's own dividers.
Framed(mclk, cfg) ==
    LET div == LrclkDiv(ClockFreq(mclk, cfg), cfg.rate)
    IN  IF Provider(cfg)
        THEN Try(Predivided(mclk, cfg), div \in 1..LrclkDivMax, LrclkWrites(div))
        ELSE Predivided(mclk, cfg)

Clocked(mclk, cfg) ==
    LET lrclk == LrclkDiv(ClockFreq(mclk, cfg), cfg.rate)
        bclk  == BclkDiv(ClockFreq(mclk, cfg), cfg.rate, cfg.word)
    IN  IF Provider(cfg)
        THEN Try(Framed(mclk, cfg), lrclk % (2 * cfg.word) = 0 /\ HasBclkDiv(bclk),
                 [bclk |-> BclkField(bclk)])
        ELSE Framed(mclk, cfg)

StartOutputWrites == [dac_clk |-> TRUE, dac_power |-> TRUE, dac_mute |-> FALSE]

StartWrites(cfg) == IF cfg.playback THEN StartOutputWrites ELSE Nothing

\* Mutant of Outcome: the output is started although the format was refused.
StartAnyway(mclk, cfg) ==
    LET o == Clocked(mclk, cfg) IN [ret |-> o.ret, upd |-> Merge(o.upd, StartWrites(cfg))]

\* The whole call: its result, and every write it issues.
Outcome(mclk, cfg) == Try(Clocked(mclk, cfg), TRUE, StartWrites(cfg))

Outcomes == [call \in MclkFreqs \X Configs |-> Outcome(call[1], call[2])]

Configure(cfg) ==
    /\ ready
    /\ LET o == Outcomes[<<mclk_freq, cfg>>]
       IN  \E lost \in Losses(o.upd) :
             /\ reg' = Written(o.upd, lost)
             /\ last' = [ret |-> o.ret, cfg |-> cfg]
    /\ is_provider' = Provider(cfg)
    /\ UNCHANGED <<ready, mclk_freq>>
-----------------------------------------------------------------------------
(* The other calls *)

\* A call that issues the writes in upd and changes nothing else.
Call(upd) ==
    /\ ready
    /\ \E lost \in Losses(upd) : reg' = Written(upd, lost)
    /\ UNCHANGED <<ready, mclk_freq, is_provider, last>>

StartOutput == Call(StartOutputWrites)
StopOutput  == Call([dac_mute |-> TRUE])
SetOutputMute(mute) == Call([dac_mute |-> mute])
SetInputMute(mute)  == Call([adc_mute |-> mute])

\* The property's value is an int, the register a byte.
SetOutputVolume(vol) == Call([dac_volume |-> vol % 256])
SetInputVolume(vol)  == Call([adc_volume |-> vol % 256])

\* es8311_initialize(), once the chip has answered with its identity: reset,
\* power, volume, unmute, and the master clock of the clock controller or the DT.
Initialize ==
    /\ ~ready /\ ready' = TRUE
    /\ mclk_freq' \in MclkFreqs
    /\ LET upd == [dac_power |-> TRUE, dac_mute |-> FALSE, dac_volume |-> 240]
       IN  \E lost \in Losses(upd) : reg' = Written(upd, lost)
    /\ UNCHANGED <<is_provider, last>>

Init ==
    /\ ready = FALSE /\ mclk_freq = 0 /\ is_provider = FALSE
    /\ reg = PowerOn /\ last = NoConfig

Next ==
    \/ Initialize
    \/ \E cfg \in Configs : Configure(cfg)
    \/ StartOutput \/ StopOutput
    \/ \E mute \in BOOLEAN : SetOutputMute(mute) \/ SetInputMute(mute)
    \/ \E vol \in Volumes : SetOutputVolume(vol) \/ SetInputVolume(vol)

Spec == Init /\ [][Next]_vars
-----------------------------------------------------------------------------
(* Properties *)

TypeOK ==
    /\ ready \in BOOLEAN /\ is_provider \in BOOLEAN /\ mclk_freq \in MclkFreqs \cup {0}
    /\ reg.wl_in \in {16, 18, 20, 24, 32} /\ reg.pre \in (1..8) \X {1, 2, 4, 8}
    /\ reg.adc_dac \in 1..8 /\ reg.lrclk_h \in 0..15 /\ reg.lrclk_l \in 0..255
    /\ reg.bclk \in 0..31 /\ reg.dac_volume \in 0..255 /\ reg.adc_volume \in 0..255
    /\ last.ret \in {"none", "ok", "err"}

Configured == last.ret = "ok"

\* A configure that returned 0 has left a clock tree that runs the converters
\* at 256 times the sample rate asked for, from the clock source in use.
ConverterClockRight ==
    Configured =>
        LET cfg == last.cfg
            c == [rate |-> cfg.rate, div |-> reg.pre[1], mult |-> reg.pre[2],
                  div_adc_dac |-> reg.adc_dac]
        IN  ClockLaw(c, ClockFreq(mclk_freq, cfg)) /\ (reg.source = "bclk") = (mclk_freq = 0)

\* As a provider it generates exactly the frame clock asked for, and a bit
\* clock of two words in a frame, through the register encodings.
ProviderClocksRight ==
    Configured /\ is_provider =>
        LET cfg == last.cfg
            lrclk == reg.lrclk_h * 256 + reg.lrclk_l + 1
        IN  /\ mclk_freq # 0
            /\ lrclk * cfg.rate = mclk_freq
            /\ BclkDivOf(reg.bclk) * 2 * cfg.word = lrclk

\* The role the driver believes in is the role the codec has, and both
\* directions of the serial port have the same format and word length, also
\* after a configure that failed half way.
RoleAndPortsAgree ==
    /\ last.ret # "none" => reg.msc = is_provider
    /\ reg.fmt_in = reg.fmt_out /\ reg.wl_in = reg.wl_out

FailedConfigure == last'.ret = "err" /\ Configure(last'.cfg)

\* A configure that fails does not start, unmute or power anything, nor
\* change a volume.
FailedConfigureSilent ==
    [][FailedConfigure =>
          \A f \in OutputFields : reg'[f] = reg[f]]_vars

\* A configure that fails for want of a clock leaves the clock tree of the
\* running stream alone; only the provider's own dividers fail too late.
ClockTreeKept ==
    [][FailedConfigure =>
          \/ \A f \in ClockFields : reg'[f] = reg[f]
          \/ is_provider' /\ mclk_freq # 0 /\ HasCoeff(mclk_freq, last'.cfg.rate)]_vars

\* README.md: consumer mode is supported; a caller that asks for a
\* consumer gets one.
ConsumerHonoured == Configured /\ last.cfg.role = "consumer" => ~is_provider

\* README.md: accesses have "proper error handling": 0 means programmed.
SuccessMeansProgrammed ==
    Configured => /\ reg.wl_in = last.cfg.word /\ reg.wl_out = last.cfg.word
                  /\ reg.fmt_in = DaiFormat(last.cfg.dai) /\ reg.fmt_out = reg.fmt_in
                  /\ reg.msc = is_provider
=============================================================================
