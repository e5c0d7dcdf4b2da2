---- MODULE Signals ----
(***************************************************************************)
(* From prices to trade signals (source-crypto-trade): the charts the       *)
(* analysis reads, and the verdicts it draws from them.                     *)
(*                                                                         *)
(* A chart belongs to one market (a pair at a venue): its candles are        *)
(* fetched once, in the background, while the snapshots of the worker's polls *)
(* wait; from then on each snapshot goes into the last candle.  The charts    *)
(* are one map for the whole process; every few minutes the tick of some user *)
(* writes them to that user's cache, and the first tick of a user after a     *)
(* start replaces all of them by what his cache holds.                       *)
(*                                                                         *)
(* Time is counted in polls.  A price is known by the poll it was read at,    *)
(* so a candle's open and close say which prices it covers.                  *)
(***************************************************************************)
EXTENDS Integers, Sequences, FiniteSets, FiniteSetsExt

CONSTANTS Frames,        \* timeframes analysed: entry (5m), confirm (15m), bias (1h)
          EntryPolls,    \* polls in a candle of the entry frame
          KeepBars, KeepPending,
          SnapLag,       \* polls a cached price may be old
          ChartUsers,
          ChartBegin, ChartEnd,  \* the polls looked at
          MaxCharts, ChartStarts, MaxFlushes,
          Readings       \* what the indicators may say, see Reading

ASSUME ChartConstants ==
    /\ Frames \subseteq {"entry", "confirm", "bias"} /\ Frames # {}
    /\ {EntryPolls, KeepBars, KeepPending} \subseteq Nat \ {0}
    /\ {SnapLag, ChartBegin, ChartEnd, MaxCharts, ChartStarts, MaxFlushes} \subseteq Nat
    /\ SnapLag <= ChartBegin /\ ChartBegin <= ChartEnd

VARIABLES chart,       \* analysisStates: the entry of the market
          boots,       \* bootstrapAnalysisState() calls that run
          chartCache,  \* [ChartUsers -> what the user's cache says of the market]
          loadedFor,   \* analysisCacheLoadedFor
          chartNow, charts, chartStarts, flushes,
          watched,     \* history: snapshots applied since the chart came to be
          verdict      \* the last thing said of a reading

chartVars == <<chart, boots, chartCache, loadedFor, chartNow, charts, chartStarts, flushes, watched>>

FramePolls(f) == EntryPolls * (CASE f = "entry" -> 1 [] f = "confirm" -> 3 [] f = "bias" -> 12)

\* bucketTime()
Bucket(f, ts) == ts \div FramePolls(f)

NoBars == [f \in Frames |-> <<>>]
Unread == [f \in Frames |-> -1]
NoChart == [phase |-> "none", id |-> 0, bars |-> NoBars, pending |-> <<>>, born |-> 0, read |-> Unread]
NoCache == [phase |-> "nothing", bars |-> NoBars]

ChartsInit ==
    /\ chart = NoChart /\ boots = {} /\ loadedFor = {}
    /\ chartCache = [u \in ChartUsers |-> NoCache]
    /\ chartNow = ChartBegin /\ charts = 0 /\ chartStarts = 0 /\ flushes = 0
    /\ watched = <<>>

----------------------------------------------------------------------------
\* Candles.

LastOf(bars, n) == SubSeq(bars, Max({1, Len(bars) - n + 1}), Len(bars))

\* applySnapshotToCandles(): whatever the last candle's bucket is, another one begins a
\* new candle.
Applied(bars, f, ts) ==
    LET n == Len(bars)
        time == Bucket(f, ts)
    IN LastOf(IF n > 0 /\ bars[n].time = time
              THEN [bars EXCEPT ![n].close = ts, ![n].volume = @ + 1]
              ELSE Append(bars, [time |-> time, open |-> ts, close |-> ts, volume |-> 1]),
              KeepBars)

AppliedEach(bars, f, snaps) ==
    LET after[n \in 0 .. Len(snaps)] == IF n = 0 THEN bars ELSE Applied(after[n - 1], f, snaps[n])
    IN after[Len(snaps)]
ApplyAll(bars, snaps) == [f \in Frames |-> AppliedEach(bars[f], f, snaps)]

\* fetchHistoricalCandles(): what a venue says of the candles so far, the running one
\* included; <<>> when anything fails.
VenueBars(f) ==
    LET size == FramePolls(f)
        bar(time) == [time |-> time, open |-> time * size,
                      close |-> Min({chartNow, (time + 1) * size - 1}),
                      volume |-> Min({chartNow, (time + 1) * size - 1}) - time * size + 1]
        last == Bucket(f, chartNow)
        first == Max({0, last - KeepBars + 1})
    IN [i \in 1 .. last - first + 1 |-> bar(first + i - 1)]

\* updateAnalysisState()
Updated(c, ts) ==
    IF c.phase = "ready"
    THEN [c EXCEPT !.bars = ApplyAll(@, <<ts>>)]
    ELSE [c EXCEPT !.pending = LastOf(Append(@, ts), KeepPending)]

\* ensureAnalysisBootstrap(): an unknown market gets a chart and starts fetching.
EnsureChart ==
    IF chart.phase # "none" THEN UNCHANGED <<boots, charts>>
    ELSE /\ charts < MaxCharts /\ charts' = charts + 1
         /\ boots' = boots \union {[id |-> charts', read |-> Unread, bars |-> NoBars]}

\* One poll of the market: the venue has a price, perhaps a little old, or it has none.
PollMarket ==
    /\ chartNow < ChartEnd /\ loadedFor # {} /\ chartNow' = chartNow + 1
    /\ \/ UNCHANGED <<chart, boots, charts, watched>>
       \/ \E ts \in chartNow - SnapLag .. chartNow :
            /\ EnsureChart
            /\ LET c == IF chart.phase # "none" THEN chart
                        ELSE [NoChart EXCEPT !.phase = "fetching", !.id = charts', !.born = chartNow]
               IN chart' = Updated(c, ts)
            /\ watched' = IF chart.phase = "ready" THEN Append(watched, ts) ELSE <<>>
    /\ UNCHANGED <<chartCache, loadedFor, chartStarts, flushes>>

\* The venue answers for one of the frames.
FrameAnswered(b, f) ==
    /\ b.read[f] = -1
    /\ \E answer \in {VenueBars(f), <<>>} :
         boots' = (boots \ {b}) \union {[b EXCEPT !.read[f] = chartNow, !.bars[f] = answer]}
    /\ UNCHANGED <<chart, chartCache, loadedFor, chartNow, charts, chartStarts, flushes, watched>>

\* A mutant: what was fetched goes to whatever chart the map holds by then.
BootEndsAnyhow(b) ==
    /\ (\A f \in Frames : b.read[f] # -1) /\ boots' = boots \ {b}
    /\ chart' = [chart EXCEPT !.phase = "ready", !.pending = <<>>,
                    !.bars = ApplyAll(b.bars, chart.pending), !.read = b.read]
    /\ watched' = chart.pending
    /\ UNCHANGED <<chartCache, loadedFor, chartNow, charts, chartStarts, flushes>>

\* The end of bootstrapAnalysisState(): it writes to the chart it was started for, which
\* need not be in the map any more.  The snapshots that waited go on top of what came.
BootEnds(b) ==
    /\ \A f \in Frames : b.read[f] # -1
    /\ boots' = boots \ {b}
    /\ IF chart.id = b.id
       THEN /\ chart' = [chart EXCEPT !.phase = "ready", !.pending = <<>>,
                           !.bars = ApplyAll(b.bars, chart.pending),
                           !.read = b.read]
            /\ watched' = chart.pending
       ELSE UNCHANGED <<chart, watched>>
    /\ UNCHANGED <<chartCache, loadedFor, chartNow, charts, chartStarts, flushes>>

\* pruneInactivePairState(): the pair is not scanned any more.
PruneChart ==
    /\ chart.phase # "none" /\ chart' = NoChart /\ watched' = <<>>
    /\ UNCHANGED <<boots, chartCache, loadedFor, chartNow, charts, chartStarts, flushes>>

\* serializeAnalysisStates(): a chart that is still fetching is written with no candles.
SavedChart(c) == [phase |-> c.phase, bars |-> c.bars]

\* The end of a tick of u, every few minutes of the process.
FlushCache(u) ==
    /\ u \in loadedFor /\ flushes < MaxFlushes /\ flushes' = flushes + 1
    /\ chartCache' = [chartCache EXCEPT ![u] = SavedChart(chart)]
    /\ UNCHANGED <<chart, boots, loadedFor, chartNow, charts, chartStarts, watched>>

\* restoreAnalysisStates(): the charts of whoever ticked before are gone, and what the
\* cache names counts as fetched.
RestoredChart(saved) ==
    IF saved.phase = "none" THEN NoChart
    ELSE [NoChart EXCEPT !.phase = "ready", !.bars = saved.bars, !.born = chartNow]

\* The first tick of a user.
FirstTick(u) ==
    /\ u \notin loadedFor /\ loadedFor' = loadedFor \union {u}
    /\ IF chartCache[u].phase = "nothing" THEN UNCHANGED <<chart, watched>>
       ELSE chart' = RestoredChart(chartCache[u]) /\ watched' = <<>>
    /\ UNCHANGED <<boots, chartCache, chartNow, charts, chartStarts, flushes>>

RestartCharts ==
    /\ chartStarts < ChartStarts /\ chartStarts' = chartStarts + 1
    /\ chart' = NoChart /\ boots' = {} /\ loadedFor' = {} /\ watched' = <<>>
    /\ UNCHANGED <<chartCache, chartNow, charts, flushes>>

ChartsNext ==
    \/ PollMarket \/ PruneChart \/ RestartCharts
    \/ \E b \in boots : BootEnds(b) \/ \E f \in Frames : FrameAnswered(b, f)
    \/ \E u \in ChartUsers : FlushCache(u) \/ FirstTick(u)

ChartsSpec == ChartsInit /\ [][ChartsNext]_chartVars

----------------------------------------------------------------------------
\* Verdicts.  A reading is what the indicators say of the last candle: where its close
\* stands to both EMAs and the VWAP (trend), to the VWAP alone, to the highs and lows of
\* the eleven candles before (range) and of the one before (last); the order of the EMAs
\* with the close outside them (aligned); the hourly (bias) and 15-minute (confirm) EMAs;
\* the zone of the RSI and its move; the moves of the MACD histogram and its line against
\* the signal; how wide the market moves (atr: below 0.18 %, 0.2 %, 0.35 %, or not; narrow:
\* less than 1 % in all), how much is traded (volume: below 1.1, 1.2, or not), whether the
\* spread and the target clear the costs, whether all frames have candles enough (60, 30
\* and 55), and whether the cooldown or the kill switch is on.

Reading == [trend : {"above", "below", "mixed"}, aligned : {"up", "down", "none"},
            vwap : {"above", "at", "below"}, bias : {"bull", "bear", "flat"},
            confirm : {"bull", "bear", "neutral"},
            rsi : 1 .. 5, rsiMoves : {-1, 0, 1}, momentum : {-1, 0, 1}, line : {-1, 0, 1},
            range : {"above", "top", "inside", "bottom", "below"},
            last : {"above", "within", "below"},
            atr : 0 .. 3, narrow : BOOLEAN, volume : 0 .. 2,
            spreadOk : BOOLEAN, targetOk : BOOLEAN,
            warm : BOOLEAN, blocked : BOOLEAN]

ASSUME ReadingConstants == Readings \subseteq Reading

\* What one series of prices can show at once: a close under every low of the last hour
\* is under the close before it, so the RSI does not rise.
Consistent(r) ==
    /\ r.trend = "above" => r.vwap = "above" /\ r.aligned # "down"
    /\ r.trend = "below" => r.vwap = "below" /\ r.aligned # "up"
    /\ r.aligned = "up" /\ r.vwap = "above" => r.trend = "above"
    /\ r.aligned = "down" /\ r.vwap = "below" => r.trend = "below"
    /\ r.range \in {"bottom", "below"} => r.rsiMoves # 1 /\ r.last # "above"
    /\ r.range \in {"top", "above"} => r.rsiMoves # -1 /\ r.last # "below"
    /\ r.range = "below" => r.last = "below"
    /\ r.range = "above" => r.last = "above"

\* classifyRegime()
Regime(r) ==
    CASE r.atr = 0 /\ r.narrow -> "compression"
      [] ~(r.atr = 0 /\ r.narrow) /\ r.atr = 3 /\ r.volume = 2
           /\ r.range \in {"above", "top", "bottom", "below"} -> "breakout_expansion"
      [] OTHER -> CASE r.trend = "above" -> "uptrend"
                    [] r.trend = "below" -> "downtrend"
                    [] r.trend = "mixed" -> "sideways"

Silent == [side |-> "none", strength |-> 0]
Points(holds, n) == IF holds THEN n ELSE 0

\* buildCandidate() keeps scores within 100.
Candidate(direction, setup, score) ==
    [direction |-> direction, setup |-> setup, score |-> IF score > 100 THEN 100 ELSE score]

\* The candidates of one regime, in the order they are tried.
LongTrend(r) ==
    IF Regime(r) \in {"uptrend", "breakout_expansion"} /\ r.confirm = "bull"
    THEN <<Candidate("long", "long_trend_continuation",
             Points(r.bias = "bull", 25) + Points(r.aligned = "up", 25) + Points(r.vwap = "above", 20)
             + Points(r.rsi \in {2, 3} /\ r.rsiMoves = 1, 10)
             + Points(r.momentum = 1 /\ r.line >= 0, 20)
             + Points(r.volume >= 1, 10) + Points(r.spreadOk, 5))>>
    ELSE <<>>
ShortTrend(r) ==
    IF Regime(r) \in {"downtrend", "breakout_expansion"} /\ r.confirm = "bear"
    THEN <<Candidate("short", "short_trend_continuation",
             Points(r.bias = "bear", 25) + Points(r.aligned = "down", 25) + Points(r.vwap = "below", 20)
             + Points(r.rsi \in {3, 4} /\ r.rsiMoves = -1, 10)
             + Points(r.momentum = -1 /\ r.line <= 0, 20)
             + Points(r.volume >= 1, 10) + Points(r.spreadOk, 5))>>
    ELSE <<>>
LongMean(r) ==
    IF Regime(r) \in {"sideways", "uptrend"}
    THEN <<Candidate("long", "long_mean_reversion",
             Points(r.bias # "bear", 20) + Points(r.rsi = 1 \/ (r.rsi = 2 /\ r.rsiMoves = 1), 20)
             + Points(r.momentum = 1, 15) + Points(r.vwap # "below" \/ r.last = "above", 20)
             + Points(r.atr >= 2, 10) + Points(r.volume >= 1, 10) + Points(r.spreadOk, 5))>>
    ELSE <<>>
ShortMean(r) ==
    IF Regime(r) \in {"sideways", "downtrend"}
    THEN <<Candidate("short", "short_mean_reversion",
             Points(r.bias # "bull", 20) + Points(r.rsi = 5 \/ (r.rsi = 4 /\ r.rsiMoves = -1), 20)
             + Points(r.momentum = -1, 15) + Points(r.vwap # "above" \/ r.last = "below", 20)
             + Points(r.atr >= 2, 10) + Points(r.volume >= 1, 10) + Points(r.spreadOk, 5))>>
    ELSE <<>>
Breaks(r) ==
    IF r.volume = 2 /\ r.atr = 3
    THEN CASE r.range = "above" -> <<Candidate("long", "breakout", 85)>>
           [] r.range = "below" -> <<Candidate("short", "breakdown", 85)>>
           [] OTHER -> <<>>
    ELSE <<>>

Candidates(r) == LongTrend(r) \o ShortTrend(r) \o LongMean(r) \o ShortMean(r) \o Breaks(r)

\* The first of the highest score (the sort is stable).
Best(cs) == cs[CHOOSE i \in DOMAIN cs : \A j \in DOMAIN cs :
                     cs[j].score < cs[i].score \/ (cs[j].score = cs[i].score /\ i <= j)]

\* applyRiskFilters()
Rejected(r, c) ==
    \/ r.blocked
    \/ ~r.spreadOk \/ r.atr < 2 \/ r.volume = 0 \/ ~r.targetOk
    \/ c.score < 75
    \/ Regime(r) = "sideways" /\ c.direction = "long" /\ c.score < 85

\* analyzeSignal(): no signal, or one.
Analysed(r) ==
    LET cs == Candidates(r)
    IN IF ~r.warm \/ cs = <<>> \/ Rejected(r, Best(cs)) THEN <<>> ELSE <<Best(cs)>>

\* analysisToTradeSignal()
TradeSignal(signal) ==
    IF signal = <<>> THEN Silent
    ELSE [side |-> IF signal[1].direction = "long" THEN "buy" ELSE "sell", strength |-> signal[1].score]

\* What the built-in strategy may enter on: momentum, with the 15-minute trend up.
Enters(r) ==
    /\ Analysed(r) # <<>>
    /\ Analysed(r)[1].setup \in {"long_trend_continuation", "breakout"}
    /\ r.confirm = "bull" /\ TradeSignal(Analysed(r)).strength >= 75

NoVerdict == [kind |-> "none"]
Analyse(r) ==
    verdict' = [kind |-> "analysis", signal |-> Analysed(r), enters |-> Enters(r), regime |-> Regime(r),
                range |-> r.range, bias |-> r.bias, aligned |-> r.aligned, momentum |-> r.momentum]

----------------------------------------------------------------------------
\* The strategies on snapshots, which decide where the analysis says nothing.

\* A tick reading: the scalper's dip, V-shaped bounce and rise; the swing trader's RSI
\* bounce, RSI in the buy zone, price below its average, the EMAs' order and cross, an
\* acceptable spread, an RSI back from above; and of the last 180 ticks, whether there are
\* 60 of them, within 1.2 %, ending within 0.45 % of where they began.
TickReading == [dip : BOOLEAN, vBounce : BOOLEAN, rise : BOOLEAN,
                bounce : BOOLEAN, buyZone : BOOLEAN, below : BOOLEAN, bullish : BOOLEAN,
                cross : {"bull", "none", "bear"}, spreadOk : BOOLEAN, overbought : BOOLEAN,
                window : BOOLEAN, tight : BOOLEAN, still : BOOLEAN]

BuySignal(strength) == [side |-> "buy", strength |-> strength]
Sell == [side |-> "sell", strength |-> 80]

\* scalpStrategy
Scalp(t) == CASE t.dip -> BuySignal(78)
              [] ~t.dip /\ t.vBounce -> BuySignal(80)
              [] ~t.dip /\ ~t.vBounce /\ t.rise -> Sell
              [] OTHER -> Silent

\* multiSignalStrategy
BuyStrength(t) ==
    CASE t.bounce /\ t.spreadOk -> Points(TRUE, IF t.bullish THEN 85 ELSE 80) + Points(t.below, 10)
      [] ~(t.bounce /\ t.spreadOk) /\ t.buyZone /\ t.below /\ t.spreadOk /\ t.bullish -> 80
      [] OTHER -> Points(t.cross = "bull" /\ t.buyZone /\ t.spreadOk, 78)
Multi(t) == IF BuyStrength(t) >= 75 THEN BuySignal(BuyStrength(t))
            ELSE IF t.overbought \/ t.cross = "bear" THEN Sell
            ELSE Silent

\* analyze15mTrend()
Sideways(t) == t.window /\ t.tight /\ t.still

\* apply15mTrendFilter()
TrendFilter(signal, t) ==
    IF signal.side = "buy" /\ Sideways(t) /\ signal.strength < 85 THEN Silent ELSE signal

\* compositeStrategy: the swing trader is asked only when the scalper had nothing to say,
\* not when what he said was filtered.
Composite(t) == TrendFilter(IF Scalp(t).side # "none" THEN Scalp(t) ELSE Multi(t), t)

PossibleTick(t) == /\ ~(t.dip /\ t.rise) /\ ~(t.vBounce /\ t.rise)
                   /\ t.cross = "bull" => t.bullish
                   /\ t.cross = "bear" => ~t.bullish
                   /\ t.bounce => ~t.overbought

EvaluateTick(t) ==
    verdict' = [kind |-> "tick", signal |-> Composite(t), sideways |-> Sideways(t),
                scalped |-> t.dip \/ t.vBounce, backed |-> t.bounce /\ (t.bullish \/ t.below)]

VerdictInit == verdict = NoVerdict
VerdictNext ==
    /\ verdict = NoVerdict
    /\ \/ \E r \in Readings : Consistent(r) /\ Analyse(r)
       \/ \E t \in TickReading : PossibleTick(t) /\ EvaluateTick(t)

VerdictSpec == VerdictInit /\ [][VerdictNext]_verdict

----------------------------------------------------------------------------
\* Properties.

SignalsTypeOK ==
    /\ chart.phase \in {"none", "fetching", "ready"} /\ chart.id \in 0 .. MaxCharts
    /\ \A f \in Frames : Len(chart.bars[f]) <= KeepBars
    /\ Len(chart.pending) <= KeepPending
    /\ chart.phase # "ready" => chart.bars = NoBars
    /\ chart.phase = "fetching" => \E b \in boots : b.id = chart.id

\* However polls, answers, restarts and other users' first ticks interleave: since a chart
\* came to be, every candle of a whole frame holds each snapshot of its time once
\* (applySnapshotToCandles: nothing is lost to a replaced chart and nothing counted twice).
VolumeOf(bars, time) ==
    LET volumes == [i \in DOMAIN bars |-> bars[i].volume]
    IN MapThenSumSet(LAMBDA i : volumes[i], {i \in DOMAIN bars : bars[i].time = time})
SeenIn(snaps, f, time) == Cardinality({i \in DOMAIN snaps : Bucket(f, snaps[i]) = time})
SnapshotsOnce ==
    \A f \in Frames :
        Len(chart.bars[f]) < KeepBars /\ watched # <<>> =>
            \A time \in {Bucket(f, watched[i]) : i \in DOMAIN watched} :
                (\A ts \in 0 .. ChartEnd : Bucket(f, ts) = time => ts > Max({chart.born, chart.read[f]}) + SnapLag) =>
                    VolumeOf(chart.bars[f], time) = SeenIn(watched, f, time)

\* A chart never holds candles fetched for an earlier chart of the market (the call writes
\* to the object it was given, not to the map's entry).
OwnCandles == chart.phase = "ready" /\ chart.id # 0 => \A f \in Frames : chart.read[f] >= chart.born

ChartsSound == SnapshotsOnce /\ OwnCandles

\* The regimes and the setups, whose thresholds are written apart, agree: no signal in a
\* market too quiet to trade, none against the trend.
NoSignalAgainstTrend ==
    verdict.kind = "analysis" /\ verdict.signal # <<>> =>
        /\ verdict.regime # "compression"
        /\ verdict.regime = "downtrend" => verdict.signal[1].direction = "short"
        /\ verdict.regime = "uptrend" => verdict.signal[1].direction = "long"

\* A fall below the hour's lows on volume is called a breakout as a rise is, and the long
\* setup is tried first; a purchase then takes a bullish hour and EMAs still in order (and
\* with these it happens: the scores may tie at 85).
BreakdownBuysNeedTrend ==
    verdict.kind = "analysis" /\ verdict.enters /\ verdict.regime = "breakout_expansion"
        /\ verdict.range = "below" =>
        verdict.bias = "bull" /\ verdict.aligned = "up"

\* In sideways 15 minutes nothing but an RSI bounce with the EMAs or the average on its
\* side is bought, and never on the scalper's word.
SidewaysBuysBounce ==
    verdict.kind = "tick" /\ verdict.signal.side = "buy" /\ verdict.sideways =>
        verdict.backed /\ ~verdict.scalped

VerdictsSound == NoSignalAgainstTrend /\ BreakdownBuysNeedTrend /\ SidewaysBuysBounce
====
