---------------------------- MODULE MCRadarLink ----------------------------
EXTENDS RadarLink

\* The commands of cfg_lines, in order.  This image rejects one of them.
MCLines ==
  <<"sensorStop", "channelCfg", "chirpComnCfg", "chirpTimingCfg", "frameCfg", "guiMonitor",
    "sigProcChainCfg", "cfarCfg", "aoaFovCfg", "rangeSelCfg", "clutterRemoval",
    "compRangeBiasAndRxChanPhase", "adcDataSource", "adcLogging", "lowPowerCfg",
    "factoryCalibCfg", "sensorPosition", "mpdBoundaryBox", "minorStateCfg", "clusterCfg",
    "trackingCfg", "sensorStart">>
MCRejected == {"trackingCfg"}

\* With the wire anything may happen; without it, what a warm reset cures.  The
\* late answers are a bench of their own.
MCSites == {[wired |-> TRUE,  kinds |-> {"hang", "startFails", "startRefused"}],
            [wired |-> TRUE,  kinds |-> {"hang", "startFails", "startRefused", "late"}],
            [wired |-> FALSE, kinds |-> {"startRefused"}]}
=============================================================================
