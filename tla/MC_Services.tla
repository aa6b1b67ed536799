----------------------------- MODULE MC_Services -----------------------------
(***************************************************************************)
(* The components that share no state with each other, checked together.   *)
(* focus names the component that moves in a behaviour; the others stand   *)
(* still in one of their initial states.  The behaviours of a component    *)
(* under its focus are all those of its own specification.                 *)
(***************************************************************************)
EXTENDS DeviceIdentity, InverterConfig, EvSessions, HealthAlerts, Notifications, AdminJobs,
        MarketPrices, Telemetry, Accounts, MobileSessions, HomeAssistantBridge, DeyeCloud,
        StationSetup, Forecasts, Optimizer, SolarInputs, HomeAssistantMqtt, EnergyChecks

VARIABLE focus

servicesVars ==
  <<focus, identityVars, configVars, evVars, healthVars, notificationVars, jobVars,
    marketVars, telemetryVars, accountVars, mobileVars, bridgeVars, cloudVars, setupVars,
    forecastVars, optimizerVars, solarVars, mqttVars>>

ServicesInit ==
  /\ focus \in {"identity", "config", "ev", "health", "notifications", "jobs", "market",
                "telemetry", "accounts", "mobile", "bridge", "cloud", "setup", "forecasts",
                "optimizer", "solar", "mqtt"}
  /\ IdentityInit /\ ConfigInit /\ EvInit /\ HealthInit /\ NotificationInit
  /\ JobsInit /\ MarketInit /\ TelemetryInit /\ AccountsInit /\ MobileInit
  /\ BridgeInit /\ CloudInit /\ SetupInit /\ ForecastsInit /\ OptimizerInit
  /\ SolarInit /\ MqttInit
  /\ focus # "ev" => ~evse.consent
  /\ focus # "notifications" => mode = "immediate"
  /\ focus # "accounts" => Administrators = {}
  /\ focus # "mobile" => ~account.exists
  /\ focus # "forecasts" => ~place.located
  /\ focus # "optimizer" => battery = 0
  /\ focus # "health" => possible = [past \in BOOLEAN |-> Verdicts]

(* Every component but c stands still. *)
OthersStand(c) ==
  /\ UNCHANGED focus
  /\ IF c = "identity" THEN TRUE ELSE UNCHANGED identityVars
  /\ IF c = "config" THEN TRUE ELSE UNCHANGED configVars
  /\ IF c = "ev" THEN TRUE ELSE UNCHANGED evVars
  /\ IF c = "health" THEN TRUE ELSE UNCHANGED healthVars
  /\ IF c = "notifications" THEN TRUE ELSE UNCHANGED notificationVars
  /\ IF c = "jobs" THEN TRUE ELSE UNCHANGED jobVars
  /\ IF c = "market" THEN TRUE ELSE UNCHANGED marketVars
  /\ IF c = "telemetry" THEN TRUE ELSE UNCHANGED telemetryVars
  /\ IF c = "accounts" THEN TRUE ELSE UNCHANGED accountVars
  /\ IF c = "mobile" THEN TRUE ELSE UNCHANGED mobileVars
  /\ IF c = "bridge" THEN TRUE ELSE UNCHANGED bridgeVars
  /\ IF c = "cloud" THEN TRUE ELSE UNCHANGED cloudVars
  /\ IF c = "setup" THEN TRUE ELSE UNCHANGED setupVars
  /\ IF c = "forecasts" THEN TRUE ELSE UNCHANGED forecastVars
  /\ IF c = "optimizer" THEN TRUE ELSE UNCHANGED optimizerVars
  /\ IF c = "solar" THEN TRUE ELSE UNCHANGED solarVars
  /\ IF c = "mqtt" THEN TRUE ELSE UNCHANGED mqttVars

ServicesNext ==
  \/ focus = "identity" /\ IdentityNext /\ OthersStand("identity")
  \/ focus = "config" /\ ConfigNext /\ OthersStand("config")
  \/ focus = "ev" /\ EvNext /\ OthersStand("ev")
  \/ focus = "health" /\ HealthNext /\ OthersStand("health")
  \/ focus = "notifications" /\ NotificationNext /\ OthersStand("notifications")
  \/ focus = "jobs" /\ JobsNext /\ OthersStand("jobs")
  \/ focus = "market" /\ MarketNext /\ OthersStand("market")
  \/ focus = "telemetry" /\ TelemetryNext /\ OthersStand("telemetry")
  \/ focus = "accounts" /\ AccountsNext /\ OthersStand("accounts")
  \/ focus = "mobile" /\ MobileNext /\ OthersStand("mobile")
  \/ focus = "bridge" /\ BridgeNext /\ OthersStand("bridge")
  \/ focus = "cloud" /\ CloudNext /\ OthersStand("cloud")
  \/ focus = "setup" /\ SetupNext /\ OthersStand("setup")
  \/ focus = "forecasts" /\ ForecastsNext /\ OthersStand("forecasts")
  \/ focus = "optimizer" /\ OptimizerNext /\ OthersStand("optimizer")
  \/ focus = "solar" /\ SolarNext /\ OthersStand("solar")
  \/ focus = "mqtt" /\ MqttNext /\ OthersStand("mqtt")

ServicesSpec == ServicesInit /\ [][ServicesNext]_servicesVars

ServicesTypeOK ==
  CASE focus = "identity" -> IdentityTypeOK
    [] focus = "config" -> ConfigTypeOK
    [] focus = "ev" -> EvTypeOK
    [] focus = "health" -> HealthTypeOK
    [] focus = "notifications" -> NotificationTypeOK
    [] focus = "jobs" -> JobsTypeOK
    [] focus = "market" -> MarketTypeOK
    [] focus = "telemetry" -> TelemetryTypeOK
    [] focus = "accounts" -> AccountsTypeOK
    [] focus = "mobile" -> MobileTypeOK
    [] focus = "bridge" -> BridgeTypeOK
    [] focus = "cloud" -> CloudTypeOK
    [] focus = "setup" -> SetupTypeOK
    [] focus = "forecasts" -> ForecastsTypeOK
    [] focus = "optimizer" -> OptimizerTypeOK
    [] focus = "solar" -> SolarTypeOK
    [] focus = "mqtt" -> MqttTypeOK
=============================================================================
