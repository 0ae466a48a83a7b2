---------------------------- MODULE Controllers ----------------------------
(***************************************************************************)
(* The controllers the provider registers (internal/controller/s4t.go) for *)
(* kinds whose external resource has a uuid of its own: the external       *)
(* client of kind k, handler by handler.  The injections, whose identity   *)
(* is a pair of other resources, are in module BoardInjection; Site and    *)
(* Result, whose handlers create nothing, in module PassiveResource.       *)
(***************************************************************************)
EXTENDS RestControllers, SdkControllers

Kinds == {"Fleet", "Webservice", "Port", "Request",
          "Device", "Plugin", "Service"}

Verdicts == {"error", "absent", "stale", "current"}

ObserveBy(k, o, a) ==
  CASE k = "Fleet"      -> FleetObserve(o, a)
    [] k = "Webservice" -> WebserviceObserve(o, a)
    [] k = "Port"       -> PortObserve(o, a)
    [] k = "Request"    -> RequestObserve(o, a)
    [] k = "Device"     -> DeviceObserve(o, a)
    [] k = "Plugin"     -> PluginObserve(o, a)
    [] k = "Service"    -> ServiceObserve(o, a)

CreateBy(k, o, a) ==
  CASE k = "Fleet"      -> FleetCreate(o, a)
    [] k = "Webservice" -> WebserviceCreate(o, a)
    [] k = "Port"       -> PortCreate(o, a)
    [] k = "Request"    -> RequestCreate(o, a)
    [] k = "Device"     -> DeviceCreate(o, a)
    [] k = "Plugin"     -> PluginCreate(o, a)
    [] k = "Service"    -> ServiceCreate(o, a)

UpdateBodyBy(k, o, d) ==
  CASE k = "Fleet"      -> FleetUpdateBody(o, d)
    [] k = "Webservice" -> WebserviceUpdateBody(o, d)
    [] k = "Port"       -> PortUpdateBody(o, d)
    [] k = "Request"    -> RequestUpdateBody(o, d)
    [] k = "Device"     -> DeviceUpdateBody(o, d)
    [] k = "Plugin"     -> PluginUpdateBody(o, d)
    [] k = "Service"    -> ServiceUpdateBody(o, d)

UpdateBy(k, o, a) ==
  CASE k = "Fleet"      -> FleetUpdate(o, a)
    [] k = "Webservice" -> WebserviceUpdate(o, a)
    [] k = "Port"       -> PortUpdate(o, a)
    [] k = "Request"    -> RequestUpdate(o, a)
    [] k = "Device"     -> DeviceUpdate(o, a)
    [] k = "Plugin"     -> PluginUpdate(o, a)
    [] k = "Service"    -> ServiceUpdate(o, a)

DeleteBy(k, o, a) ==
  CASE k = "Fleet"      -> FleetDelete(o, a)
    [] k = "Webservice" -> WebserviceDelete(o, a)
    [] k = "Port"       -> PortDelete(o, a)
    [] k = "Request"    -> RequestDelete(o, a)
    [] k = "Device"     -> DeviceDelete(o, a)
    [] k = "Plugin"     -> PluginDelete(o, a)
    [] k = "Service"    -> ServiceDelete(o, a)

\* What IoTronic answers when it has deleted a resource of kind k.
DeletedCode(k) == IF k = "Device" THEN 200 ELSE 204
=============================================================================
