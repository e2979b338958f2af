CONSTANTS
  home = home
  other = other
  box = box
  meta = meta
  k1 = k1
  k2 = k2
  k3 = k3
  p1 = p1
  Host <- MCHost
  MetadataHost <- MCMetadataHost
  LocalName <- MCLocal
  Literal <- MCLocal
  NoRef = NoRef
  Calls <- MCCalls
  HeaderName <- MCHeaderName
  ShortRef <- MCShortRef
  MaxRedirects = 2
  Cap = 3
  Specs <- MCSpecs
  Rules <- MCRules
  Descendant = {"descendant"}
  Servers <- MCServers
  MaxFailures = 1
  Patch = {p1}
  MaxWire = 2
  Off = Off
SPECIFICATION Spec
INVARIANTS RequestsStayInBounds ExchangesAreHonest CommandsAreReportedTruly SessionIsInStep
PROPERTY WhatWasStartedEnds
\* A call, a command and a session that are over stay so.
CHECK_DEADLOCK FALSE
