SPECIFICATION FairRouterSpec

CONSTANTS
  Iface <- MCIface
  Address <- MCAddress
  Packet <- MCPacket
  MaxArpSize = 2
  EntryTimeout = 0
  MaxRetries = 1
  IfaceIp <- MCIfaceIp
  Routes <- MCRoutes
  Width = 4
  NetOrder <- MCNetOrder
  Host <- MCHost
  Input <- MCInput
  MaxPackets = 1

PROPERTIES
  CacheDrains
