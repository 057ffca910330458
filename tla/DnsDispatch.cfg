CONSTANTS
  Task = {t1}
  Iface = {eth, wlan}
  NoRoute = NoRoute
SPECIFICATION ServerSpec
INVARIANTS DnsSetMeansServers
