\* The UDN upnp_renderer_new builds from the MAC address 02:42:ac:11:00:02.
SPECIFICATION Spec
CONSTANTS
    Mac <- MCMac
INVARIANT UdnIsUuid
