SPECIFICATION Spec
CONSTANTS
  N = 4
  Addresses <- MCAddresses
  Pixels = {0, 1, 3}
  WordSpace = 256
PROPERTY ImageIsOnePixel
