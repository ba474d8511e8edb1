SPECIFICATION Spec
CONSTANT MaxAge = 3
PROPERTIES WindowKeepsUpdating
